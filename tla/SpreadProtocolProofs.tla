----------------------- MODULE SpreadProtocolProofs -----------------------
(***************************************************************************)
(* The ordering protocol of the daemons (protocol.c) delivers no message   *)
(* twice, AGREED and SAFE messages in one order everywhere, and to each    *)
(* daemon its own, for every set of daemons, load, window and number of    *)
(* memberships.                                                            *)
(*                                                                         *)
(* The argument has two levels.  Sane relates the packets of one daemon,   *)
(* its counters and its log: what is past Last_discarded is untold, what   *)
(* is ordered and told lies up to Last_delivered.  Each operation of a     *)
(* daemon, with its loops over packets, keeps it (Works, Installs).        *)
(* System adds what relates daemons: the messages of two memberships are   *)
(* different and were all taken from a queue (Queues, Untold), a log       *)
(* tells the messages of a membership between its events (Logs), all       *)
(* daemons go through the memberships in one order (RingOrder), and a      *)
(* form token goes to whoever has not read it (Forms, Members).            *)
(*                                                                         *)
(* A daemon also delivers its own messages.  Own says that it has its own  *)
(* packets until it has told their messages, and is one of the daemons     *)
(* whose packets it delivers past a hole; Faithful adds what it told of    *)
(* the memberships it left and what of a message it has still to send, and *)
(* Pledged that a form token under way keeps it among those daemons.       *)
(***************************************************************************)
EXTENDS SpreadProtocol, WellFoundedInduction, FiniteSetTheorems, SequenceTheorems, TLAPS

-----------------------------------------------------------------------------
(* The loops over packets are left folds; a fold is a chain of turns. *)

\* The body of each loop, by the name of the loop.
Body(loop, P, x, i) ==
  CASE loop = "agreed" -> AgreedPacket(P, x, i)
    [] loop = "reliable" -> ReliablePacket(P, x, i)
    [] loop = "stable" -> StablePacket(P, x, i)
    [] loop = "before" -> PacketBefore(P, x, i)
    [] loop = "after" -> PacketAfter(P, x, i)
    [] loop = "send" -> SendNext(P, x, i)
Turns(a, b) == IF a <= b THEN b - a + 1 ELSE 0

\* Every set of natural numbers has a least element.
LEMMA LeastNatural ==
  ASSUME NEW S, S \subseteq Nat, S # {}
  PROVE  \E m \in S : \A n \in S : m <= n
  <1>1. PICK m \in S : \A n \in S : ~(<<n, m>> \in OpToRel(<, Nat))
    BY WFMin, NatLessThanWellFounded
  <1>2. \A n \in S : ~(n < m)
    BY <1>1 DEF OpToRel
  <1> QED BY <1>2

\* Induction on the natural numbers, for a set.
LEMMA EveryNatural ==
  ASSUME NEW S, 0 \in S, \A n \in Nat : n \in S => n + 1 \in S
  PROVE  \A n \in Nat : n \in S
  <1> SUFFICES ASSUME Nat \ S # {} PROVE FALSE
    OBVIOUS
  <1>1. PICK m \in Nat \ S : \A n \in Nat \ S : m <= n
    <2>1. Nat \ S \subseteq Nat
      OBVIOUS
    <2> QED BY <2>1, LeastNatural
  <1>2. (m - 1 \in Nat) /\ ~(m <= m - 1)
    BY <1>1
  <1>3. m - 1 \in S
    BY <1>1, <1>2
  <1>4. (m - 1) + 1 \in S
    BY <1>2, <1>3
  <1> QED BY <1>4

\* The largest element of a set that has one.
LEMMA MaxIs ==
  ASSUME NEW n \in Nat, NEW s \in SUBSET (1 .. n), n \in s
  PROVE  Max(s) = n
  <1>1. \A y \in s : n >= y
    OBVIOUS
  <1> DEFINE m == CHOOSE x \in s : \A y \in s : x >= y
  <1>2. (m \in s) /\ \A y \in s : m >= y
    BY <1>1
  <1> HIDE DEF m
  <1>3. (m \in Int) /\ (m >= n) /\ (n >= m)
    BY <1>1, <1>2
  <1>4. m = n
    BY <1>3
  <1> QED BY <1>4 DEF Max, m

\* A non-empty set of numbers up to n contains its largest element.
LEMMA MaxIn ==
  ASSUME NEW n \in Nat, NEW s \in SUBSET (1 .. n), s # {}
  PROVE  Max(s) \in s
  <1> DEFINE R == {n - x : x \in s}
  <1>1. R # {} /\ \A z \in R : z \in Nat
    OBVIOUS
  <1>2. PICK z \in R : \A y \in R : z <= y
    <2> HIDE DEF R
    <2> QED BY <1>1, LeastNatural
  <1>3. PICK x \in s : z = n - x
    BY <1>2
  <1>4. \A y \in s : n - x <= n - y
    BY <1>2, <1>3
  <1>5. \A y \in s : x >= y
    BY <1>4
  <1> QED BY <1>5 DEF Max

\* A loop from a to b makes Turns(a, b) turns, the k-th of them with a + k - 1.
LEMMA TurnsNat ==
  ASSUME NEW a \in Int, NEW b \in Int
  PROVE  /\ Turns(a, b) \in Nat
         /\ Interval(a, b) = [i \in 1 .. Turns(a, b) |-> a + i - 1]
         /\ \A k \in 1 .. Turns(a, b) : a + k - 1 \in a .. b
         /\ a <= b => a + Turns(a, b) - 1 = b
  <1>1. 1 .. b - a + 1 = 1 .. Turns(a, b)
    BY DEF Turns
  <1> QED BY <1>1 DEF Turns, Interval

\* A loop is a chain of turns.
Run(loop, P, base, a, b) == FoldLeft(LAMBDA x, i : Body(loop, P, x, i), base, Interval(a, b))
Chain(c, loop, P, base, a, b) ==
  c[0] = base /\ \A k \in 1 .. Turns(a, b) : c[k] = Body(loop, P, c[k - 1], a + k - 1)
\* What a loop leaves is the last member of a chain that starts with what it was given.
LEMMA Loop ==
  ASSUME NEW loop, NEW P, NEW base, NEW a \in Int, NEW b \in Int
  PROVE  \E c : Chain(c, loop, P, base, a, b) /\ Run(loop, P, base, a, b) = c[Turns(a, b)]
  <1> DEFINE n == Turns(a, b)
             Value(f, s) == IF s = {} THEN base ELSE Body(loop, P, f[s \ {Max(s)}], a + Max(s) - 1)
             Good == {m \in Nat : \E f : f = [s \in SUBSET (1 .. m) |-> Value(f, s)]}
  <1>1. n \in Nat /\ Interval(a, b) = [i \in 1 .. n |-> a + i - 1]
    BY TurnsNat
  <1>2. Run(loop, P, base, a, b)
          = (CHOOSE f : f = [s \in SUBSET (1 .. n) |-> IF s = {} THEN base
                 ELSE Body(loop, P, f[s \ {Max(s)}], [i \in 1 .. n |-> a + i - 1][Max(s)])])[1 .. n]
    <2> DEFINE seq == [i \in 1 .. n |-> a + i - 1]
    <2>1. FoldLeft(LAMBDA x, i : Body(loop, P, x, i), base, seq)
            = (CHOOSE f : f = [s \in SUBSET (DOMAIN seq) |-> IF s = {} THEN base
                 ELSE Body(loop, P, f[s \ {Max(s)}], seq[Max(s)])])[DOMAIN seq]
      <3> HIDE DEF seq
      <3> QED BY DEF FoldLeft, MapThenFoldSet
    <2>2. (DOMAIN seq = 1 .. n) /\ (Interval(a, b) = seq)
      BY <1>1
    <2> QED BY <2>1, <2>2 DEF Run
  <1>3. (0 \in Good) /\ \A m \in Nat : m \in Good => m + 1 \in Good
    <2>1. 0 \in Good
      <3>1. [s \in SUBSET (1 .. 0) |-> base] = [s \in SUBSET (1 .. 0) |-> Value([t \in SUBSET (1 .. 0) |-> base], s)]
        OBVIOUS
      <3> QED BY <3>1
    <2>2. ASSUME NEW m \in Nat, m \in Good PROVE m + 1 \in Good
      <3>1. PICK f : f = [s \in SUBSET (1 .. m) |-> Value(f, s)]
        BY <2>2
      <3> DEFINE h == [s \in SUBSET (1 .. m + 1) |->
                         IF m + 1 \in s THEN Body(loop, P, f[s \ {m + 1}], a + (m + 1) - 1) ELSE f[s]]
      <3>2. ASSUME NEW s \in SUBSET (1 .. m + 1) PROVE h[s] = Value(h, s)
        <4>1. CASE m + 1 \in s
          <5>1. Max(s) = m + 1 /\ s \ {m + 1} \in SUBSET (1 .. m + 1) /\ m + 1 \notin s \ {m + 1}
            BY <4>1, MaxIs
          <5>2. h[s \ {m + 1}] = f[s \ {m + 1}] /\ h[s] = Body(loop, P, f[s \ {m + 1}], a + (m + 1) - 1)
            BY <4>1, <5>1
          <5> HIDE DEF h
          <5> QED BY <4>1, <5>1, <5>2
        <4>2. CASE m + 1 \notin s
          <5>1. s \in SUBSET (1 .. m) /\ h[s] = f[s]
            BY <4>2
          <5>2. f[s] = Value(f, s)
            BY <3>1, <5>1
          <5>3. s # {} => s \ {Max(s)} \in SUBSET (1 .. m + 1) /\ m + 1 \notin s \ {Max(s)}
            BY <4>2
          <5>4. s # {} => h[s \ {Max(s)}] = f[s \ {Max(s)}]
            BY <5>3
          <5> HIDE DEF h
          <5> QED BY <5>1, <5>2, <5>4
        <4> QED BY <4>1, <4>2
      <3>3. h = [s \in SUBSET (1 .. m + 1) |-> Value(h, s)]
        <4>1. h = [s \in SUBSET (1 .. m + 1) |-> h[s]]
          OBVIOUS
        <4> HIDE DEF h
        <4> QED BY <3>2, <4>1
      <3> HIDE DEF h, Value
      <3> QED BY <3>3
    <2> HIDE DEF Good
    <2> QED BY <2>1, <2>2
  <1>4. PICK f : f = [s \in SUBSET (1 .. n) |-> Value(f, s)]
    <2>1. n \in Good
      <3> HIDE DEF Good, n
      <3> QED BY <1>1, <1>3, EveryNatural
    <2> QED BY <2>1
  <1>5. ASSUME NEW k \in 1 .. n PROVE Max(1 .. k) = k /\ (1 .. k) \ {k} = 1 .. k - 1 /\ 1 .. k \in SUBSET (1 .. n)
    <2>1. Max(1 .. k) = k
      BY <1>1, MaxIs
    <2> QED BY <1>1, <2>1
  <1> DEFINE It(g) == g = [s \in SUBSET (1 .. n) |-> IF s = {} THEN base
                             ELSE Body(loop, P, g[s \ {Max(s)}], [i \in 1 .. n |-> a + i - 1][Max(s)])]
             it == CHOOSE g : It(g)
  <1>6. It(it)
    <2>1. ASSUME NEW s \in SUBSET (1 .. n), s # {} PROVE [i \in 1 .. n |-> a + i - 1][Max(s)] = a + Max(s) - 1
      <3>1. Max(s) \in s
        BY <1>1, <2>1, MaxIn
      <3> QED BY <3>1
    <2>2. It(f)
      BY <1>4, <2>1
    <2> HIDE DEF It
    <2> QED BY <2>2
  <1> DEFINE c == [k \in 0 .. n |-> it[1 .. k]]
  <1>7. \A k \in 0 .. n : c[k] = it[1 .. k]
    OBVIOUS
  <1>8. (1 .. 0 = {}) /\ (0 \in 0 .. n) /\ (n \in 0 .. n) /\ ({} \in SUBSET (1 .. n))
    BY <1>1
  <1>9. it[{}] = base
    <2> HIDE DEF it
    <2> QED BY <1>6, <1>8
  <1>10. ASSUME NEW k \in 1 .. n PROVE it[1 .. k] = Body(loop, P, it[1 .. k - 1], a + k - 1)
    <2>1. (1 .. k # {}) /\ [i \in 1 .. n |-> a + i - 1][k] = a + k - 1
      <3> HIDE DEF n, it, It, c, Good, Value
      <3>1. k \in 1 .. k
        BY ONLY <1>1, k \in 1 .. n
      <3>2. [i \in 1 .. n |-> a + i - 1][k] = a + k - 1
        BY ONLY k \in 1 .. n
      <3> QED BY ONLY <3>1, <3>2
    <2> HIDE DEF it
    <2> QED BY <1>5, <1>6, <2>1
  <1>11. Run(loop, P, base, a, b) = it[1 .. n]
    BY <1>2
  <1> HIDE DEF it, It
  <1>12. /\ c[0] = base
         /\ \A k \in 1 .. n : c[k] = Body(loop, P, c[k - 1], a + k - 1)
         /\ Run(loop, P, base, a, b) = c[n]
    <2>1. \A k \in 1 .. n : (k \in 0 .. n) /\ (k - 1 \in 0 .. n)
      BY <1>1
    <2> HIDE DEF c, n
    <2> QED BY <1>7, <1>8, <1>9, <1>10, <1>11, <2>1
  <1> HIDE DEF c
  <1> QED BY <1>12 DEF Chain

\* The loops of the model, as chains.
AgreedFold(P, x, a, b) == FoldLeft(LAMBDA y, i : AgreedPacket(P, y, i), x, Interval(a, b))
ReliableFold(P, x, a, b) == FoldLeft(LAMBDA y, i : ReliablePacket(P, y, i), x, Interval(a, b))
StableFold(P, x, a, b) == FoldLeft(LAMBDA y, i : StablePacket(P, y, i), x, Interval(a, b))
BeforeFold(P, x, a, b) == FoldLeft(LAMBDA y, i : PacketBefore(P, y, i), x, Interval(a, b))
AfterFold(P, x, a, b) == FoldLeft(LAMBDA y, i : PacketAfter(P, y, i), x, Interval(a, b))
SendFold(fits, x, a, b) == FoldLeft(LAMBDA y, i : SendNext(fits, y, i), x, Interval(a, b))

\* The loop of Deliver_agreed_packets.
LEMMA AgreedRun ==
  ASSUME NEW P, NEW x, NEW a, NEW b
  PROVE  AgreedFold(P, x, a, b) = Run("agreed", P, x, a, b)
  BY SMT DEF AgreedFold, Run, FoldLeft, MapThenFoldSet, Body
\* The loop of Deliver_reliable_packets.
LEMMA ReliableRun ==
  ASSUME NEW P, NEW x, NEW a, NEW b
  PROVE  ReliableFold(P, x, a, b) = Run("reliable", P, x, a, b)
  BY SMT DEF ReliableFold, Run, FoldLeft, MapThenFoldSet, Body
\* The loop of Discard_packets over the stable packets.
LEMMA StableRun ==
  ASSUME NEW P, NEW x, NEW a, NEW b
  PROVE  StableFold(P, x, a, b) = Run("stable", P, x, a, b)
  BY SMT DEF StableFold, Run, FoldLeft, MapThenFoldSet, Body
\* The loop of Discard_packets before the transitional membership.
LEMMA BeforeRun ==
  ASSUME NEW P, NEW x, NEW a, NEW b
  PROVE  BeforeFold(P, x, a, b) = Run("before", P, x, a, b)
  BY SMT DEF BeforeFold, Run, FoldLeft, MapThenFoldSet, Body
\* The loop of Discard_packets after the transitional membership.
LEMMA AfterRun ==
  ASSUME NEW P, NEW x, NEW a, NEW b
  PROVE  AfterFold(P, x, a, b) = Run("after", P, x, a, b)
  BY SMT DEF AfterFold, Run, FoldLeft, MapThenFoldSet, Body
\* The loop of Send_new_packets.
LEMMA SendRun ==
  ASSUME NEW fits, NEW x, NEW a, NEW b
  PROVE  SendFold(fits, x, a, b) = Run("send", fits, x, a, b)
  BY SMT DEF SendFold, Run, FoldLeft, MapThenFoldSet, Body

-----------------------------------------------------------------------------
(* What is true of a daemon r and of the packets P of its membership. *)

Fields == {"me", "State", "mid", "future", "attempt", "Packets", "Highest_seq", "My_aru", "Aru",
           "Last_discarded", "Last_delivered", "Last_seq", "threshold", "Just_Installed",
           "Last_token", "Last_num", "Commit_set", "Future_commit_set", "todo", "Down", "cur",
           "Up", "log"}
IsSeq(s) == \E S : s \in Seq(S)

\* A packet, and the messages it completes: of one service, and different.
PacketSet == [from : Procs, msg : Messages, index : Int,
              also : {<<>>} \cup {<<<<"msg", m>>>> : m \in Messages}]
PacketOK(k) ==
  k.also # <<>> => k.index < 0 /\ k.also[1][2] # k.msg /\ TypeOf[k.also[1][2]] = TypeOf[k.msg]
Carried(k) == (IF k.index < 0 THEN {k.msg} ELSE {}) \cup {k.also[x][2] : x \in DOMAIN k.also}
Contents(P) == UNION {Carried(P[s]) : s \in DOMAIN P}

\* A message is completed by one packet only.
PackOK(P) ==
  /\ P \in Seq(PacketSet)
  /\ \A s \in DOMAIN P : PacketOK(P[s])
  /\ \A s, t \in DOMAIN P : \A m \in Carried(P[s]) : m \in Carried(P[t]) => s = t

\* The messages in a log; each once, those of P in the order of P.
Told(log) == {log[x][2] : x \in {y \in DOMAIN log : log[y][1] = "msg"}}
NoRepeat(log) == \A x, y \in DOMAIN log : log[x] = log[y] /\ log[x][1] = "msg" => x = y
Pairs(log) == \A x \in DOMAIN log : log[x] = <<log[x][1], log[x][2]>>
InOrder(log, P) ==
  \A x, y \in DOMAIN log, s, t \in DOMAIN P :
    /\ x < y /\ log[x][1] = "msg" /\ log[y][1] = "msg"
    /\ log[x][2] \in Carried(P[s]) /\ log[y][2] \in Carried(P[t])
    /\ Ordered(log[x][2]) /\ Ordered(log[y][2])
    => s < t \/ (s = t /\ log[x][2] = P[s].msg)
Good(log, P) == IsSeq(log) /\ NoRepeat(log) /\ Pairs(log) /\ InOrder(log, P)

\* b is the log a, continued with messages of P and transitional signals.
Continues(a, b, P) ==
  /\ IsSeq(b) /\ Len(a) <= Len(b) /\ \A x \in DOMAIN a : b[x] = a[x]
  /\ \A x \in DOMAIN b \ DOMAIN a : \/ b[x] = <<"msg", b[x][2]>> /\ b[x][2] \in Contents(P)
                                   \/ b[x] = <<"trans", b[x][2]>>

\* The messages told of packets up to c, if they are ordered; and nothing told
\* of a packet after b that was not delivered.
Upto(log, P, c) == \A s \in DOMAIN P : \A m \in Carried(P[s]) : m \in Told(log) /\ Ordered(m) => s <= c
Unheard(r, P, b) ==
  \A s \in DOMAIN P : s > b /\ Exist(r, s) # 2 => Carried(P[s]) \cap Told(r.log) = {}

\* The records q and r are the same except for the fields F.
Differ(q, r, F) == DOMAIN q = Fields /\ DOMAIN r = Fields /\ \A f \in Fields \ F : q[f] = r[f]

\* A sequence of whatever it is.
LEMMA SeqFacts ==
  ASSUME NEW s, IsSeq(s)
  PROVE  Len(s) \in Nat /\ DOMAIN s = 1 .. Len(s)
  BY DEF IsSeq

\* What one more entry at the end of a sequence changes.
LEMMA AppendFacts ==
  ASSUME NEW s, IsSeq(s), NEW e
  PROVE  /\ IsSeq(s \o <<e>>) /\ Append(s, e) = s \o <<e>>
         /\ Len(s \o <<e>>) = Len(s) + 1
         /\ \A x \in DOMAIN s : (s \o <<e>>)[x] = s[x]
         /\ (s \o <<e>>)[Len(s) + 1] = e
         /\ DOMAIN (s \o <<e>>) = DOMAIN s \cup {Len(s) + 1}
         /\ Len(s) + 1 \notin DOMAIN s
  <1>1. PICK S : s \in Seq(S)
    BY DEF IsSeq
  <1>2. s \in Seq(S \cup {e}) /\ <<e>> \in Seq(S \cup {e})
    BY <1>1
  <1>3. (s \o <<e>> \in Seq(S \cup {e})) /\ (Len(s \o <<e>>) = Len(s) + 1) /\ (Len(s) \in Nat)
    BY <1>2
  <1>4. /\ \A x \in DOMAIN s : (s \o <<e>>)[x] = s[x]
        /\ (s \o <<e>>)[Len(s) + 1] = e
        /\ DOMAIN (s \o <<e>>) = DOMAIN s \cup {Len(s) + 1}
        /\ Len(s) + 1 \notin DOMAIN s
    BY <1>2, <1>3
  <1>5. Append(s, e) = s \o <<e>>
    BY <1>2
  <1> QED BY <1>3, <1>4, <1>5 DEF IsSeq

\* Nothing more at the end of a sequence changes nothing.
LEMMA EmptyConcat ==
  ASSUME NEW s, IsSeq(s)
  PROVE  s \o <<>> = s
  <1>1. PICK S : s \in Seq(S)
    BY DEF IsSeq
  <1> QED BY <1>1

\* A log continues itself.
LEMMA ContinuesSame ==
  ASSUME NEW a, IsSeq(a), NEW P
  PROVE  Continues(a, a, P)
  BY SeqFacts DEF Continues

\* A log that continues a log that continues a third one continues the third one.
LEMMA ContinuesTwice ==
  ASSUME NEW a, NEW b, NEW c, NEW P, IsSeq(a), Continues(a, b, P), Continues(b, c, P)
  PROVE  Continues(a, c, P)
  <1>1. /\ IsSeq(a) /\ IsSeq(b) /\ IsSeq(c)
        /\ Len(a) \in Nat /\ Len(b) \in Nat /\ Len(c) \in Nat
        /\ DOMAIN a = 1 .. Len(a) /\ DOMAIN b = 1 .. Len(b) /\ DOMAIN c = 1 .. Len(c)
        /\ Len(a) <= Len(b) /\ Len(b) <= Len(c)
    BY SeqFacts DEF Continues
  <1>2. (\A x \in DOMAIN a : b[x] = a[x]) /\ (\A x \in DOMAIN b : c[x] = b[x])
    BY DEF Continues
  <1>3. (DOMAIN a \subseteq DOMAIN b) /\ (DOMAIN b \subseteq DOMAIN c) /\ (Len(a) <= Len(c))
    BY <1>1
  <1>4. \A x \in DOMAIN a : c[x] = a[x]
    BY <1>2, <1>3
  <1>5. ASSUME NEW x \in DOMAIN c \ DOMAIN a
        PROVE  \/ c[x] = <<"msg", c[x][2]>> /\ c[x][2] \in Contents(P)
               \/ c[x] = <<"trans", c[x][2]>>
    <2>1. CASE x \in DOMAIN b
      BY <1>2, <1>5, <2>1 DEF Continues
    <2>2. CASE x \notin DOMAIN b
      BY <1>5, <2>2 DEF Continues
    <2> QED BY <2>1, <2>2
  <1> QED BY <1>1, <1>3, <1>4, <1>5 DEF Continues

\* One more event at the end of a log.
LEMMA ContinuesAppend ==
  ASSUME NEW log, NEW e, NEW P, IsSeq(log),
         \/ e = <<"msg", e[2]>> /\ e[2] \in Contents(P)
         \/ e = <<"trans", e[2]>>
  PROVE  Continues(log, log \o <<e>>, P)
  <1> DEFINE new == log \o <<e>>
  <1>1. /\ IsSeq(new) /\ Len(new) = Len(log) + 1 /\ Len(log) \in Nat
        /\ \A x \in DOMAIN log : new[x] = log[x]
        /\ new[Len(log) + 1] = e
        /\ DOMAIN new = DOMAIN log \cup {Len(log) + 1}
    BY AppendFacts, SeqFacts
  <1> HIDE DEF new
  <1>2. Continues(log, new, P)
    <2>1. \A x \in DOMAIN new \ DOMAIN log : new[x] = e
      BY <1>1
    <2>2. Len(log) <= Len(new)
      BY <1>1
    <2> QED BY <1>1, <2>1, <2>2 DEF Continues
  <1> QED BY <1>2 DEF new

\* Another message is told.
LEMMA Tell ==
  ASSUME NEW log, NEW P, NEW s \in DOMAIN P, NEW m \in Carried(P[s]),
         Good(log, P), PackOK(P), m \notin Told(log),
         Ordered(m) => \A t \in DOMAIN P : \A n \in Carried(P[t]) :
                         n \in Told(log) /\ Ordered(n) => t < s \/ (t = s /\ n = P[s].msg)
  PROVE  /\ Good(log \o <<<<"msg", m>>>>, P)
         /\ Told(log \o <<<<"msg", m>>>>) = Told(log) \cup {m}
         /\ Continues(log, log \o <<<<"msg", m>>>>, P)
  <1> DEFINE e == <<"msg", m>>
             new == log \o <<e>>
             z == Len(log) + 1
  <1>1. IsSeq(log) /\ NoRepeat(log) /\ Pairs(log) /\ InOrder(log, P)
    BY DEF Good
  <1>2. e[1] = "msg" /\ e[2] = m /\ m \in Contents(P)
    BY DEF Contents
  <1>3. /\ IsSeq(new) /\ DOMAIN new = DOMAIN log \cup {z} /\ z \notin DOMAIN log
        /\ new[z] = e /\ \A x \in DOMAIN log : new[x] = log[x]
    BY <1>1, AppendFacts
  <1>4. Continues(log, new, P)
    BY <1>1, <1>2, ContinuesAppend
  <1>5. z \in Nat /\ \A x \in DOMAIN log : x \in Nat /\ x < z
    BY <1>1, SeqFacts
  <1> HIDE DEF new, e, z
  <1>6. Told(new) = Told(log) \cup {m}
    BY <1>2, <1>3 DEF Told
  <1>7. NoRepeat(new)
    <2>1. \A x \in DOMAIN log : log[x][1] = "msg" => log[x][2] # m
      BY DEF Told
    <2> QED BY <1>1, <1>2, <1>3, <2>1 DEF NoRepeat
  <1>8. Pairs(new)
    <2>1. e = <<e[1], e[2]>>
      BY DEF e
    <2> QED BY <1>1, <1>3, <2>1 DEF Pairs
  <1>9. InOrder(new, P)
    <2> SUFFICES ASSUME NEW x \in DOMAIN new, NEW y \in DOMAIN new, NEW u \in DOMAIN P, NEW t \in DOMAIN P,
                        x < y, new[x][1] = "msg", new[y][1] = "msg",
                        new[x][2] \in Carried(P[u]), new[y][2] \in Carried(P[t]),
                        Ordered(new[x][2]), Ordered(new[y][2])
                 PROVE  u < t \/ (u = t /\ new[x][2] = P[u].msg)
      BY DEF InOrder
    <2>1. x \in DOMAIN log
      BY <1>3, <1>5
    <2>2. CASE y \in DOMAIN log
      BY <1>1, <1>3, <2>1, <2>2 DEF InOrder
    <2>3. CASE y = z
      <3>1. (new[y][2] = m) /\ (t = s)
        BY <1>2, <1>3, <2>3 DEF PackOK
      <3>2. new[x][2] \in Told(log)
        BY <1>3, <2>1 DEF Told
      <3> QED BY <3>1, <3>2
    <2> QED BY <1>3, <2>2, <2>3
  <1>10. Good(new, P)
    BY <1>3, <1>7, <1>8, <1>9 DEF Good
  <1> QED BY <1>4, <1>6, <1>10 DEF new, e

-----------------------------------------------------------------------------
(* A packet goes up. *)

\* Setting the mark of one packet leaves the marks of the others, and the other fields.
LEMMA ExistSet ==
  ASSUME NEW r, NEW s, NEW e, DOMAIN r = Fields
  PROVE  /\ Differ(SetExist(r, s, e), r, {"Packets"})
         /\ Exist(SetExist(r, s, e), s) = e
         /\ \A x : x # s => Exist(SetExist(r, s, e), x) = Exist(r, x)
  <1> DEFINE K == [i \in DOMAIN r.Packets \cup {s} |-> IF i = s THEN e ELSE r.Packets[i]]
             q == SetExist(r, s, e)
  <1>1. Differ(q, r, {"Packets"}) /\ q.Packets = K
    BY DEF SetExist, Differ, Fields
  <1>2. /\ K[s] = e /\ s \in DOMAIN K
        /\ \A x : x # s => /\ x \in DOMAIN K <=> x \in DOMAIN r.Packets
                           /\ x \in DOMAIN K => K[x] = r.Packets[x]
    OBVIOUS
  <1> HIDE DEF q, K
  <1>3. Exist(q, s) = e /\ \A x : x # s => Exist(q, x) = Exist(r, x)
    BY <1>1, <1>2 DEF Exist
  <1> QED BY <1>1, <1>3 DEF q

\* Discarding one packet leaves the marks of the others, and the other fields.
LEMMA ExistDrop ==
  ASSUME NEW r, NEW s, DOMAIN r = Fields
  PROVE  /\ Differ(Drop(r, s), r, {"Packets"})
         /\ Exist(Drop(r, s), s) = 0
         /\ \A x : x # s => Exist(Drop(r, s), x) = Exist(r, x)
  <1> DEFINE K == [i \in DOMAIN r.Packets \ {s} |-> r.Packets[i]]
             q == Drop(r, s)
  <1>1. Differ(q, r, {"Packets"}) /\ q.Packets = K
    BY DEF Drop, Differ, Fields
  <1>2. /\ s \notin DOMAIN K
        /\ \A x : x # s => /\ x \in DOMAIN K <=> x \in DOMAIN r.Packets
                           /\ x \in DOMAIN K => K[x] = r.Packets[x]
    OBVIOUS
  <1> HIDE DEF q, K
  <1>3. Exist(q, s) = 0 /\ \A x : x # s => Exist(q, x) = Exist(r, x)
    BY <1>1, <1>2 DEF Exist
  <1> QED BY <1>1, <1>3 DEF q

\* Alarm(EXIT) changes the state of the daemon only.
LEMMA ExitFacts ==
  ASSUME NEW r, DOMAIN r = Fields
  PROVE  /\ Differ(Exit(r), r, {"State"}) /\ Exit(r).State = "EXIT"
         /\ \A x : Exist(Exit(r), x) = Exist(r, x)
  BY DEF Exit, Differ, Fields, Exist

\* What a packet carries.
LEMMA CarriedFacts ==
  ASSUME NEW k \in PacketSet, PacketOK(k)
  PROVE  /\ k.msg \in Messages /\ k.index \in Int
         /\ \A m \in Carried(k) : m \in Messages /\ k.index < 0 /\ (Ordered(m) <=> Ordered(k.msg))
         /\ \/ k.also = <<>> /\ Carried(k) = (IF k.index < 0 THEN {k.msg} ELSE {})
            \/ \E m \in Messages : /\ k.also = <<<<"msg", m>>>> /\ k.index < 0 /\ m # k.msg
                                   /\ Carried(k) = {k.msg, m} /\ (Ordered(m) <=> Ordered(k.msg))
  <1>1. k.msg \in Messages /\ k.index \in Int /\ k.also \in {<<>>} \cup {<<<<"msg", m>>>> : m \in Messages}
    BY DEF PacketSet
  <1>2. CASE k.also = <<>>
    <2>1. Carried(k) = (IF k.index < 0 THEN {k.msg} ELSE {})
      BY <1>2 DEF Carried
    <2> QED BY <1>1, <1>2, <2>1
  <1>3. CASE k.also # <<>>
    <2>1. PICK m \in Messages : k.also = <<<<"msg", m>>>>
      BY <1>1, <1>3
    <2>2. k.also[1][2] = m /\ DOMAIN k.also = {1}
      BY <2>1
    <2>3. k.index < 0 /\ m # k.msg /\ TypeOf[m] = TypeOf[k.msg]
      BY <1>3, <2>2 DEF PacketOK
    <2>4. Carried(k) = {k.msg, m}
      BY <2>2, <2>3 DEF Carried
    <2> QED BY <1>1, <2>1, <2>3, <2>4 DEF Ordered
  <1> QED BY <1>2, <1>3

\* What the delivery of packet s adds to a log.
LEMMA TellPacket ==
  ASSUME NEW log, NEW P, NEW s \in DOMAIN P, Good(log, P), PackOK(P),
         Carried(P[s]) \cap Told(log) = {},
         Ordered(P[s].msg) => Upto(log, P, s - 1)
  PROVE  LET new == log \o (IF P[s].index < 0 THEN <<<<"msg", P[s].msg>>>> ELSE <<>>) \o P[s].also
         IN  Good(new, P) /\ Told(new) = Told(log) \cup Carried(P[s]) /\ Continues(log, new, P)
  <1> DEFINE k == P[s]
             e == <<"msg", k.msg>>
             one == log \o <<e>>
             new == log \o (IF k.index < 0 THEN <<e>> ELSE <<>>) \o k.also
  <1>1. k \in PacketSet /\ PacketOK(k) /\ s \in Nat /\ DOMAIN P \subseteq Nat
    BY DEF PackOK
  <1>2. /\ k.msg \in Messages /\ k.index \in Int
        /\ \A m \in Carried(k) : m \in Messages /\ k.index < 0 /\ (Ordered(m) <=> Ordered(k.msg))
        /\ \/ k.also = <<>> /\ Carried(k) = (IF k.index < 0 THEN {k.msg} ELSE {})
           \/ \E m \in Messages : /\ k.also = <<<<"msg", m>>>> /\ k.index < 0 /\ m # k.msg
                                  /\ Carried(k) = {k.msg, m} /\ (Ordered(m) <=> Ordered(k.msg))
    BY <1>1, CarriedFacts
  <1>3. IsSeq(log)
    BY DEF Good
  <1>4. CASE k.index >= 0
    <2>1. k.also = <<>> /\ Carried(k) = {} /\ ~(k.index < 0)
      BY <1>2, <1>4
    <2>2. new = log
      BY <1>3, <2>1, EmptyConcat
    <2>3. Continues(log, log, P)
      BY <1>3, ContinuesSame
    <2> HIDE DEF new
    <2>4. Good(new, P) /\ Told(new) = Told(log) \cup Carried(k) /\ Continues(log, new, P)
      BY <2>1, <2>2, <2>3
    <2> QED BY <2>4 DEF new
  <1>5. CASE k.index < 0
    <2>1. ASSUME Ordered(k.msg), NEW t \in DOMAIN P, NEW n \in Carried(P[t]), n \in Told(log), Ordered(n)
          PROVE  t < s
      BY <1>1, <2>1 DEF Upto
    <2>2. k.msg \in Carried(k) /\ k.msg \notin Told(log)
      BY <1>5 DEF Carried
    <2>3. Good(one, P) /\ Told(one) = Told(log) \cup {k.msg} /\ Continues(log, one, P)
      BY <2>1, <2>2, Tell
    <2>4. IsSeq(one) /\ new = one \o k.also
      BY <1>5, <2>3 DEF Good
    <2>5. CASE k.also = <<>>
      <3>1. new = one /\ Carried(k) = {k.msg}
        BY <1>2, <1>5, <2>4, <2>5, EmptyConcat
      <3> HIDE DEF new, one
      <3>2. Good(new, P) /\ Told(new) = Told(log) \cup Carried(k) /\ Continues(log, new, P)
        BY <2>3, <3>1
      <3> QED BY <3>2 DEF new
    <2>6. CASE k.also # <<>>
      <3>1. PICK m \in Messages : /\ k.also = <<<<"msg", m>>>> /\ m # k.msg
                                  /\ Carried(k) = {k.msg, m} /\ (Ordered(m) <=> Ordered(k.msg))
        BY <1>2, <2>6
      <3>2. m \in Carried(k) /\ m \notin Told(log) /\ m \notin Told(one)
        BY <2>3, <3>1
      <3>3. ASSUME Ordered(m), NEW t \in DOMAIN P, NEW n \in Carried(P[t]), n \in Told(one), Ordered(n)
            PROVE  t < s \/ (t = s /\ n = k.msg)
        <4>1. CASE n \in Told(log)
          BY <2>1, <3>1, <3>3, <4>1
        <4>2. CASE n = k.msg
          <5>1. t = s
            BY <2>2, <3>3, <4>2 DEF PackOK
          <5> QED BY <4>2, <5>1
        <4> QED BY <2>3, <3>3, <4>1, <4>2
      <3>4. /\ Good(one \o <<<<"msg", m>>>>, P)
            /\ Told(one \o <<<<"msg", m>>>>) = Told(one) \cup {m}
            /\ Continues(one, one \o <<<<"msg", m>>>>, P)
        <4> HIDE DEF one
        <4> QED BY <2>3, <3>2, <3>3, Tell
      <3>5. new = one \o <<<<"msg", m>>>>
        BY <2>4, <3>1
      <3> HIDE DEF new, one
      <3>6. Good(new, P) /\ Told(new) = Told(log) \cup Carried(k) /\ Continues(one, new, P)
        BY <2>3, <3>1, <3>4, <3>5
      <3>7. Continues(log, new, P)
        BY <1>3, <2>3, <3>6, ContinuesTwice
      <3> QED BY <3>6, <3>7 DEF new
    <2> QED BY <2>5, <2>6
  <1> QED BY <1>2, <1>4, <1>5

\* Deliver_packet tells the messages that the packet completes, and keeps the log good.
LEMMA Deliver ==
  ASSUME NEW r, NEW P, NEW s \in DOMAIN P, DOMAIN r = Fields, Good(r.log, P), PackOK(P),
         Carried(P[s]) \cap Told(r.log) = {},
         Ordered(P[s].msg) => Upto(r.log, P, s - 1)
  PROVE  /\ Differ(Deliver_packet(r, P, s), r, {"State", "Packets", "Up", "log"})
         /\ Deliver_packet(r, P, s).State \in {r.State, "EXIT"}
         /\ Good(Deliver_packet(r, P, s).log, P)
         /\ Continues(r.log, Deliver_packet(r, P, s).log, P)
         /\ Told(Deliver_packet(r, P, s).log) \subseteq Told(r.log) \cup Carried(P[s])
         /\ \A x : x # s => Exist(Deliver_packet(r, P, s), x) = Exist(r, x)
         /\ Exist(Deliver_packet(r, P, s), s) \in {Exist(r, s), 2}
         /\ Deliver_packet(r, P, s).State # "EXIT" => Exist(Deliver_packet(r, P, s), s) = 2
         /\ Deliver_packet(r, P, s).log = r.log \/ Exist(Deliver_packet(r, P, s), s) = 2
  <1> DEFINE q == Deliver_packet(r, P, s)
             new == r.log \o (IF P[s].index < 0 THEN <<<<"msg", P[s].msg>>>> ELSE <<>>) \o P[s].also
  <1>1. Good(new, P) /\ Told(new) = Told(r.log) \cup Carried(P[s]) /\ Continues(r.log, new, P)
    BY TellPacket
  <1>2. Continues(r.log, r.log, P)
    BY ContinuesSame DEF Good
  <1>3. q = Exit(r) \/ \E U : q = SetExist([r EXCEPT !.Up = U, !.log = new], s, 2)
    BY DEF Deliver_packet, Fields
  <1> HIDE DEF new
  <1>4. CASE q = Exit(r)
    <2>1. Differ(q, r, {"State"}) /\ q.State = "EXIT" /\ \A x : Exist(q, x) = Exist(r, x)
      BY <1>4, ExitFacts
    <2>2. Differ(q, r, {"State", "Packets", "Up", "log"}) /\ q.log = r.log
      BY <2>1 DEF Differ, Fields
    <2> HIDE DEF q
    <2>3. /\ Differ(q, r, {"State", "Packets", "Up", "log"})
          /\ q.State \in {r.State, "EXIT"}
          /\ Good(q.log, P)
          /\ Continues(r.log, q.log, P)
          /\ Told(q.log) \subseteq Told(r.log) \cup Carried(P[s])
          /\ \A x : x # s => Exist(q, x) = Exist(r, x)
          /\ Exist(q, s) \in {Exist(r, s), 2}
          /\ q.State # "EXIT" => Exist(q, s) = 2
          /\ q.log = r.log \/ Exist(q, s) = 2
      BY <1>2, <2>1, <2>2
    <2> QED BY <2>3 DEF q
  <1>5. CASE \E U : q = SetExist([r EXCEPT !.Up = U, !.log = new], s, 2)
    <2>1. PICK U : q = SetExist([r EXCEPT !.Up = U, !.log = new], s, 2)
      BY <1>5
    <2>2. PICK u : u = [r EXCEPT !.Up = U, !.log = new]
      OBVIOUS
    <2>3. Differ(u, r, {"Up", "log"}) /\ u.log = new /\ DOMAIN u = Fields /\ \A x : Exist(u, x) = Exist(r, x)
      BY <2>2 DEF Differ, Fields, Exist
    <2> HIDE DEF q
    <2>4. /\ Differ(q, u, {"Packets"}) /\ Exist(q, s) = 2
          /\ \A x : x # s => Exist(q, x) = Exist(u, x)
      <3>1. q = SetExist(u, s, 2)
        BY <2>1, <2>2
      <3> QED BY <2>3, <3>1, ExistSet
    <2>5. Differ(q, r, {"State", "Packets", "Up", "log"}) /\ q.log = new /\ q.State = r.State
      BY <2>3, <2>4 DEF Differ, Fields
    <2>6. /\ Differ(q, r, {"State", "Packets", "Up", "log"})
          /\ q.State \in {r.State, "EXIT"}
          /\ Good(q.log, P)
          /\ Continues(r.log, q.log, P)
          /\ Told(q.log) \subseteq Told(r.log) \cup Carried(P[s])
          /\ \A x : x # s => Exist(q, x) = Exist(r, x)
          /\ Exist(q, s) \in {Exist(r, s), 2}
          /\ q.State # "EXIT" => Exist(q, s) = 2
          /\ q.log = r.log \/ Exist(q, s) = 2
      BY <1>1, <2>3, <2>4, <2>5
    <2> QED BY <2>6 DEF q
  <1> QED BY <1>3, <1>4, <1>5

-----------------------------------------------------------------------------
(* The loops that deliver packets and keep them. *)

Here(r, P) == \A s : Exist(r, s) \in {1, 2} => s \in DOMAIN P
Passed(r) == \A s \in Int : r.Last_discarded < s /\ s <= r.Last_delivered => Exist(r, s) = 2
Known(r) == \A s \in Int : /\ r.State = "OP" /\ Exist(r, s) # 0 => s <= r.Highest_seq
                           /\ Exist(r, s) = 2 => s <= r.Highest_seq

\* What a daemon has and what its log tells fit together.
Fit(r, P) ==
  /\ Unheard(r, P, r.Last_discarded) /\ Upto(r.log, P, r.Last_delivered)
  /\ r.Last_discarded <= r.Last_delivered
  /\ Here(r, P)
  /\ r.State # "EXIT" => Passed(r) /\ Known(r)

Handled == {"State", "Packets", "Up", "log", "Last_delivered", "Last_discarded"}
\* q is what deliveries make of r.
Changes(r, q, P) ==
  /\ Differ(q, r, Handled) /\ q.State \in {r.State, "EXIT"} /\ Continues(r.log, q.log, P)

\* Delivering nothing is a change of the log that deliveries make.
LEMMA ChangesSame ==
  ASSUME NEW r, NEW P, DOMAIN r = Fields, IsSeq(r.log)
  PROVE  Changes(r, r, P)
  BY ContinuesSame DEF Changes, Differ

\* Deliveries after deliveries are deliveries.
LEMMA ChangesTwice ==
  ASSUME NEW r, NEW q, NEW u, NEW P, IsSeq(r.log), Changes(r, q, P), Changes(q, u, P)
  PROVE  Changes(r, u, P)
  <1>1. Continues(r.log, u.log, P)
    BY ContinuesTwice DEF Changes
  <1>2. Differ(u, r, Handled)
    BY DEF Changes, Differ
  <1> QED BY <1>1, <1>2 DEF Changes

\* After Deliver_packet the packets not delivered yet are still untold, and the order still holds.
LEMMA DeliverKeeps ==
  ASSUME NEW r, NEW P, NEW s \in DOMAIN P, DOMAIN r = Fields, Good(r.log, P), PackOK(P),
         Carried(P[s]) \cap Told(r.log) = {},
         Ordered(P[s].msg) => Upto(r.log, P, s - 1),
         NEW b, NEW c, Unheard(r, P, b), Upto(r.log, P, c), Ordered(P[s].msg) => s <= c, Here(r, P)
  PROVE  /\ Unheard(Deliver_packet(r, P, s), P, b)
         /\ Upto(Deliver_packet(r, P, s).log, P, c)
         /\ Here(Deliver_packet(r, P, s), P)
  <1> PICK q : q = Deliver_packet(r, P, s)
    OBVIOUS
  <1>1. /\ Told(q.log) \subseteq Told(r.log) \cup Carried(P[s])
        /\ \A x : x # s => Exist(q, x) = Exist(r, x)
        /\ Exist(q, s) \in {Exist(r, s), 2}
        /\ q.log = r.log \/ Exist(q, s) = 2
    BY Deliver
  <1>2. \A t \in DOMAIN P : t # s => Carried(P[t]) \cap Carried(P[s]) = {}
    BY DEF PackOK
  <1>3. Unheard(q, P, b)
    <2> SUFFICES ASSUME NEW t \in DOMAIN P, t > b, Exist(q, t) # 2
                 PROVE  Carried(P[t]) \cap Told(q.log) = {}
      BY DEF Unheard
    <2>1. CASE t = s
      BY <1>1, <2>1
    <2>2. CASE t # s
      <3>1. Carried(P[t]) \cap Told(r.log) = {}
        BY <1>1, <2>2 DEF Unheard
      <3> QED BY <1>1, <1>2, <2>2, <3>1
    <2> QED BY <2>1, <2>2
  <1>4. Upto(q.log, P, c)
    <2> SUFFICES ASSUME NEW t \in DOMAIN P, NEW m \in Carried(P[t]), m \in Told(q.log), Ordered(m)
                 PROVE  t <= c
      BY DEF Upto
    <2>1. CASE m \in Told(r.log)
      BY <2>1 DEF Upto
    <2>2. CASE m \in Carried(P[s])
      <3>1. (P[s] \in PacketSet) /\ PacketOK(P[s])
        BY DEF PackOK
      <3>2. Ordered(P[s].msg)
        BY <2>2, <3>1, CarriedFacts
      <3> QED BY <1>2, <2>2, <3>2
    <2> QED BY <1>1, <2>1, <2>2
  <1>5. Here(q, P)
    BY <1>1 DEF Here
  <1> QED BY <1>3, <1>4, <1>5

\* The state of the loop of Deliver_agreed_packets after packet i.
AgreedInv(a, P, i) ==
  /\ a = [r |-> a.r, stop |-> a.stop] /\ a.stop \in BOOLEAN
  /\ DOMAIN a.r = Fields /\ Good(a.r.log, P) /\ Fit(a.r, P) /\ a.r.State \in {"OP", "EXIT"}
  /\ a.r.Last_delivered \in Int /\ a.r.Last_discarded \in Int /\ (~a.stop => a.r.Last_delivered = i)

Advanced(r, P, i) == [Deliver_packet(r, P, i) EXCEPT !.Last_delivered = @ + 1]
\* An ordered packet is delivered, or was before: Last_delivered moves on.
LEMMA AgreedStep ==
  ASSUME NEW r, NEW P, NEW i \in Int, PackOK(P), DOMAIN r = Fields, Good(r.log, P), Fit(r, P),
         r.State \in {"OP", "EXIT"}, r.Last_delivered = i - 1, r.Last_discarded \in Int,
         Exist(r, i) = 1
  PROVE  /\ Changes(r, Advanced(r, P, i), P) /\ Good(Advanced(r, P, i).log, P) /\ Fit(Advanced(r, P, i), P)
         /\ Advanced(r, P, i).Last_delivered = i
         /\ Advanced(r, P, i).Last_discarded = r.Last_discarded
  <1> PICK q : q = Advanced(r, P, i)
    OBVIOUS
  <1> PICK u : u = Deliver_packet(r, P, i)
    OBVIOUS
  <1>1. i \in DOMAIN P /\ i > r.Last_discarded
    BY DEF Fit, Here
  <1>2. Unheard(r, P, r.Last_discarded) /\ Upto(r.log, P, i - 1) /\ Upto(r.log, P, i) /\ Here(r, P)
    <2>1. DOMAIN P \subseteq Nat
      BY DEF PackOK
    <2> QED BY <2>1 DEF Fit, Upto
  <1>3. Carried(P[i]) \cap Told(r.log) = {}
    BY <1>1, <1>2 DEF Unheard
  <1>4. /\ Differ(u, r, {"State", "Packets", "Up", "log"})
        /\ u.State \in {r.State, "EXIT"}
        /\ Good(u.log, P)
        /\ Continues(r.log, u.log, P)
        /\ \A x : x # i => Exist(u, x) = Exist(r, x)
        /\ Exist(u, i) \in {Exist(r, i), 2}
        /\ u.State # "EXIT" => Exist(u, i) = 2
    BY <1>1, <1>2, <1>3, Deliver
  <1>5. Unheard(u, P, r.Last_discarded) /\ Upto(u.log, P, i) /\ Here(u, P)
    <2>1. Ordered(P[i].msg) => i <= i
      OBVIOUS
    <2>2. /\ Unheard(Deliver_packet(r, P, i), P, r.Last_discarded)
          /\ Upto(Deliver_packet(r, P, i).log, P, i) /\ Here(Deliver_packet(r, P, i), P)
      BY ONLY PackOK(P), DOMAIN r = Fields, Good(r.log, P), <1>1, <1>2, <1>3, <2>1, DeliverKeeps
    <2> QED BY <2>2
  <1>6. /\ Differ(q, u, {"Last_delivered"}) /\ q.Last_delivered = i /\ u.Last_delivered = i - 1
        /\ \A x : Exist(q, x) = Exist(u, x)
    BY <1>4 DEF Differ, Fields, Exist, Advanced
  <1>7. Differ(q, r, Handled) /\ q.State = u.State /\ q.log = u.log
        /\ q.Last_discarded = r.Last_discarded /\ q.Highest_seq = r.Highest_seq
    BY <1>4, <1>6 DEF Differ, Fields, Handled
  <1>8. q.State # "EXIT" => Passed(q) /\ Known(q)
    <2> SUFFICES ASSUME q.State # "EXIT" PROVE Passed(q) /\ Known(q)
      OBVIOUS
    <2>1. r.State = "OP" /\ Passed(r) /\ Known(r)
      BY <1>4, <1>7 DEF Fit
    <2>2. \A x : Exist(q, x) = (IF x = i THEN 2 ELSE Exist(r, x))
      BY <1>4, <1>6, <1>7
    <2>3. Passed(q)
      BY <1>6, <1>7, <2>1, <2>2 DEF Passed
    <2>4. Known(q)
      BY <1>4, <1>7, <2>1, <2>2 DEF Known
    <2> QED BY <2>3, <2>4
  <1>9. Fit(q, P)
    <2>1. Unheard(q, P, r.Last_discarded)
      BY <1>5, <1>6, <1>7 DEF Unheard
    <2>2. Here(q, P)
      BY <1>5, <1>6 DEF Here
    <2> QED BY <1>1, <1>5, <1>6, <1>7, <1>8, <2>1, <2>2 DEF Fit
  <1> QED BY <1>4, <1>6, <1>7, <1>9 DEF Changes

\* One turn of Deliver_agreed_packets keeps what the loop maintains.
LEMMA AgreedTurn ==
  ASSUME NEW a, NEW P, NEW i \in Int, PackOK(P), AgreedInv(a, P, i - 1)
  PROVE  AgreedInv(AgreedPacket(P, a, i), P, i) /\ Changes(a.r, AgreedPacket(P, a, i).r, P)
  <1> DEFINE b == AgreedPacket(P, a, i)
  <1>1. /\ DOMAIN a.r = Fields /\ Good(a.r.log, P) /\ Fit(a.r, P) /\ a.r.State \in {"OP", "EXIT"}
        /\ a.r.Last_discarded \in Int /\ a = [r |-> a.r, stop |-> a.stop] /\ a.stop \in BOOLEAN
        /\ Changes(a.r, a.r, P)
    BY ChangesSame DEF AgreedInv, Good
  <1>2. CASE a.stop \/ (Exist(a.r, i) = 1 /\ TypeOf[P[i].msg] = Safe)
    <2>1. b.r = a.r /\ b.stop = TRUE /\ b = [r |-> b.r, stop |-> b.stop]
      BY <1>1, <1>2 DEF AgreedPacket
    <2> HIDE DEF b
    <2>2. AgreedInv(b, P, i) /\ Changes(a.r, b.r, P)
      BY <1>1, <2>1 DEF AgreedInv
    <2> QED BY <2>2 DEF b
  <1>3. CASE ~a.stop /\ Exist(a.r, i) = 1 /\ TypeOf[P[i].msg] # Safe
    <2> PICK q : q = Advanced(a.r, P, i)
      OBVIOUS
    <2>1. b.r = q /\ b.stop = a.stop /\ b = [r |-> b.r, stop |-> b.stop]
      BY <1>1, <1>3 DEF AgreedPacket, Advanced
    <2>2. a.r.Last_delivered = i - 1
      BY <1>3 DEF AgreedInv
    <2>3. /\ Changes(a.r, q, P) /\ Good(q.log, P) /\ Fit(q, P)
          /\ q.Last_delivered = i /\ q.Last_discarded = a.r.Last_discarded
      <3> PICK r : r = a.r
        OBVIOUS
      <3>1. /\ DOMAIN r = Fields /\ Good(r.log, P) /\ Fit(r, P) /\ r.State \in {"OP", "EXIT"}
            /\ r.Last_discarded \in Int /\ r.Last_delivered = i - 1 /\ Exist(r, i) = 1
        BY <1>1, <1>3, <2>2
      <3>2. q = Advanced(r, P, i)
        OBVIOUS
      <3>3. /\ Changes(r, q, P) /\ Good(q.log, P) /\ Fit(q, P)
            /\ q.Last_delivered = i /\ q.Last_discarded = r.Last_discarded
        BY ONLY i \in Int, PackOK(P), <3>1, <3>2, AgreedStep
      <3> QED BY <3>3
    <2>4. DOMAIN q = Fields /\ q.State \in {"OP", "EXIT"}
      BY <1>1, <2>3 DEF Changes, Differ
    <2> HIDE DEF b
    <2>5. AgreedInv(b, P, i) /\ Changes(a.r, b.r, P)
      BY <1>1, <2>1, <2>3, <2>4 DEF AgreedInv
    <2> QED BY <2>5 DEF b
  <1>4. CASE ~a.stop /\ Exist(a.r, i) = 2 /\ TypeOf[P[i].msg] < Agreed
    <2> PICK q : q = [a.r EXCEPT !.Last_delivered = @ + 1]
      OBVIOUS
    <2>1. b.r = q /\ b.stop = a.stop /\ b = [r |-> b.r, stop |-> b.stop]
      BY <1>1, <1>4 DEF AgreedPacket
    <2>2. a.r.Last_delivered = i - 1
      BY <1>4 DEF AgreedInv
    <2>3. /\ Differ(q, a.r, Handled) /\ q.Last_delivered = i /\ q.Last_discarded = a.r.Last_discarded
          /\ q.log = a.r.log /\ q.State = a.r.State /\ q.Highest_seq = a.r.Highest_seq /\ DOMAIN q = Fields
          /\ \A x : Exist(q, x) = Exist(a.r, x)
      BY <1>1, <2>2 DEF Differ, Fields, Handled, Exist
    <2>4. Changes(a.r, q, P)
      BY <1>1, <2>3 DEF Changes
    <2>5. Fit(q, P)
      <3>1. Unheard(q, P, q.Last_discarded) /\ Here(q, P)
        BY <1>1, <2>3 DEF Fit, Unheard, Here
      <3>2. Upto(q.log, P, i)
        <4>1. DOMAIN P \subseteq Nat
          BY DEF PackOK
        <4> QED BY <1>1, <2>2, <2>3, <4>1 DEF Fit, Upto
      <3>3. q.State # "EXIT" => Passed(q) /\ Known(q)
        BY <1>1, <1>4, <2>2, <2>3 DEF Fit, Passed, Known
      <3> QED BY <1>1, <2>2, <2>3, <3>1, <3>2, <3>3 DEF Fit
    <2> HIDE DEF b
    <2>6. AgreedInv(b, P, i) /\ Changes(a.r, b.r, P)
      BY <1>1, <2>1, <2>3, <2>4, <2>5 DEF AgreedInv
    <2> QED BY <2>6 DEF b
  <1>5. CASE ~a.stop /\ Exist(a.r, i) # 1 /\ ~(Exist(a.r, i) = 2 /\ TypeOf[P[i].msg] < Agreed)
    <2> PICK q : q = Exit(a.r)
      OBVIOUS
    <2>1. b.r = q /\ b.stop = TRUE /\ b = [r |-> b.r, stop |-> b.stop]
      BY <1>1, <1>5 DEF AgreedPacket
    <2>2. /\ Differ(q, a.r, {"State"}) /\ q.State = "EXIT"
          /\ \A x : Exist(q, x) = Exist(a.r, x)
      BY <1>1, ExitFacts
    <2>3. /\ Differ(q, a.r, Handled) /\ q.Last_delivered = a.r.Last_delivered
          /\ q.Last_discarded = a.r.Last_discarded /\ q.log = a.r.log /\ DOMAIN q = Fields
      BY <2>2 DEF Differ, Fields, Handled
    <2>4. Changes(a.r, q, P)
      BY <1>1, <2>2, <2>3 DEF Changes
    <2>5. Fit(q, P)
      BY <1>1, <2>2, <2>3 DEF Fit, Unheard, Here
    <2>6. a.r.Last_delivered \in Int
      BY DEF AgreedInv
    <2> HIDE DEF b
    <2>7. AgreedInv(b, P, i) /\ Changes(a.r, b.r, P)
      BY <1>1, <2>1, <2>2, <2>3, <2>4, <2>5, <2>6 DEF AgreedInv
    <2> QED BY <2>7 DEF b
  <1> QED BY <1>1, <1>2, <1>3, <1>4, <1>5

Counters == {"Highest_seq", "My_aru", "Aru", "Last_discarded", "Last_delivered", "Last_seq", "Last_num"}
DaemonTyped(r) ==
  /\ DOMAIN r = Fields
  /\ r.me \in Procs
  /\ r.State \in {"OP", "LOST", "FORM", "EVS", "EXIT", "DOWN"}
  /\ r.mid \in Rings /\ r.future \in Rings /\ r.attempt \in Rings
  /\ \A f \in Counters : r[f] \in Int
  /\ DOMAIN r.Last_token = {"arq", "aru", "seq"} /\ r.Last_token.aru \in Int /\ r.Last_token.seq \in Int
  /\ r.Down \in Seq(Messages) /\ r.todo \in Seq(Messages) /\ r.cur \in Nat
  /\ r.State \in {"LOST", "FORM"} => r.threshold = Block

\* What holds of a daemon between two operations, if it has not ended.
Sane(r, P) == DaemonTyped(r) /\ Good(r.log, P) /\ (r.State # "EXIT" => Fit(r, P))

\* The numbers that a daemon keeps are integers.
LEMMA TypedFacts ==
  ASSUME NEW r, DaemonTyped(r)
  PROVE  /\ DOMAIN r = Fields
         /\ r.Highest_seq \in Int /\ r.My_aru \in Int /\ r.Aru \in Int /\ r.Last_discarded \in Int
         /\ r.Last_delivered \in Int /\ r.Last_seq \in Int /\ r.Last_num \in Int
         /\ r.Last_token.aru \in Int /\ r.Last_token.seq \in Int
  BY DEF DaemonTyped, Counters

\* Deliveries keep the types of the fields.
LEMMA ChangesTyped ==
  ASSUME NEW r, NEW q, NEW P, DaemonTyped(r), Changes(r, q, P), q.Last_delivered \in Int, q.Last_discarded \in Int
  PROVE  DaemonTyped(q)
  <1>1. /\ DOMAIN q = Fields /\ q.me = r.me /\ q.mid = r.mid /\ q.future = r.future /\ q.attempt = r.attempt
        /\ q.Highest_seq = r.Highest_seq /\ q.My_aru = r.My_aru /\ q.Aru = r.Aru /\ q.Last_seq = r.Last_seq
        /\ q.Last_num = r.Last_num /\ q.Last_token = r.Last_token /\ q.Down = r.Down /\ q.todo = r.todo
        /\ q.cur = r.cur /\ q.threshold = r.threshold /\ q.State \in {r.State, "EXIT"}
    BY DEF Changes, Differ, Fields, Handled
  <1>2. \A f \in Counters : q[f] \in Int
    BY <1>1, TypedFacts DEF Counters
  <1> QED BY <1>1, <1>2 DEF DaemonTyped

\* Deliver_agreed_packets leaves a daemon whose packets and log fit together.
LEMMA AgreedLoop ==
  ASSUME NEW r, NEW P, PackOK(P), Sane(r, P), r.State = "OP"
  PROVE  LET q == AgreedFold(P, [r |-> r, stop |-> FALSE], r.Last_delivered + 1, r.My_aru).r
         IN  Sane(q, P) /\ Changes(r, q, P)
  <1> DEFINE base == [r |-> r, stop |-> FALSE]
  <1> PICK x, y : x = r.Last_delivered + 1 /\ y = r.My_aru
    OBVIOUS
  <1> DEFINE n == Turns(x, y)
             f == AgreedFold(P, base, x, y)
  <1>1. x \in Int /\ y \in Int /\ r.Last_delivered \in Int /\ r.Last_discarded \in Int /\ DOMAIN r = Fields
    BY TypedFacts DEF Sane
  <1>2. n \in Nat
    BY <1>1, TurnsNat
  <1>3. PICK c : Chain(c, "agreed", P, base, x, y) /\ Run("agreed", P, base, x, y) = c[n]
    BY <1>1, Loop
  <1>4. /\ c[0] = base /\ f = c[n]
        /\ \A k \in 1 .. n : c[k] = AgreedPacket(P, c[k - 1], x + k - 1)
    BY <1>3, AgreedRun DEF Chain, Body
  <1> DEFINE S == {k \in Nat : k <= n => AgreedInv(c[k], P, r.Last_delivered + k) /\ Changes(r, c[k].r, P)}
  <1> HIDE DEF n, f
  <1>5. 0 \in S
    <2>1. base = [r |-> base.r, stop |-> base.stop] /\ base.stop \in BOOLEAN /\ base.r = r
      OBVIOUS
    <2>2. AgreedInv(base, P, r.Last_delivered)
      BY <1>1, <2>1 DEF Sane, AgreedInv
    <2>3. Changes(r, base.r, P)
      BY <1>1, <2>1, ChangesSame DEF Sane, Good
    <2>4. r.Last_delivered + 0 = r.Last_delivered
      BY <1>1
    <2> HIDE DEF base
    <2> QED BY <1>4, <2>2, <2>3, <2>4
  <1>6. ASSUME NEW k \in Nat, k \in S PROVE k + 1 \in S
    <2> SUFFICES ASSUME k + 1 <= n PROVE AgreedInv(c[k + 1], P, r.Last_delivered + (k + 1)) /\ Changes(r, c[k + 1].r, P)
      OBVIOUS
    <2>1. AgreedInv(c[k], P, r.Last_delivered + k) /\ Changes(r, c[k].r, P)
      BY <1>2, <1>6
    <2> DEFINE i == r.Last_delivered + (k + 1)
    <2>2. i \in Int /\ i - 1 = r.Last_delivered + k /\ c[k + 1] = AgreedPacket(P, c[k], i)
      <3>1. (k + 1 \in 1 .. n) /\ (k + 1) - 1 = k /\ x + (k + 1) - 1 = i
        BY <1>1, <1>2
      <3> QED BY <1>1, <1>4, <3>1
    <2> HIDE DEF i
    <2>3. AgreedInv(c[k + 1], P, i) /\ Changes(c[k].r, c[k + 1].r, P)
      BY <2>1, <2>2, AgreedTurn
    <2>4. Changes(r, c[k + 1].r, P)
      BY <2>1, <2>3, ChangesTwice DEF Sane, Good
    <2> QED BY <2>3, <2>4 DEF i
  <1>7. n \in S
    <2> HIDE DEF S
    <2> QED BY <1>2, <1>5, <1>6, EveryNatural
  <1>8. AgreedInv(f, P, r.Last_delivered + n) /\ Changes(r, f.r, P)
    BY <1>1, <1>2, <1>4, <1>7
  <1>9. DaemonTyped(f.r)
    BY <1>8, ChangesTyped DEF AgreedInv, Sane
  <1>10. Sane(f.r, P) /\ Changes(r, f.r, P)
    BY <1>8, <1>9 DEF AgreedInv, Sane
  <1> QED BY <1>10 DEF f

\* Deliver_agreed_packets
LEMMA AgreedDelivery ==
  ASSUME NEW r, NEW P, PackOK(P), Sane(r, P), r.State # "DOWN"
  PROVE  /\ Sane(Deliver_agreed_packets(r, P), P) /\ Changes(r, Deliver_agreed_packets(r, P), P)
         /\ r.State # "OP" => Deliver_agreed_packets(r, P) = r
  <1>1. CASE r.State \in {"EVS", "EXIT"} \/ r.threshold > Agreed
    <2>1. Deliver_agreed_packets(r, P) = r
      BY <1>1 DEF Deliver_agreed_packets
    <2>2. Changes(r, r, P)
      BY ChangesSame DEF Sane, Good, DaemonTyped
    <2> QED BY <2>1, <2>2
  <1>2. CASE ~(r.State \in {"EVS", "EXIT"} \/ r.threshold > Agreed)
    <2>1. r.State = "OP"
      BY <1>2 DEF Sane, DaemonTyped, Block, Agreed
    <2>2. Deliver_agreed_packets(r, P) = AgreedFold(P, [r |-> r, stop |-> FALSE], r.Last_delivered + 1, r.My_aru).r
      BY <1>2 DEF Deliver_agreed_packets, AgreedFold
    <2> QED BY <2>1, <2>2, AgreedLoop
  <1> QED BY <1>1, <1>2

-----------------------------------------------------------------------------
\* Deliver_reliable_packets
ReliableInv(r, P, b) ==
  /\ DOMAIN r = Fields /\ Good(r.log, P) /\ Fit(r, P) /\ r.State \in {"OP", "EXIT"}
  /\ r.Last_discarded = b.Last_discarded /\ r.Last_delivered = b.Last_delivered

\* One turn of Deliver_reliable_packets keeps what the loop maintains.
LEMMA ReliableTurn ==
  ASSUME NEW r, NEW P, NEW i \in Int, NEW b, PackOK(P), ReliableInv(r, P, b),
         b.Last_discarded \in Int, b.Last_delivered \in Int, i > b.Last_delivered
  PROVE  ReliableInv(ReliablePacket(P, r, i), P, b) /\ Changes(r, ReliablePacket(P, r, i), P)
  <1> PICK q : q = ReliablePacket(P, r, i)
    OBVIOUS
  <1>1. /\ DOMAIN r = Fields /\ Good(r.log, P) /\ Fit(r, P) /\ r.State \in {"OP", "EXIT"}
        /\ r.Last_discarded = b.Last_discarded /\ r.Last_delivered = b.Last_delivered
    BY DEF ReliableInv
  <1>2. CASE q = r
    <2>1. Changes(r, r, P)
      BY <1>1, ChangesSame DEF Good
    <2> QED BY <1>2, <2>1
  <1>3. CASE q = Deliver_packet(r, P, i) /\ Exist(r, i) = 1 /\ TypeOf[P[i].msg] = Reliable
    <2>1. i \in DOMAIN P /\ i > r.Last_discarded
      BY <1>1, <1>3 DEF Fit, Here
    <2>2. /\ Unheard(r, P, r.Last_discarded) /\ Upto(r.log, P, r.Last_delivered) /\ Here(r, P)
          /\ ~Ordered(P[i].msg)
      BY <1>1, <1>3 DEF Fit, Ordered
    <2>3. Carried(P[i]) \cap Told(r.log) = {}
      BY <1>3, <2>1, <2>2 DEF Unheard
    <2>4. /\ Differ(q, r, {"State", "Packets", "Up", "log"})
          /\ q.State \in {r.State, "EXIT"}
          /\ Good(q.log, P)
          /\ Continues(r.log, q.log, P)
          /\ \A x : x # i => Exist(q, x) = Exist(r, x)
          /\ Exist(q, i) \in {Exist(r, i), 2}
      BY <1>1, <1>3, <2>1, <2>2, <2>3, Deliver
    <2>5. Unheard(q, P, r.Last_discarded) /\ Upto(q.log, P, r.Last_delivered) /\ Here(q, P)
      <3>1. /\ Unheard(Deliver_packet(r, P, i), P, r.Last_discarded)
            /\ Upto(Deliver_packet(r, P, i).log, P, r.Last_delivered) /\ Here(Deliver_packet(r, P, i), P)
        BY ONLY PackOK(P), <1>1, <2>1, <2>2, <2>3, DeliverKeeps
      <3> QED BY <1>3, <3>1
    <2>6. /\ Differ(q, r, Handled) /\ DOMAIN q = Fields
          /\ q.Last_discarded = r.Last_discarded /\ q.Last_delivered = r.Last_delivered
          /\ q.Highest_seq = r.Highest_seq
      BY <2>4 DEF Differ, Fields, Handled
    <2>7. q.State # "EXIT" => Passed(q) /\ Known(q)
      <3> SUFFICES ASSUME q.State # "EXIT" PROVE Passed(q) /\ Known(q)
        OBVIOUS
      <3>1. r.State = "OP" /\ Passed(r) /\ Known(r)
        BY <1>1, <2>4 DEF Fit
      <3>2. Passed(q)
        BY <1>3, <2>4, <2>6, <3>1 DEF Passed
      <3>3. Known(q)
        BY <1>3, <2>4, <2>6, <3>1 DEF Known
      <3> QED BY <3>2, <3>3
    <2>8. Fit(q, P)
      BY <1>1, <2>5, <2>6, <2>7 DEF Fit
    <2> QED BY <1>1, <2>4, <2>6, <2>8 DEF ReliableInv, Changes
  <1> QED BY <1>2, <1>3 DEF ReliablePacket

\* The loop of Deliver_reliable_packets leaves packets and log that fit together.
LEMMA ReliableLoop ==
  ASSUME NEW r, NEW P, PackOK(P), Sane(r, P), r.State = "OP", NEW x \in Int, NEW y \in Int, x > r.Last_delivered
  PROVE  Sane(ReliableFold(P, r, x, y), P) /\ Changes(r, ReliableFold(P, r, x, y), P)
  <1> DEFINE n == Turns(x, y)
             f == ReliableFold(P, r, x, y)
  <1>1. r.Last_delivered \in Int /\ r.Last_discarded \in Int /\ DOMAIN r = Fields
    BY TypedFacts DEF Sane
  <1>2. n \in Nat
    BY TurnsNat
  <1>3. PICK c : Chain(c, "reliable", P, r, x, y) /\ Run("reliable", P, r, x, y) = c[n]
    BY Loop
  <1>4. /\ c[0] = r /\ f = c[n]
        /\ \A k \in 1 .. n : c[k] = ReliablePacket(P, c[k - 1], x + k - 1)
    BY <1>3, ReliableRun DEF Chain, Body
  <1> DEFINE S == {k \in Nat : k <= n => ReliableInv(c[k], P, r) /\ Changes(r, c[k], P)}
  <1> HIDE DEF n, f
  <1>5. 0 \in S
    <2>1. ReliableInv(r, P, r)
      BY <1>1 DEF Sane, ReliableInv
    <2>2. Changes(r, r, P)
      BY <1>1, ChangesSame DEF Sane, Good
    <2> QED BY <1>4, <2>1, <2>2
  <1>6. ASSUME NEW k \in Nat, k \in S PROVE k + 1 \in S
    <2> SUFFICES ASSUME k + 1 <= n PROVE ReliableInv(c[k + 1], P, r) /\ Changes(r, c[k + 1], P)
      OBVIOUS
    <2>1. ReliableInv(c[k], P, r) /\ Changes(r, c[k], P)
      BY <1>2, <1>6
    <2> DEFINE i == x + (k + 1) - 1
    <2>2. i \in Int /\ i > r.Last_delivered /\ c[k + 1] = ReliablePacket(P, c[k], i)
      <3>1. (k + 1 \in 1 .. n) /\ (k + 1) - 1 = k
        BY <1>1, <1>2
      <3> QED BY <1>1, <1>4, <3>1
    <2> HIDE DEF i
    <2>3. ReliableInv(c[k + 1], P, r) /\ Changes(c[k], c[k + 1], P)
      BY <1>1, <2>1, <2>2, ReliableTurn
    <2>4. Changes(r, c[k + 1], P)
      BY <2>1, <2>3, ChangesTwice DEF Sane, Good
    <2> QED BY <2>3, <2>4
  <1>7. n \in S
    <2> HIDE DEF S
    <2> QED BY <1>2, <1>5, <1>6, EveryNatural
  <1>8. ReliableInv(f, P, r) /\ Changes(r, f, P)
    BY <1>1, <1>2, <1>4, <1>7
  <1>9. DaemonTyped(f)
    BY <1>1, <1>8, ChangesTyped DEF ReliableInv, Sane
  <1>10. Sane(f, P) /\ Changes(r, f, P)
    BY <1>8, <1>9 DEF ReliableInv, Sane
  <1> QED BY <1>10 DEF f

\* Deliver_reliable_packets, with its guards.
LEMMA ReliableDelivery ==
  ASSUME NEW r, NEW P, PackOK(P), Sane(r, P), r.State # "DOWN", NEW start \in Int, NEW num \in Int
  PROVE  /\ Sane(Deliver_reliable_packets(r, P, start, num), P)
         /\ Changes(r, Deliver_reliable_packets(r, P, start, num), P)
         /\ r.State # "OP" => Deliver_reliable_packets(r, P, start, num) = r
  <1>1. CASE r.State \in {"EVS", "EXIT"} \/ r.threshold > Reliable
    <2>1. Deliver_reliable_packets(r, P, start, num) = r
      BY <1>1 DEF Deliver_reliable_packets
    <2>2. Changes(r, r, P)
      BY ChangesSame DEF Sane, Good, DaemonTyped
    <2> QED BY <2>1, <2>2
  <1>2. CASE ~(r.State \in {"EVS", "EXIT"} \/ r.threshold > Reliable)
    <2>1. r.State = "OP"
      BY <1>2 DEF Sane, DaemonTyped, Block, Reliable
    <2> DEFINE x == Larger(start, r.Last_delivered + 1)
    <2>2. x \in Int /\ x > r.Last_delivered /\ start + num - 1 \in Int
      BY TypedFacts DEF Sane, Larger
    <2>3. Deliver_reliable_packets(r, P, start, num)
            = ReliableFold(P, r, x, start + num - 1)
      BY <1>2 DEF Deliver_reliable_packets, ReliableFold
    <2> HIDE DEF x
    <2> QED BY <2>1, <2>2, <2>3, ReliableLoop
  <1> QED BY <1>1, <1>2

-----------------------------------------------------------------------------
(* The loops that deliver packets and forget them. *)

\* Packets up to i are out of the way: what comes later can still be told.
Clear(r, P, i) ==
  /\ DOMAIN r = Fields /\ Good(r.log, P)
  /\ Unheard(r, P, i) /\ Upto(r.log, P, Larger(r.Last_delivered, i)) /\ Here(r, P)
  /\ \A x \in Int : x > i /\ Exist(r, x) = 1 => x > r.Last_delivered

\* Packet i left, delivered or not, or the daemon ended.
Drops(r, q, P, i) ==
  /\ Differ(q, r, {"State", "Packets", "Up", "log"}) /\ q.State \in {r.State, "EXIT"}
  /\ Continues(r.log, q.log, P)
  /\ Exist(q, i) \in {0, Exist(r, i)} /\ \A x : x # i => Exist(q, x) = Exist(r, x)

\* In a sane daemon everything past Last_discarded can still be delivered or discarded.
LEMMA FitClear ==
  ASSUME NEW r, NEW P, Sane(r, P), r.State # "EXIT"
  PROVE  Clear(r, P, r.Last_discarded)
  <1>1. Fit(r, P) /\ DOMAIN r = Fields /\ r.Last_discarded \in Int /\ r.Last_delivered \in Int
    BY TypedFacts DEF Sane
  <1>2. Larger(r.Last_delivered, r.Last_discarded) = r.Last_delivered
    BY <1>1 DEF Larger, Fit
  <1>3. \A x \in Int : x > r.Last_discarded /\ Exist(r, x) = 1 => x > r.Last_delivered
    BY <1>1 DEF Fit, Passed
  <1> QED BY <1>1, <1>2, <1>3 DEF Clear, Sane, Fit

\* A packet that is delivered already, or that does not exist, is passed.
LEMMA ClearMore ==
  ASSUME NEW r, NEW P, NEW i \in Int, PackOK(P), Clear(r, P, i - 1), r.Last_delivered \in Int
  PROVE  Clear(r, P, i)
  <1>1. DOMAIN P \subseteq Int
    BY DEF PackOK
  <1>2. Unheard(r, P, i)
    BY <1>1 DEF Clear, Unheard
  <1>3. Upto(r.log, P, Larger(r.Last_delivered, i))
    BY <1>1 DEF Clear, Upto, Larger
  <1>4. \A x \in Int : x > i /\ Exist(r, x) = 1 => x > r.Last_delivered
    BY DEF Clear
  <1> QED BY <1>2, <1>3, <1>4 DEF Clear

\* Nothing but the state changes.
LEMMA ClearExit ==
  ASSUME NEW r, NEW P, NEW i \in Int, Clear(r, P, i)
  PROVE  Clear(Exit(r), P, i) /\ \A x : Drops(r, Exit(r), P, x)
  <1> PICK q : q = Exit(r)
    OBVIOUS
  <1>1. DOMAIN r = Fields /\ Good(r.log, P)
    BY DEF Clear
  <1>2. Differ(q, r, {"State"}) /\ q.State = "EXIT" /\ \A x : Exist(q, x) = Exist(r, x)
    BY <1>1, ExitFacts
  <1>3. /\ Differ(q, r, {"State", "Packets", "Up", "log"}) /\ q.log = r.log
        /\ q.Last_delivered = r.Last_delivered /\ DOMAIN q = Fields
    BY <1>2 DEF Differ, Fields
  <1>4. Continues(r.log, r.log, P)
    BY <1>1, ContinuesSame DEF Good
  <1>5. Clear(q, P, i)
    BY <1>2, <1>3 DEF Clear, Unheard, Here
  <1>6. \A x : Drops(r, q, P, x)
    BY <1>2, <1>3, <1>4 DEF Drops
  <1> QED BY <1>5, <1>6

\* A packet that is discarded is passed.
LEMMA ClearDrop ==
  ASSUME NEW r, NEW P, NEW i \in Int, PackOK(P), Clear(r, P, i), r.Last_delivered \in Int
  PROVE  Clear(Drop(r, i), P, i) /\ Drops(r, Drop(r, i), P, i)
  <1> PICK q : q = Drop(r, i)
    OBVIOUS
  <1>1. DOMAIN r = Fields /\ Good(r.log, P) /\ DOMAIN P \subseteq Int
    BY DEF Clear, PackOK
  <1>2. /\ Differ(q, r, {"Packets"}) /\ Exist(q, i) = 0
        /\ \A x : x # i => Exist(q, x) = Exist(r, x)
    BY <1>1, ExistDrop
  <1>3. /\ Differ(q, r, {"State", "Packets", "Up", "log"}) /\ q.log = r.log /\ q.State = r.State
        /\ q.Last_delivered = r.Last_delivered /\ DOMAIN q = Fields
    BY <1>2 DEF Differ, Fields
  <1>4. Continues(r.log, r.log, P)
    BY <1>1, ContinuesSame DEF Good
  <1>5. Unheard(q, P, i)
    <2>1. \A s \in DOMAIN P : s > i => s # i
      BY <1>1
    <2> QED BY <1>2, <1>3, <2>1 DEF Clear, Unheard
  <1>6. Here(q, P)
    BY <1>2 DEF Clear, Here
  <1>7. \A x \in Int : x > i /\ Exist(q, x) = 1 => x > q.Last_delivered
    BY <1>2, <1>3 DEF Clear
  <1>8. Clear(q, P, i)
    BY <1>3, <1>5, <1>6, <1>7 DEF Clear
  <1>9. Drops(r, q, P, i)
    BY <1>2, <1>3, <1>4 DEF Drops
  <1> QED BY <1>8, <1>9

\* A packet is delivered, and then discarded.
LEMMA DropsTwice ==
  ASSUME NEW r, NEW q, NEW u, NEW P, NEW i, IsSeq(r.log),
         Differ(q, r, {"State", "Packets", "Up", "log"}), q.State \in {r.State, "EXIT"}, Continues(r.log, q.log, P),
         \A x : x # i => Exist(q, x) = Exist(r, x), Exist(u, i) = 0, Drops(q, u, P, i)
  PROVE  Drops(r, u, P, i)
  <1>1. Continues(r.log, u.log, P)
    BY ContinuesTwice DEF Drops
  <1>2. Differ(u, r, {"State", "Packets", "Up", "log"})
    BY DEF Drops, Differ
  <1> QED BY <1>1, <1>2 DEF Drops

\* A packet is delivered if it still has to be, and leaves.
LEMMA ClearDiscard ==
  ASSUME NEW r, NEW P, NEW i \in Int, PackOK(P), Clear(r, P, i - 1), r.Last_delivered \in Int
  PROVE  Clear(Discard(r, P, i), P, i) /\ Drops(r, Discard(r, P, i), P, i)
  <1>1. CASE Exist(r, i) # 1
    BY <1>1, ClearMore, ClearDrop DEF Discard
  <1>2. CASE Exist(r, i) = 1
    <2> PICK u : u = Deliver_packet(r, P, i)
      OBVIOUS
    <2>1. /\ DOMAIN r = Fields /\ Good(r.log, P) /\ i \in DOMAIN P /\ i > r.Last_delivered /\ Here(r, P)
          /\ Unheard(r, P, i - 1) /\ Clear(r, P, i)
      BY <1>2, ClearMore DEF Clear, Here
    <2>2. Carried(P[i]) \cap Told(r.log) = {}
      BY <1>2, <2>1 DEF Unheard
    <2>3. Upto(r.log, P, i - 1) /\ Larger(r.Last_delivered, i) = i
      BY <2>1 DEF Clear, Larger
    <2>4. Unheard(r, P, i) /\ Upto(r.log, P, i) /\ (Ordered(P[i].msg) => i <= i)
      BY <2>1, <2>3 DEF Clear
    <2>5. /\ Differ(u, r, {"State", "Packets", "Up", "log"})
          /\ u.State \in {r.State, "EXIT"}
          /\ Good(u.log, P)
          /\ Continues(r.log, u.log, P)
          /\ \A x : x # i => Exist(u, x) = Exist(r, x)
      BY <2>1, <2>2, <2>3, Deliver
    <2>6. Unheard(u, P, i) /\ Upto(u.log, P, i) /\ Here(u, P)
      <3>1. /\ Unheard(Deliver_packet(r, P, i), P, i)
            /\ Upto(Deliver_packet(r, P, i).log, P, i) /\ Here(Deliver_packet(r, P, i), P)
        BY ONLY PackOK(P), <2>1, <2>2, <2>3, <2>4, DeliverKeeps
      <3> QED BY <3>1
    <2>7. u.Last_delivered = r.Last_delivered /\ DOMAIN u = Fields
      BY <2>5 DEF Differ, Fields
    <2>8. \A x \in Int : x > i /\ Exist(u, x) = 1 => x > u.Last_delivered
      BY <2>1, <2>5, <2>7 DEF Clear
    <2>9. Clear(u, P, i)
      BY <2>3, <2>5, <2>6, <2>7, <2>8 DEF Clear
    <2>10. Clear(Drop(u, i), P, i) /\ Drops(u, Drop(u, i), P, i)
      BY <2>7, <2>9, ClearDrop
    <2>11. Exist(Drop(u, i), i) = 0
      BY <2>7, ExistDrop
    <2>12. Drops(r, Drop(u, i), P, i)
      BY <2>1, <2>5, <2>10, <2>11, DropsTwice DEF Good
    <2> QED BY <1>2, <2>10, <2>12 DEF Discard
  <1> QED BY <1>1, <1>2

\* Some packets up to i are gone since r.
Thinned(r, q, i) ==
  /\ q.Last_delivered = r.Last_delivered
  /\ \A s : Exist(q, s) \in {0, Exist(r, s)}
  /\ \A s \in Int : s > i => Exist(q, s) = Exist(r, s)
StableInv(r, q, P, i) == Clear(q, P, i) /\ Changes(r, q, P) /\ Thinned(r, q, i)

\* Discarding a packet is a change that deliveries make.
LEMMA DropsChanges ==
  ASSUME NEW r, NEW q, NEW P, NEW i, Drops(r, q, P, i)
  PROVE  Changes(r, q, P) /\ q.Last_delivered = r.Last_delivered /\ q.Last_discarded = r.Last_discarded
  BY DEF Drops, Changes, Differ, Fields, Handled

\* One turn of Discard_packets over the stable packets keeps what the loop maintains.
LEMMA StableTurn ==
  ASSUME NEW r, NEW x, NEW P, NEW i \in Int, PackOK(P), IsSeq(r.log), r.Last_delivered \in Int,
         StableInv(r, x, P, i - 1)
  PROVE  StableInv(r, StablePacket(P, x, i), P, i)
  <1> PICK q : q = StablePacket(P, x, i)
    OBVIOUS
  <1>1. Clear(x, P, i - 1) /\ Changes(r, x, P) /\ Thinned(r, x, i - 1) /\ x.Last_delivered \in Int
    BY DEF StableInv, Thinned
  <1>2. Clear(q, P, i) /\ Drops(x, q, P, i)
    <2>1. CASE Exist(x, i) = 0
      BY <1>1, <2>1, ClearMore, ClearExit DEF StablePacket
    <2>2. CASE Exist(x, i) # 0
      BY <1>1, <2>2, ClearDiscard DEF StablePacket
    <2> QED BY <2>1, <2>2
  <1>3. Changes(r, q, P) /\ q.Last_delivered = r.Last_delivered
    BY <1>1, <1>2, DropsChanges, ChangesTwice DEF Thinned
  <1>4. Thinned(r, q, i)
    BY <1>1, <1>2, <1>3 DEF Thinned, Drops
  <1> QED BY <1>2, <1>3, <1>4 DEF StableInv

\* Discard_packets over the stable packets, from Last_discarded to Aru.
LEMMA StableLoop ==
  ASSUME NEW r, NEW P, PackOK(P), Sane(r, P), r.State # "EXIT", r.Aru > r.Last_discarded
  PROVE  StableInv(r, StableFold(P, r, r.Last_discarded + 1, r.Aru), P, r.Aru)
  <1> PICK x, y : x = r.Last_discarded + 1 /\ y = r.Aru
    OBVIOUS
  <1> DEFINE n == Turns(x, y)
             f == StableFold(P, r, x, y)
  <1>1. /\ r.Last_delivered \in Int /\ r.Last_discarded \in Int /\ DOMAIN r = Fields /\ IsSeq(r.log)
        /\ x \in Int /\ y \in Int
    BY TypedFacts DEF Sane, Good
  <1>2. n \in Nat /\ r.Last_discarded + n = y
    BY <1>1 DEF Turns
  <1>3. PICK c : Chain(c, "stable", P, r, x, y) /\ Run("stable", P, r, x, y) = c[n]
    BY <1>1, Loop
  <1>4. /\ c[0] = r /\ f = c[n]
        /\ \A k \in 1 .. n : c[k] = StablePacket(P, c[k - 1], x + k - 1)
    BY <1>3, StableRun DEF Chain, Body
  <1> DEFINE S == {k \in Nat : k <= n => StableInv(r, c[k], P, r.Last_discarded + k)}
  <1> HIDE DEF n, f
  <1>5. 0 \in S
    <2>1. Clear(r, P, r.Last_discarded) /\ Changes(r, r, P) /\ Thinned(r, r, r.Last_discarded)
      BY <1>1, FitClear, ChangesSame DEF Thinned
    <2>2. r.Last_discarded + 0 = r.Last_discarded
      BY <1>1
    <2> QED BY <1>4, <2>1, <2>2 DEF StableInv
  <1>6. ASSUME NEW k \in Nat, k \in S PROVE k + 1 \in S
    <2> SUFFICES ASSUME k + 1 <= n PROVE StableInv(r, c[k + 1], P, r.Last_discarded + (k + 1))
      OBVIOUS
    <2>1. StableInv(r, c[k], P, r.Last_discarded + k)
      BY <1>2, <1>6
    <2> DEFINE i == r.Last_discarded + (k + 1)
    <2>2. i \in Int /\ i - 1 = r.Last_discarded + k /\ c[k + 1] = StablePacket(P, c[k], i)
      <3>1. (k + 1 \in 1 .. n) /\ (k + 1) - 1 = k /\ x + (k + 1) - 1 = i
        BY <1>1, <1>2
      <3> QED BY <1>1, <1>4, <3>1
    <2> HIDE DEF i
    <2>3. StableInv(r, c[k + 1], P, i)
      BY <1>1, <2>1, <2>2, StableTurn
    <2> QED BY <2>3 DEF i
  <1>7. n \in S
    <2> HIDE DEF S
    <2> QED BY <1>2, <1>5, <1>6, EveryNatural
  <1>8. StableInv(r, f, P, y)
    BY <1>2, <1>4, <1>7
  <1> QED BY <1>8 DEF f

\* Discard_packets outside of a recovery.
LEMMA StableDelivery ==
  ASSUME NEW r, NEW P, PackOK(P), Sane(r, P), r.State # "EXIT", r.Aru > r.Last_discarded
  PROVE  /\ Sane(DiscardStable(r, P), P) /\ Changes(r, DiscardStable(r, P), P)
         /\ \A s : Exist(DiscardStable(r, P), s) \in {0, Exist(r, s)}
  <1> PICK f : f = StableFold(P, r, r.Last_discarded + 1, r.Aru)
    OBVIOUS
  <1> PICK q : q = DiscardStable(r, P)
    OBVIOUS
  <1>1. StableInv(r, f, P, r.Aru)
    BY StableLoop
  <1>2. Clear(f, P, r.Aru) /\ Changes(r, f, P) /\ Thinned(r, f, r.Aru)
    BY <1>1 DEF StableInv
  <1>3. r.Aru \in Int /\ r.Last_delivered \in Int /\ r.Last_discarded \in Int /\ DOMAIN f = Fields
    BY <1>2, TypedFacts DEF Sane, Clear
  <1>4. q = [f EXCEPT !.Last_discarded = r.Aru, !.Last_delivered = Larger(@, r.Aru)]
    BY DEF DiscardStable, StableFold
  <1>5. /\ Differ(q, f, {"Last_discarded", "Last_delivered"})
        /\ q.Last_discarded = r.Aru /\ q.Last_delivered = Larger(f.Last_delivered, r.Aru)
        /\ \A s : Exist(q, s) = Exist(f, s)
    BY <1>3, <1>4 DEF Differ, Fields, Exist
  <1>6. /\ q.log = f.log /\ q.State = f.State /\ q.Highest_seq = f.Highest_seq
        /\ f.Last_delivered = r.Last_delivered /\ q.Last_delivered \in Int /\ q.Last_discarded \in Int
        /\ Differ(q, f, Handled) /\ DOMAIN q = Fields
    BY <1>2, <1>3, <1>5 DEF Differ, Fields, Handled, Thinned, Larger
  <1>7. Changes(r, q, P)
    <2>1. Changes(f, q, P)
      BY <1>2, <1>6, ContinuesSame DEF Changes, Clear, Good
    <2> QED BY <1>2, <2>1, ChangesTwice DEF Sane, Good
  <1>8. DaemonTyped(q)
    BY <1>6, <1>7, ChangesTyped DEF Sane
  <1>9. \A s : Exist(q, s) \in {0, Exist(r, s)}
    BY <1>2, <1>5 DEF Thinned
  <1>10. q.State # "EXIT" => Passed(q) /\ Known(q)
    <2> SUFFICES ASSUME q.State # "EXIT" PROVE Passed(q) /\ Known(q)
      OBVIOUS
    <2>1. /\ Passed(r) /\ Known(r) /\ q.State = r.State /\ q.Highest_seq = r.Highest_seq
      BY <1>2, <1>6 DEF Sane, Fit, Changes, Differ, Fields, Handled
    <2>2. Known(q)
      BY <1>9, <2>1 DEF Known
    <2>3. Passed(q)
      <3> SUFFICES ASSUME NEW s \in Int, q.Last_discarded < s, s <= q.Last_delivered PROVE Exist(q, s) = 2
        BY DEF Passed
      <3>1. s > r.Aru /\ s <= r.Last_delivered /\ r.Last_discarded < s
        BY <1>3, <1>5, <1>6 DEF Larger
      <3>2. Exist(r, s) = 2
        BY <2>1, <3>1 DEF Passed
      <3> QED BY <1>2, <1>5, <3>1, <3>2 DEF Thinned
    <2> QED BY <2>2, <2>3
  <1>11. Fit(q, P)
    <2>1. Unheard(q, P, q.Last_discarded) /\ Upto(q.log, P, q.Last_delivered) /\ Here(q, P)
      BY <1>2, <1>5, <1>6 DEF Clear, Unheard, Here
    <2>2. q.Last_discarded <= q.Last_delivered
      BY <1>3, <1>5, <1>6 DEF Larger
    <2> QED BY <1>10, <2>1, <2>2 DEF Fit
  <1>12. Sane(q, P)
    BY <1>2, <1>6, <1>8, <1>11 DEF Sane, Clear
  <1> QED BY <1>7, <1>9, <1>12

-----------------------------------------------------------------------------
(* Discard_packets in a recovery: the rest of the old ring, and the new one. *)

BeforeInv(r, a, P, i) ==
  /\ a = [r |-> a.r, stop |-> a.stop] /\ a.stop \in BOOLEAN
  /\ a.r.Last_discarded \in Int /\ a.r.Last_delivered = r.Last_delivered
  /\ Clear(a.r, P, a.r.Last_discarded) /\ Changes(r, a.r, P)
  /\ ~a.stop => a.r.Last_discarded = i

\* One turn before the transitional membership keeps what the loop maintains.
LEMMA BeforeTurn ==
  ASSUME NEW r, NEW a, NEW P, NEW i \in Int, PackOK(P), IsSeq(r.log), r.Last_delivered \in Int,
         BeforeInv(r, a, P, i - 1)
  PROVE  BeforeInv(r, PacketBefore(P, a, i), P, i)
  <1> DEFINE b == PacketBefore(P, a, i)
  <1> PICK x : x = a.r
    OBVIOUS
  <1>1. /\ a = [r |-> x, stop |-> a.stop] /\ a.stop \in BOOLEAN
        /\ x.Last_discarded \in Int /\ x.Last_delivered = r.Last_delivered
        /\ Clear(x, P, x.Last_discarded) /\ Changes(r, x, P) /\ DOMAIN x = Fields
        /\ ~a.stop => x.Last_discarded = i - 1
    BY DEF BeforeInv, Clear
  <1>2. CASE a.stop \/ (Exist(x, i) # 0 /\ (Exist(x, i) = 3 \/ TypeOf[P[i].msg] = Safe))
    <2>1. b.r = x /\ b.stop = TRUE /\ b = [r |-> b.r, stop |-> b.stop]
      BY <1>1, <1>2 DEF PacketBefore
    <2> HIDE DEF b
    <2>2. BeforeInv(r, b, P, i)
      BY <1>1, <2>1 DEF BeforeInv
    <2> QED BY <2>2 DEF b
  <1>3. CASE ~a.stop /\ Exist(x, i) = 0
    <2> PICK q : q = Exit(x)
      OBVIOUS
    <2>1. b.r = q /\ b.stop = TRUE /\ b = [r |-> b.r, stop |-> b.stop]
      BY <1>1, <1>3 DEF PacketBefore
    <2>2. Clear(q, P, x.Last_discarded) /\ Drops(x, q, P, i)
      BY <1>1, ClearExit
    <2>3. Changes(x, q, P) /\ q.Last_delivered = x.Last_delivered /\ q.Last_discarded = x.Last_discarded
      BY <2>2, DropsChanges
    <2>4. Changes(r, q, P)
      BY <1>1, <2>3, ChangesTwice
    <2> HIDE DEF b
    <2>5. BeforeInv(r, b, P, i)
      BY <1>1, <2>1, <2>2, <2>3, <2>4 DEF BeforeInv
    <2> QED BY <2>5 DEF b
  <1>4. CASE ~a.stop /\ Exist(x, i) # 0 /\ Exist(x, i) # 3 /\ TypeOf[P[i].msg] # Safe
    <2> PICK u : u = Discard(x, P, i)
      OBVIOUS
    <2> PICK q : q = [u EXCEPT !.Last_discarded = i]
      OBVIOUS
    <2>1. b.r = q /\ b.stop = a.stop /\ b = [r |-> b.r, stop |-> b.stop]
      BY <1>1, <1>4 DEF PacketBefore
    <2>2. Clear(x, P, i - 1) /\ x.Last_delivered \in Int
      BY <1>1, <1>4
    <2>3. Clear(u, P, i) /\ Drops(x, u, P, i)
      BY <2>2, ClearDiscard
    <2>4. Changes(x, u, P) /\ u.Last_delivered = x.Last_delivered /\ DOMAIN u = Fields
      BY <2>3, DropsChanges DEF Clear
    <2>5. /\ Differ(q, u, {"Last_discarded"}) /\ q.Last_discarded = i /\ q.Last_delivered = u.Last_delivered
          /\ q.log = u.log /\ q.State = u.State /\ DOMAIN q = Fields /\ Differ(q, u, Handled)
          /\ \A s : Exist(q, s) = Exist(u, s)
      BY <2>4 DEF Differ, Fields, Handled, Exist
    <2>6. Changes(u, q, P)
      BY <2>3, <2>5, ContinuesSame DEF Changes, Clear, Good
    <2>7. Changes(r, q, P)
      <3>1. Changes(r, u, P)
        BY <1>1, <2>4, ChangesTwice
      <3> QED BY <2>6, <3>1, ChangesTwice
    <2>8. Clear(q, P, i)
      BY <2>3, <2>5 DEF Clear, Unheard, Here
    <2> HIDE DEF b
    <2>9. BeforeInv(r, b, P, i)
      BY <1>1, <2>1, <2>4, <2>5, <2>7, <2>8 DEF BeforeInv
    <2> QED BY <2>9 DEF b
  <1> QED BY <1>1, <1>2, <1>3, <1>4

\* Discard_packets up to the transitional membership.
LEMMA BeforeLoop ==
  ASSUME NEW r, NEW P, PackOK(P), Sane(r, P), r.State # "EXIT"
  PROVE  LET q == DeliverBeforeTransitional(r, P)
         IN  /\ Clear(q, P, q.Last_discarded) /\ Changes(r, q, P)
             /\ q.Last_discarded \in Int /\ q.Last_delivered \in Int
  <1> DEFINE base == [r |-> r, stop |-> FALSE]
  <1> PICK x, y : x = r.Last_discarded + 1 /\ y = r.Highest_seq
    OBVIOUS
  <1> DEFINE n == Turns(x, y)
             f == BeforeFold(P, base, x, y)
  <1>1. /\ r.Last_delivered \in Int /\ r.Last_discarded \in Int /\ DOMAIN r = Fields /\ IsSeq(r.log)
        /\ x \in Int /\ y \in Int
    BY TypedFacts DEF Sane, Good
  <1>2. n \in Nat
    BY <1>1 DEF Turns
  <1>3. PICK c : Chain(c, "before", P, base, x, y) /\ Run("before", P, base, x, y) = c[n]
    BY <1>1, Loop
  <1>4. /\ c[0] = base /\ f = c[n]
        /\ \A k \in 1 .. n : c[k] = PacketBefore(P, c[k - 1], x + k - 1)
    BY <1>3, BeforeRun DEF Chain, Body
  <1> DEFINE S == {k \in Nat : k <= n => BeforeInv(r, c[k], P, r.Last_discarded + k)}
  <1> HIDE DEF n, f
  <1>5. 0 \in S
    <2>1. Clear(r, P, r.Last_discarded) /\ Changes(r, r, P)
      BY <1>1, FitClear, ChangesSame
    <2>2. base = [r |-> base.r, stop |-> base.stop] /\ base.stop \in BOOLEAN /\ base.r = r
      OBVIOUS
    <2>3. r.Last_discarded + 0 = r.Last_discarded
      BY <1>1
    <2> HIDE DEF base
    <2>4. BeforeInv(r, base, P, r.Last_discarded)
      BY <1>1, <2>1, <2>2 DEF BeforeInv
    <2> QED BY <1>4, <2>3, <2>4
  <1>6. ASSUME NEW k \in Nat, k \in S PROVE k + 1 \in S
    <2> SUFFICES ASSUME k + 1 <= n PROVE BeforeInv(r, c[k + 1], P, r.Last_discarded + (k + 1))
      OBVIOUS
    <2>1. BeforeInv(r, c[k], P, r.Last_discarded + k)
      BY <1>2, <1>6
    <2> DEFINE i == r.Last_discarded + (k + 1)
    <2>2. i \in Int /\ i - 1 = r.Last_discarded + k /\ c[k + 1] = PacketBefore(P, c[k], i)
      <3>1. (k + 1 \in 1 .. n) /\ (k + 1) - 1 = k /\ x + (k + 1) - 1 = i
        BY <1>1, <1>2
      <3> QED BY <1>1, <1>4, <3>1
    <2> HIDE DEF i
    <2>3. BeforeInv(r, c[k + 1], P, i)
      BY <1>1, <2>1, <2>2, BeforeTurn
    <2> QED BY <2>3 DEF i
  <1>7. n \in S
    <2> HIDE DEF S
    <2> QED BY <1>2, <1>5, <1>6, EveryNatural
  <1>8. BeforeInv(r, f, P, r.Last_discarded + n)
    BY <1>2, <1>4, <1>7
  <1>9. DeliverBeforeTransitional(r, P) = f.r
    BY DEF DeliverBeforeTransitional, BeforeFold, f
  <1> QED BY <1>1, <1>8, <1>9 DEF BeforeInv

AfterInv(r, a, P, i) ==
  /\ DOMAIN a = {"r", "hole"} /\ Clear(a.r, P, i) /\ Changes(r, a.r, P)
  /\ a.r.Last_delivered = r.Last_delivered /\ a.r.Last_discarded = r.Last_discarded

\* One turn after the transitional membership keeps what the loop maintains.
LEMMA AfterTurn ==
  ASSUME NEW r, NEW a, NEW P, NEW i \in Int, PackOK(P), IsSeq(r.log), r.Last_delivered \in Int,
         AfterInv(r, a, P, i - 1)
  PROVE  AfterInv(r, PacketAfter(P, a, i), P, i)
  <1> DEFINE b == PacketAfter(P, a, i)
  <1> PICK x : x = a.r
    OBVIOUS
  <1>1. /\ DOMAIN a = {"r", "hole"}
        /\ x.Last_delivered = r.Last_delivered /\ x.Last_delivered \in Int
        /\ x.Last_discarded = r.Last_discarded
        /\ Clear(x, P, i - 1) /\ Changes(r, x, P) /\ Clear(x, P, i)
    BY ClearMore DEF AfterInv
  <1>2. DOMAIN b = {"r", "hole"} /\ b.r \in {Exit(x), Drop(x, i), Discard(x, P, i)}
    BY <1>1 DEF PacketAfter
  <1> HIDE DEF b
  <1>3. Clear(b.r, P, i) /\ Drops(x, b.r, P, i)
    <2>1. Clear(Exit(x), P, i) /\ Drops(x, Exit(x), P, i)
      BY <1>1, ClearExit
    <2>2. Clear(Drop(x, i), P, i) /\ Drops(x, Drop(x, i), P, i)
      BY <1>1, ClearDrop
    <2>3. Clear(Discard(x, P, i), P, i) /\ Drops(x, Discard(x, P, i), P, i)
      BY <1>1, ClearDiscard
    <2> QED BY <1>2, <2>1, <2>2, <2>3
  <1>4. Changes(x, b.r, P) /\ b.r.Last_delivered = x.Last_delivered /\ b.r.Last_discarded = x.Last_discarded
    BY <1>3, DropsChanges
  <1>5. Changes(r, b.r, P)
    BY <1>1, <1>4, ChangesTwice
  <1>6. AfterInv(r, b, P, i)
    BY <1>1, <1>2, <1>3, <1>4, <1>5 DEF AfterInv
  <1> QED BY <1>6 DEF b

\* Discard_packets after the transitional membership, up to Highest_seq.
LEMMA AfterLoop ==
  ASSUME NEW r, NEW P, PackOK(P), Clear(r, P, r.Last_discarded), r.Highest_seq \in Int,
         r.Last_discarded \in Int, r.Last_delivered \in Int
  PROVE  LET q == DeliverAfterTransitional(r, P)
         IN  /\ Good(q.log, P) /\ Changes(r, q, P)
             /\ q.Last_discarded \in Int /\ q.Last_delivered \in Int
  <1> DEFINE base == [r |-> r, hole |-> FALSE]
  <1> PICK x, y : x = r.Last_discarded + 1 /\ y = r.Highest_seq
    OBVIOUS
  <1> DEFINE n == Turns(x, y)
             f == AfterFold(P, base, x, y)
  <1>1. DOMAIN r = Fields /\ IsSeq(r.log) /\ x \in Int /\ y \in Int
    BY DEF Clear, Good
  <1>2. n \in Nat
    BY <1>1 DEF Turns
  <1>3. PICK c : Chain(c, "after", P, base, x, y) /\ Run("after", P, base, x, y) = c[n]
    BY <1>1, Loop
  <1>4. /\ c[0] = base /\ f = c[n]
        /\ \A k \in 1 .. n : c[k] = PacketAfter(P, c[k - 1], x + k - 1)
    BY <1>3, AfterRun DEF Chain, Body
  <1> DEFINE S == {k \in Nat : k <= n => AfterInv(r, c[k], P, r.Last_discarded + k)}
  <1> HIDE DEF n, f
  <1>5. 0 \in S
    <2>1. Changes(r, r, P)
      BY <1>1, ChangesSame
    <2>2. DOMAIN base = {"r", "hole"} /\ base.r = r
      OBVIOUS
    <2>3. r.Last_discarded + 0 = r.Last_discarded
      OBVIOUS
    <2> HIDE DEF base
    <2>4. AfterInv(r, base, P, r.Last_discarded)
      BY <2>1, <2>2 DEF AfterInv
    <2> QED BY <1>4, <2>3, <2>4
  <1>6. ASSUME NEW k \in Nat, k \in S PROVE k + 1 \in S
    <2> SUFFICES ASSUME k + 1 <= n PROVE AfterInv(r, c[k + 1], P, r.Last_discarded + (k + 1))
      OBVIOUS
    <2>1. AfterInv(r, c[k], P, r.Last_discarded + k)
      BY <1>2, <1>6
    <2> DEFINE i == r.Last_discarded + (k + 1)
    <2>2. i \in Int /\ i - 1 = r.Last_discarded + k /\ c[k + 1] = PacketAfter(P, c[k], i)
      <3>1. (k + 1 \in 1 .. n) /\ (k + 1) - 1 = k /\ x + (k + 1) - 1 = i
        BY <1>1, <1>2
      <3> QED BY <1>1, <1>4, <3>1
    <2> HIDE DEF i
    <2>3. AfterInv(r, c[k + 1], P, i)
      BY <1>1, <2>1, <2>2, AfterTurn
    <2> QED BY <2>3 DEF i
  <1>7. n \in S
    <2> HIDE DEF S
    <2> QED BY <1>2, <1>5, <1>6, EveryNatural
  <1>8. AfterInv(r, f, P, r.Last_discarded + n)
    BY <1>2, <1>4, <1>7
  <1>9. DeliverAfterTransitional(r, P) = f.r
    BY DEF DeliverAfterTransitional, AfterFold, f
  <1> QED BY <1>1, <1>8, <1>9 DEF AfterInv, Clear

\* An event that is no message.
LEMMA GoodEvent ==
  ASSUME NEW log, NEW P, NEW e, Good(log, P), e = <<e[1], e[2]>>, e[1] # "msg"
  PROVE  Good(log \o <<e>>, P) /\ Told(log \o <<e>>) = Told(log)
  <1> DEFINE new == log \o <<e>>
             z == Len(log) + 1
  <1>1. IsSeq(log) /\ NoRepeat(log) /\ Pairs(log) /\ InOrder(log, P)
    BY DEF Good
  <1>2. /\ IsSeq(new) /\ DOMAIN new = DOMAIN log \cup {z} /\ z \notin DOMAIN log
        /\ new[z] = e /\ \A x \in DOMAIN log : new[x] = log[x]
    BY <1>1, AppendFacts
  <1> HIDE DEF new, z
  <1>3. Told(new) = Told(log)
    BY <1>2 DEF Told
  <1>4. NoRepeat(new) /\ Pairs(new)
    BY <1>1, <1>2 DEF NoRepeat, Pairs
  <1>5. InOrder(new, P)
    BY <1>1, <1>2 DEF InOrder
  <1>6. Good(new, P)
    BY <1>2, <1>4, <1>5 DEF Good
  <1> QED BY <1>3, <1>6 DEF new

\* The daemon r installs the membership it recovered for, and is q then.
Installs(r, q, P) ==
  /\ r.State = "EVS" /\ DaemonTyped(q) /\ q.State \in {"OP", "EXIT"} /\ q.mid = r.future
  /\ q.me = r.me /\ q.Down = r.Down /\ q.todo = r.todo
  /\ \A s : Exist(q, s) = 0
  /\ q.Last_discarded = 0 /\ q.Last_delivered = 0 /\ q.My_aru = 0 /\ q.threshold = Agreed
  /\ \E log : Continues(r.log, log, P) /\ Good(log, P) /\ q.log = Append(log, <<"reg", r.future>>)

\* A daemon that has delivered everything installs the next membership, or exits.
LEMMA InstallStep ==
  ASSUME NEW r, NEW u, NEW P, DaemonTyped(r), r.State = "EVS", DaemonTyped(u), Changes(r, u, P),
         Good(u.log, P)
  PROVE  \/ Install(u) = Exit(u)
         \/ Installs(r, Install(u), P)
  <1> SUFFICES ASSUME DOMAIN u.Packets = {} PROVE Installs(r, Install(u), P)
    BY DEF Install
  <1> PICK q : q = Install(u)
    OBVIOUS
  <1>1. DOMAIN u = Fields
    BY DEF DaemonTyped
  <1>2. /\ Differ(q, u, {"State", "mid", "cur", "Up", "Commit_set", "Just_Installed", "threshold",
                         "Highest_seq", "My_aru", "Aru", "Last_discarded", "Last_delivered", "log"})
        /\ q.State = "OP" /\ q.mid = u.future /\ q.cur = 0 /\ q.threshold = Agreed
        /\ q.Highest_seq = 0 /\ q.My_aru = 0 /\ q.Aru = 0 /\ q.Last_discarded = 0 /\ q.Last_delivered = 0
        /\ q.log = Append(u.log, <<"reg", u.future>>)
    BY <1>1 DEF Install, Differ, Fields
  <1>3. /\ DOMAIN q = Fields /\ q.me = u.me /\ q.future = u.future /\ q.attempt = u.attempt
        /\ q.Packets = u.Packets /\ q.Last_seq = u.Last_seq /\ q.Last_token = u.Last_token
        /\ q.Last_num = u.Last_num /\ q.todo = u.todo /\ q.Down = u.Down
    BY <1>2 DEF Differ, Fields
  <1>4. /\ u.me = r.me /\ u.future = r.future /\ u.todo = r.todo /\ u.Down = r.Down
    BY DEF Changes, Differ, Fields, Handled
  <1>5. \A f \in Counters : q[f] \in Int
    <2>1. u.Last_seq \in Int /\ u.Last_num \in Int
      BY TypedFacts
    <2> QED BY <1>2, <1>3, <2>1 DEF Counters
  <1>6. DaemonTyped(q)
    BY <1>2, <1>3, <1>5 DEF DaemonTyped
  <1>7. \A s : Exist(q, s) = 0
    BY <1>3 DEF Exist
  <1> QED BY <1>2, <1>3, <1>4, <1>6, <1>7 DEF Installs, Changes

\* Discard_packets
LEMMA Discarding ==
  ASSUME NEW r, NEW P, PackOK(P), Sane(r, P), r.State # "DOWN"
  PROVE  \/ /\ Sane(Discard_packets(r, P), P) /\ Changes(r, Discard_packets(r, P), P)
            /\ r.State = "FORM" => \A s : Exist(Discard_packets(r, P), s) \in {0, Exist(r, s)}
         \/ Installs(r, Discard_packets(r, P), P)
  <1>1. Changes(r, r, P)
    BY ChangesSame DEF Sane, Good, DaemonTyped
  <1>2. CASE \/ r.Aru <= r.Last_discarded \/ r.State = "EXIT"
             \/ r.State = "EVS" /\ r.Aru # r.Last_seq
    <2>1. Discard_packets(r, P) = r
      BY <1>2 DEF Discard_packets
    <2> QED BY <1>1, <2>1
  <1>3. CASE ~(r.Aru <= r.Last_discarded) /\ r.State # "EXIT" /\ r.State # "EVS"
    <2>1. r.Aru > r.Last_discarded
      BY <1>3, TypedFacts DEF Sane
    <2> QED BY <1>3, <2>1, StableDelivery DEF Discard_packets
  <1>4. CASE ~(r.Aru <= r.Last_discarded) /\ r.State = "EVS" /\ r.Aru = r.Last_seq
    <2> PICK before : before = DeliverBeforeTransitional(r, P)
      OBVIOUS
    <2> PICK e : e = <<"trans", r.Commit_set.trans>>
      OBVIOUS
    <2> PICK trans : trans = [before EXCEPT !.log = Append(@, e)]
      OBVIOUS
    <2> PICK after : after = DeliverAfterTransitional(trans, P)
      OBVIOUS
    <2>1. Discard_packets(r, P) = IF after.State = "EXIT" THEN after ELSE Install(after)
      BY <1>4 DEF Discard_packets
    <2>2. /\ Clear(before, P, before.Last_discarded) /\ Changes(r, before, P)
          /\ before.Last_discarded \in Int /\ before.Last_delivered \in Int
      BY <1>4, BeforeLoop
    <2>3. DOMAIN before = Fields /\ Good(before.log, P) /\ IsSeq(before.log) /\ e = <<e[1], e[2]>> /\ e[1] = "trans"
      BY <2>2 DEF Clear, Good
    <2>4. /\ Good(before.log \o <<e>>, P) /\ Told(before.log \o <<e>>) = Told(before.log)
          /\ Append(before.log, e) = before.log \o <<e>>
          /\ Continues(before.log, before.log \o <<e>>, P)
      <3>1. e[1] # "msg" /\ ((e = <<"msg", e[2]>> /\ e[2] \in Contents(P)) \/ e = <<"trans", e[2]>>)
        BY ONLY <2>3
      <3>2. Good(before.log \o <<e>>, P) /\ Told(before.log \o <<e>>) = Told(before.log)
        BY ONLY <2>3, <3>1, GoodEvent
      <3>3. Append(before.log, e) = before.log \o <<e>>
        BY ONLY <2>3, AppendFacts
      <3>4. Continues(before.log, before.log \o <<e>>, P)
        BY ONLY <2>3, <3>1, ContinuesAppend
      <3> QED BY ONLY <3>2, <3>3, <3>4
    <2>5. /\ Differ(trans, before, {"log"}) /\ trans.log = before.log \o <<e>>
          /\ \A s : Exist(trans, s) = Exist(before, s)
      BY <2>3, <2>4 DEF Differ, Fields, Exist
    <2>6. /\ DOMAIN trans = Fields /\ trans.Last_discarded = before.Last_discarded
          /\ trans.Last_delivered = before.Last_delivered /\ trans.State = before.State
          /\ trans.Highest_seq = before.Highest_seq /\ Differ(trans, before, Handled)
      BY <2>5 DEF Differ, Fields, Handled
    <2>7. before.Highest_seq \in Int
      <3>1. r.Highest_seq \in Int
        BY TypedFacts DEF Sane
      <3> QED BY <2>2, <3>1 DEF Changes, Differ, Fields, Handled
    <2>8. Clear(trans, P, trans.Last_discarded)
      <3>1. Unheard(trans, P, trans.Last_discarded)
        BY <2>2, <2>4, <2>5, <2>6 DEF Clear, Unheard
      <3>2. Upto(trans.log, P, Larger(trans.Last_delivered, trans.Last_discarded))
        BY <2>2, <2>4, <2>5, <2>6 DEF Clear, Upto
      <3>3. Here(trans, P)
        <4>1. Here(before, P)
          BY <2>2 DEF Clear
        <4>2. \A x : Exist(trans, x) = Exist(before, x)
          BY <2>5
        <4> QED BY ONLY <4>1, <4>2 DEF Here
      <3>4. \A x \in Int : x > trans.Last_discarded /\ Exist(trans, x) = 1 => x > trans.Last_delivered
        <4>1. \A x \in Int : x > before.Last_discarded /\ Exist(before, x) = 1 => x > before.Last_delivered
          BY <2>2 DEF Clear
        <4>2. \A x : Exist(trans, x) = Exist(before, x)
          BY <2>5
        <4> QED BY ONLY <2>6, <4>1, <4>2
      <3> QED BY <2>4, <2>5, <2>6, <3>1, <3>2, <3>3, <3>4 DEF Clear
    <2>9. Changes(r, trans, P)
      <3>1. Changes(before, trans, P)
        BY <2>4, <2>5, <2>6 DEF Changes
      <3> QED BY <2>2, <3>1, ChangesTwice DEF Sane, Good
    <2>10. /\ Good(after.log, P) /\ Changes(trans, after, P)
           /\ after.Last_discarded \in Int /\ after.Last_delivered \in Int
      <3>1. trans.Highest_seq \in Int /\ trans.Last_discarded \in Int /\ trans.Last_delivered \in Int
        BY <2>2, <2>6, <2>7
      <3> QED BY <2>8, <3>1, AfterLoop
    <2>11. Changes(r, after, P)
      BY <2>9, <2>10, ChangesTwice DEF Sane, Good
    <2>12. DaemonTyped(after)
      BY <2>10, <2>11, ChangesTyped DEF Sane
    <2>13. CASE after.State = "EXIT"
      <3>1. Sane(after, P)
        BY <2>10, <2>12, <2>13 DEF Sane
      <3> QED BY <1>4, <2>1, <2>11, <2>13, <3>1
    <2>14. CASE after.State # "EXIT"
      <3>1. Install(after) = Exit(after) \/ Installs(r, Install(after), P)
        BY <1>4, <2>10, <2>11, <2>12, InstallStep DEF Sane
      <3>2. CASE Install(after) = Exit(after)
        <4> PICK q : q = Exit(after)
          OBVIOUS
        <4>1. /\ Differ(q, after, {"State"}) /\ q.State = "EXIT"
          BY <2>12, ExitFacts DEF DaemonTyped
        <4>2. /\ Differ(q, after, Handled) /\ q.log = after.log
              /\ q.Last_discarded = after.Last_discarded /\ q.Last_delivered = after.Last_delivered
          BY <4>1 DEF Differ, Fields, Handled
        <4>3. Changes(after, q, P)
          BY <2>10, <4>1, <4>2, ContinuesSame DEF Changes, Good
        <4>4. Changes(r, q, P)
          BY <2>11, <4>3, ChangesTwice DEF Sane, Good
        <4>5. DaemonTyped(q)
          BY <2>10, <4>2, <4>4, ChangesTyped DEF Sane
        <4>6. Sane(q, P)
          BY <2>10, <4>1, <4>2, <4>5 DEF Sane
        <4> QED BY <1>4, <2>1, <2>14, <3>2, <4>4, <4>6
      <3> QED BY <2>1, <2>14, <3>1, <3>2
    <2> QED BY <2>13, <2>14
  <1> QED BY <1>2, <1>3, <1>4

-----------------------------------------------------------------------------
(* New packets *)

\* The messages a daemon has still to send, each once.
Elements(q) == {q[x] : x \in DOMAIN q}
NoDup(q) == \A x, y \in DOMAIN q : q[x] = q[y] => x = y
Queue(r) == r.Down \o r.todo
Pending(r) == Elements(Queue(r))

\* Q is P with more packets, that carry messages of Y.
Grown(P, Q, Y) ==
  /\ DOMAIN P \subseteq DOMAIN Q /\ \A s \in DOMAIN P : Q[s] = P[s]
  /\ \A s \in DOMAIN Q \ DOMAIN P : Carried(Q[s]) \subseteq Y

\* The first message of a queue without duplicates leaves it.
LEMMA TailFacts ==
  ASSUME NEW S, NEW q \in Seq(S), q # <<>>
  PROVE  /\ Head(q) = q[1] /\ Head(q) \in S /\ Head(q) \in Elements(q) /\ Tail(q) \in Seq(S)
         /\ NoDup(q) => NoDup(Tail(q)) /\ Elements(Tail(q)) = Elements(q) \ {Head(q)}
  <1> DEFINE t == Tail(q)
  <1>1. /\ Len(q) \in Nat /\ Len(q) >= 1 /\ DOMAIN q = 1 .. Len(q) /\ \A x \in 1 .. Len(q) : q[x] \in S
        /\ t \in Seq(S) /\ Len(t) = Len(q) - 1 /\ DOMAIN t = 1 .. Len(q) - 1
        /\ \A x \in 1 .. Len(q) - 1 : t[x] = q[x + 1]
        /\ Head(q) = q[1]
    OBVIOUS
  <1> HIDE DEF t
  <1>2. 1 \in DOMAIN q /\ q[1] \in S /\ q[1] \in Elements(q)
    BY <1>1 DEF Elements
  <1>3. ASSUME NoDup(q) PROVE NoDup(t) /\ Elements(t) = Elements(q) \ {q[1]}
    <2>1. NoDup(t)
      <3> SUFFICES ASSUME NEW x \in DOMAIN t, NEW y \in DOMAIN t, t[x] = t[y] PROVE x = y
        BY DEF NoDup
      <3>1. (x + 1 \in DOMAIN q) /\ (y + 1 \in DOMAIN q) /\ (q[x + 1] = q[y + 1]) /\ (x \in Int) /\ (y \in Int)
        BY <1>1
      <3>2. x + 1 = y + 1
        BY <1>3, <3>1 DEF NoDup
      <3> QED BY <3>1, <3>2
    <2>2. \A x \in DOMAIN t : (x + 1 \in DOMAIN q) /\ (x + 1 # 1) /\ (t[x] = q[x + 1])
      BY <1>1
    <2>3. \A x \in DOMAIN t : t[x] \in Elements(q) /\ t[x] # q[1]
      BY <1>2, <1>3, <2>2 DEF NoDup, Elements
    <2>4. \A x \in DOMAIN q : x # 1 => (x - 1 \in DOMAIN t) /\ (t[x - 1] = q[x])
      BY <1>1
    <2>5. \A x \in DOMAIN q : q[x] # q[1] => q[x] \in Elements(t)
      BY <2>4 DEF Elements
    <2>6. Elements(t) = Elements(q) \ {q[1]}
      BY <2>3, <2>5 DEF Elements
    <2> QED BY <2>1, <2>6
  <1> QED BY <1>1, <1>2, <1>3 DEF t

\* The first message of a queue of two parts leaves the first part.
LEMMA QueueTail ==
  ASSUME NEW S, NEW q \in Seq(S), NEW t \in Seq(S), q # <<>>
  PROVE  /\ q \o t \in Seq(S) /\ q \o t # <<>> /\ Head(q \o t) = Head(q) /\ Tail(q \o t) = Tail(q) \o t
  <1>1. /\ q \o t \in Seq(S) /\ Len(q \o t) = Len(q) + Len(t) /\ Len(q) \in Nat /\ Len(q) >= 1 /\ Len(t) \in Nat
        /\ \A x \in 1 .. Len(q) + Len(t) : (q \o t)[x] = IF x <= Len(q) THEN q[x] ELSE t[x - Len(q)]
    OBVIOUS
  <1> DEFINE u == q \o t
  <1>2. u # <<>> /\ Head(u) = Head(q)
    BY <1>1
  <1>3. /\ Tail(u) \in Seq(S) /\ Len(Tail(u)) = Len(u) - 1
        /\ \A x \in 1 .. Len(u) - 1 : Tail(u)[x] = u[x + 1]
    BY <1>1, <1>2
  <1>4. /\ Tail(q) \in Seq(S) /\ Len(Tail(q)) = Len(q) - 1
        /\ \A x \in 1 .. Len(q) - 1 : Tail(q)[x] = q[x + 1]
    BY <1>1
  <1>5. /\ Tail(q) \o t \in Seq(S) /\ Len(Tail(q) \o t) = Len(q) - 1 + Len(t)
        /\ \A x \in 1 .. Len(q) - 1 + Len(t) :
             (Tail(q) \o t)[x] = IF x <= Len(q) - 1 THEN Tail(q)[x] ELSE t[x - (Len(q) - 1)]
    BY <1>4
  <1> DEFINE a == Tail(u)
             b == Tail(q) \o t
  <1>6. a \in Seq(S) /\ b \in Seq(S) /\ Len(a) = Len(b) /\ Len(a) = Len(q) + Len(t) - 1
    BY <1>1, <1>3, <1>5
  <1>7. ASSUME NEW x \in 1 .. Len(q) + Len(t) - 1 PROVE a[x] = b[x]
    <2>1. a[x] = u[x + 1]
      BY <1>1, <1>3
    <2>2. u[x + 1] = IF x + 1 <= Len(q) THEN q[x + 1] ELSE t[(x + 1) - Len(q)]
      BY <1>1
    <2>3. b[x] = IF x <= Len(q) - 1 THEN Tail(q)[x] ELSE t[x - (Len(q) - 1)]
      BY <1>1, <1>5
    <2>4. CASE x <= Len(q) - 1
      BY <1>1, <1>4, <2>1, <2>2, <2>3, <2>4
    <2>5. CASE ~(x <= Len(q) - 1)
      <3>1. x - (Len(q) - 1) = (x + 1) - Len(q)
        BY <1>1
      <3>2. ~(x + 1 <= Len(q))
        BY <1>1, <2>5
      <3> QED BY <2>1, <2>2, <2>3, <2>5, <3>1, <3>2
    <2> QED BY <2>4, <2>5
  <1> HIDE DEF a, b
  <1>8. a = b
    <2>1. \A x \in 1 .. Len(a) : a[x] = b[x]
      BY <1>6, <1>7
    <2> QED BY <1>6, <2>1, SeqEqual
  <1> QED BY <1>1, <1>2, <1>8 DEF a, b

\* The session hands messages down: the queue as a whole is the same.
LEMMA QueueSame ==
  ASSUME NEW S, NEW q \in Seq(S), NEW t \in Seq(S), NEW k \in 0 .. Len(t)
  PROVE  /\ q \o SubSeq(t, 1, k) \in Seq(S) /\ SubSeq(t, k + 1, Len(t)) \in Seq(S)
         /\ (q \o SubSeq(t, 1, k)) \o SubSeq(t, k + 1, Len(t)) = q \o t
  <1> PICK u : u = SubSeq(t, 1, k)
    OBVIOUS
  <1> PICK v : v = SubSeq(t, k + 1, Len(t))
    OBVIOUS
  <1>1. Len(q) \in Nat /\ Len(t) \in Nat /\ k \in Nat /\ k <= Len(t)
    OBVIOUS
  <1>2. u \in Seq(S) /\ Len(u) = k /\ \A x \in 1 .. k : u[x] = t[x]
    BY <1>1
  <1>3. v \in Seq(S) /\ Len(v) = Len(t) - k /\ \A x \in 1 .. Len(t) - k : v[x] = t[x + k]
    <2>1. \A x \in k + 1 .. Len(t) : t[x] \in S
      BY <1>1
    <2>2. Len(v) = Len(t) - k /\ \A x \in 1 .. Len(t) - k : v[x] = t[(k + 1) + x - 1]
      BY <1>1
    <2>3. \A x \in 1 .. Len(t) - k : (k + 1) + x - 1 = x + k
      BY <1>1
    <2>4. v \in Seq(S)
      BY <1>1, <2>1
    <2> QED BY <2>2, <2>3, <2>4
  <1> PICK w : w = q \o u
    OBVIOUS
  <1>4. w \in Seq(S) /\ Len(w) = Len(q) + k /\ \A x \in 1 .. Len(q) + k : w[x] = IF x <= Len(q) THEN q[x] ELSE u[x - Len(q)]
    BY <1>2
  <1> PICK a : a = w \o v
    OBVIOUS
  <1>5. /\ a \in Seq(S) /\ Len(a) = Len(q) + Len(t)
        /\ \A x \in 1 .. Len(q) + Len(t) : a[x] = IF x <= Len(q) + k THEN w[x] ELSE v[x - (Len(q) + k)]
    <2>1. /\ a \in Seq(S) /\ Len(a) = Len(w) + Len(v)
          /\ \A x \in 1 .. Len(w) + Len(v) : a[x] = IF x <= Len(w) THEN w[x] ELSE v[x - Len(w)]
      <3>1. w \in Seq(S) /\ v \in Seq(S)
        BY <1>3, <1>4
      <3> QED BY ONLY <3>1, a = w \o v, ConcatProperties
    <2>2. Len(w) = Len(q) + k /\ Len(w) + Len(v) = Len(q) + Len(t)
      BY ONLY <1>1, <1>3, <1>4
    <2> QED BY ONLY <2>1, <2>2
  <1> PICK b : b = q \o t
    OBVIOUS
  <1>6. /\ b \in Seq(S) /\ Len(b) = Len(q) + Len(t)
        /\ \A x \in 1 .. Len(q) + Len(t) : b[x] = IF x <= Len(q) THEN q[x] ELSE t[x - Len(q)]
    OBVIOUS
  <1>7. ASSUME NEW x \in 1 .. Len(q) + Len(t) PROVE a[x] = b[x]
    <2>1. CASE x <= Len(q)
      BY ONLY <1>1, <1>4, <1>5, <1>6, <1>7, <2>1
    <2>2. CASE x > Len(q) /\ x <= Len(q) + k
      <3>1. x - Len(q) \in 1 .. k /\ ~(x <= Len(q)) /\ x \in 1 .. Len(q) + k
        BY ONLY <1>1, <1>7, <2>2
      <3> QED BY ONLY <1>2, <1>4, <1>5, <1>6, <1>7, <2>2, <3>1
    <2>3. CASE x > Len(q) + k
      <3>1. x - (Len(q) + k) \in 1 .. Len(t) - k /\ ~(x <= Len(q)) /\ ~(x <= Len(q) + k)
            /\ x - (Len(q) + k) + k = x - Len(q)
        BY ONLY <1>1, <1>7, <2>3
      <3> QED BY ONLY <1>3, <1>5, <1>6, <1>7, <3>1
    <2> QED BY ONLY <1>1, <1>7, <2>1, <2>2, <2>3
  <1>8. a = b
    BY ONLY <1>1, <1>5, <1>6, <1>7
  <1> QED BY <1>3, <1>4, <1>8

\* What a message handed down leaves as it is.
Sends == {"State", "Packets", "Highest_seq", "Down", "cur"}
SendInv(r, P, x, Q) ==
  /\ Sane(x, Q) /\ PackOK(Q) /\ Differ(x, r, Sends) /\ x.State \in {r.State, "EXIT"}
  /\ Pending(x) \subseteq Pending(r) /\ NoDup(Queue(x)) /\ Pending(x) \cap Contents(Q) = {}
  /\ Grown(P, Q, Pending(r) \ Pending(x))

\* A packet k, of messages nobody has told, behind the others.
LEMMA PackAppend ==
  ASSUME NEW P, NEW k \in PacketSet, PackOK(P), PacketOK(k), Carried(k) \cap Contents(P) = {}
  PROVE  /\ PackOK(Append(P, k)) /\ Append(P, k)[Len(P) + 1] = k
         /\ DOMAIN Append(P, k) = DOMAIN P \cup {Len(P) + 1} /\ Len(P) + 1 \notin DOMAIN P
         /\ \A s \in DOMAIN P : Append(P, k)[s] = P[s]
         /\ Contents(Append(P, k)) = Contents(P) \cup Carried(k)
         /\ Grown(P, Append(P, k), Carried(k))
  <1> PICK Q : Q = Append(P, k)
    OBVIOUS
  <1>1. P \in Seq(PacketSet)
    BY DEF PackOK
  <1>2. /\ Q \in Seq(PacketSet) /\ Q[Len(P) + 1] = k
        /\ DOMAIN Q = DOMAIN P \cup {Len(P) + 1} /\ Len(P) + 1 \notin DOMAIN P
        /\ \A s \in DOMAIN P : Q[s] = P[s]
    BY <1>1
  <1>3. \A s \in DOMAIN P : Carried(P[s]) \cap Carried(k) = {}
    BY DEF Contents
  <1>4. \A s, t \in DOMAIN Q : \A m \in Carried(Q[s]) : m \in Carried(Q[t]) => s = t
    BY <1>2, <1>3 DEF PackOK
  <1>5. \A s \in DOMAIN Q : PacketOK(Q[s])
    BY <1>2 DEF PackOK
  <1>6. Contents(Q) = Contents(P) \cup Carried(k)
    BY <1>2 DEF Contents
  <1>7. Grown(P, Q, Carried(k))
    BY <1>2 DEF Grown
  <1> QED BY <1>2, <1>4, <1>5, <1>6, <1>7 DEF PackOK

\* Packets that grow twice have grown.
LEMMA GrownTwice ==
  ASSUME NEW P, NEW Q, NEW R, NEW Y, NEW Z, Grown(P, Q, Y), Grown(Q, R, Z)
  PROVE  Grown(P, R, Y \cup Z)
  BY DEF Grown

\* A larger set of messages allows the same growth.
LEMMA GrownMore ==
  ASSUME NEW P, NEW Q, NEW Y, NEW Z, Grown(P, Q, Y), Y \subseteq Z
  PROVE  Grown(P, Q, Z)
  BY DEF Grown

\* More packets, of messages the log does not tell.
LEMMA GoodGrown ==
  ASSUME NEW log, NEW P, NEW Q, NEW Y, Good(log, P), Grown(P, Q, Y), Y \cap Told(log) = {}
  PROVE  Good(log, Q)
  <1>1. \A x \in DOMAIN log, s \in DOMAIN Q :
          log[x][1] = "msg" /\ log[x][2] \in Carried(Q[s]) => s \in DOMAIN P /\ Q[s] = P[s]
    BY DEF Grown, Told
  <1>2. InOrder(log, Q)
    BY <1>1 DEF Good, InOrder
  <1> QED BY <1>2 DEF Good

\* New packets with messages that a daemon has not told still fit what it has.
LEMMA FitGrown ==
  ASSUME NEW r, NEW P, NEW Q, NEW Y, Fit(r, P), Grown(P, Q, Y), Y \cap Told(r.log) = {}
  PROVE  Fit(r, Q)
  <1>1. \A s \in DOMAIN Q : (s \in DOMAIN P /\ Q[s] = P[s]) \/ Carried(Q[s]) \cap Told(r.log) = {}
    BY DEF Grown
  <1>2. Unheard(r, Q, r.Last_discarded) /\ Upto(r.log, Q, r.Last_delivered)
    BY <1>1 DEF Fit, Unheard, Upto
  <1>3. Here(r, Q)
    BY DEF Fit, Here, Grown
  <1> QED BY <1>2, <1>3 DEF Fit

\* The packet that a daemon makes of its down queue.
NewOne(r, fits) ==
  LET m == r.Down[1]
      done == r.cur + 1 = NumElements[m]
      rest == IF done THEN Tail(r.Down) ELSE r.Down
      joins == /\ fits /\ done /\ rest # <<>>
               /\ NumElements[Head(rest)] = 1 /\ TypeOf[Head(rest)] = TypeOf[m]
  IN  [k |-> [from |-> r.me, msg |-> m, index |-> IF done THEN -NumElements[m] ELSE r.cur + 1,
              also |-> IF joins THEN <<<<"msg", Head(rest)>>>> ELSE <<>>],
       Down |-> IF joins THEN Tail(rest) ELSE rest,
       cur |-> IF done THEN 0 ELSE r.cur + 1]

\* The message that goes out leaves the messages of the daemon to send.
LEMMA QueueNext ==
  ASSUME NEW S, NEW q \in Seq(S), NEW t \in Seq(S), q # <<>>, NoDup(q \o t)
  PROVE  /\ Head(q) \in Elements(q \o t) /\ NoDup(Tail(q) \o t)
         /\ Elements(Tail(q) \o t) = Elements(q \o t) \ {Head(q)}
  <1> PICK u : u = q \o t
    OBVIOUS
  <1>1. u \in Seq(S) /\ u # <<>> /\ Head(u) = Head(q) /\ Tail(u) = Tail(q) \o t
    <2>1. q \o t \in Seq(S) /\ q \o t # <<>> /\ Head(q \o t) = Head(q) /\ Tail(q \o t) = Tail(q) \o t
      BY ONLY q \in Seq(S), t \in Seq(S), q # <<>>, QueueTail
    <2> QED BY <2>1
  <1>2. NoDup(u)
    OBVIOUS
  <1>3. Head(u) \in Elements(u) /\ NoDup(Tail(u)) /\ Elements(Tail(u)) = Elements(u) \ {Head(u)}
    BY ONLY <1>1, <1>2, TailFacts
  <1> QED BY <1>1, <1>3

\* The packet that Send_new_packets builds carries messages of the queue only.
LEMMA NewOneFacts ==
  ASSUME NEW r, NEW fits, DaemonTyped(r), r.Down # <<>>, NoDup(Queue(r))
  PROVE  LET n == NewOne(r, fits)
         IN  /\ n.k \in PacketSet /\ PacketOK(n.k) /\ n.Down \in Seq(Messages) /\ n.cur \in Nat
             /\ NoDup(n.Down \o r.todo)
             /\ Carried(n.k) \subseteq Pending(r) /\ Elements(n.Down \o r.todo) = Pending(r) \ Carried(n.k)
  <1> PICK D, T : D = r.Down /\ T = r.todo
    OBVIOUS
  <1> PICK m : m = D[1]
    OBVIOUS
  <1> PICK n : n = NewOne(r, fits)
    OBVIOUS
  <1>1. D \in Seq(Messages) /\ T \in Seq(Messages) /\ D # <<>> /\ r.cur \in Nat /\ r.me \in Procs
    BY DEF DaemonTyped
  <1>2. m \in Messages /\ Head(D) = m /\ Tail(D) \in Seq(Messages)
    <2>1. Head(D) = D[1] /\ Head(D) \in Messages /\ Tail(D) \in Seq(Messages)
      BY ONLY <1>1, TailFacts
    <2> QED BY <2>1
  <1>3. Pending(r) = Elements(D \o T) /\ NoDup(D \o T) /\ Queue(r) = D \o T
    BY DEF Pending, Queue
  <1>4. m \in Elements(D \o T) /\ NoDup(Tail(D) \o T) /\ Elements(Tail(D) \o T) = Elements(D \o T) \ {m}
    BY ONLY <1>1, <1>2, <1>3, QueueNext
  <1>5. NumElements[m] \in 1 .. 2
    BY <1>2, ProtocolAssumption
  <1>6. CASE r.cur + 1 # NumElements[m]
    <2>1. n.k = [from |-> r.me, msg |-> m, index |-> r.cur + 1, also |-> <<>>] /\ n.Down = D /\ n.cur = r.cur + 1
      BY <1>6 DEF NewOne
    <2>2. n.k \in PacketSet /\ PacketOK(n.k) /\ Carried(n.k) = {}
      BY <1>1, <1>2, <2>1 DEF PacketSet, PacketOK, Carried
    <2>3. n.cur \in Nat
      BY <1>1, <2>1
    <2> QED BY <1>1, <1>3, <2>1, <2>2, <2>3
  <1>7. CASE /\ r.cur + 1 = NumElements[m]
             /\ ~(/\ fits /\ Tail(D) # <<>>
                  /\ NumElements[Head(Tail(D))] = 1 /\ TypeOf[Head(Tail(D))] = TypeOf[m])
    <2>1. n.k = [from |-> r.me, msg |-> m, index |-> -NumElements[m], also |-> <<>>] /\ n.Down = Tail(D) /\ n.cur = 0
      BY <1>7 DEF NewOne
    <2>2. n.k \in PacketSet /\ PacketOK(n.k) /\ Carried(n.k) = {m}
      BY <1>1, <1>2, <1>5, <2>1 DEF PacketSet, PacketOK, Carried
    <2> QED BY <1>2, <1>3, <1>4, <2>1, <2>2
  <1>8. CASE /\ r.cur + 1 = NumElements[m]
             /\ fits /\ Tail(D) # <<>>
             /\ NumElements[Head(Tail(D))] = 1 /\ TypeOf[Head(Tail(D))] = TypeOf[m]
    <2> PICK R, h : R = Tail(D) /\ h = Head(Tail(D))
      OBVIOUS
    <2> PICK e : e = <<"msg", h>>
      OBVIOUS
    <2>1. /\ n.k = [from |-> r.me, msg |-> m, index |-> -NumElements[m], also |-> <<e>>]
          /\ n.Down = Tail(R) /\ n.cur = 0
      BY <1>8 DEF NewOne
    <2>2. /\ R \in Seq(Messages) /\ R # <<>> /\ h = Head(R)
      BY <1>2, <1>8
    <2>3. h \in Messages /\ Tail(R) \in Seq(Messages)
      <3>1. Head(R) \in Messages /\ Tail(R) \in Seq(Messages)
        BY ONLY <2>2, TailFacts
      <3> QED BY <2>2, <3>1
    <2>4. NoDup(R \o T) /\ Elements(R \o T) = Elements(D \o T) \ {m}
      BY <1>4
    <2>5. h \in Elements(R \o T) /\ NoDup(Tail(R) \o T) /\ Elements(Tail(R) \o T) = Elements(R \o T) \ {h}
      <3>1. /\ Head(R) \in Elements(R \o T) /\ NoDup(Tail(R) \o T)
            /\ Elements(Tail(R) \o T) = Elements(R \o T) \ {Head(R)}
        BY ONLY <1>1, <2>2, <2>4, QueueNext
      <3> QED BY <2>2, <3>1
    <2>6. h # m /\ TypeOf[h] = TypeOf[m]
      BY <1>8, <2>4, <2>5
    <2>7. n.k \in PacketSet /\ PacketOK(n.k)
      <3>1. e[2] = h /\ <<e>>[1] = e
        BY ONLY e = <<"msg", h>>
      <3>2. <<e>> \in {<<<<"msg", x>>>> : x \in Messages}
        BY ONLY <2>3, e = <<"msg", h>>
      <3>3. n.k \in PacketSet
        BY ONLY <1>1, <1>2, <1>5, <2>1, <3>2 DEF PacketSet
      <3>4. n.k.also = <<e>> /\ n.k.msg = m /\ n.k.index < 0
        BY ONLY <1>5, <2>1
      <3> QED BY <2>6, <3>1, <3>3, <3>4 DEF PacketOK
    <2>8. Carried(n.k) = {m, h}
      <3> PICK k : k = n.k
        OBVIOUS
      <3>1. k.also = <<e>> /\ k.msg = m /\ k.index < 0 /\ e[2] = h
        BY ONLY <1>5, <2>1, k = n.k, e = <<"msg", h>>
      <3>2. DOMAIN <<e>> = {1} /\ <<e>>[1] = e
        BY ONLY TRUE
      <3>3. {k.also[x][2] : x \in DOMAIN k.also} = {h}
        BY ONLY <3>1, <3>2
      <3>4. Carried(k) = {m, h}
        BY <3>1, <3>3 DEF Carried
      <3> QED BY <3>4
    <2>9. NoDup(n.Down \o r.todo) /\ Elements(n.Down \o r.todo) = (Elements(D \o T) \ {m}) \ {h}
      BY <2>1, <2>4, <2>5
    <2>10. {m, h} \subseteq Elements(D \o T)
      BY <1>4, <2>4, <2>5
    <2>11. n.Down \in Seq(Messages) /\ n.cur \in Nat
      BY ONLY <2>1, <2>3
    <2> QED BY ONLY n = NewOne(r, fits), <1>3, <2>7, <2>8, <2>9, <2>10, <2>11
  <1> QED BY <1>6, <1>7, <1>8

\* Alarm(EXIT) leaves a sane daemon.
LEMMA SaneExit ==
  ASSUME NEW r, NEW P, Sane(r, P)
  PROVE  Sane(Exit(r), P) /\ Differ(Exit(r), r, {"State"}) /\ Exit(r).State = "EXIT"
  <1> PICK q : q = Exit(r)
    OBVIOUS
  <1>1. DOMAIN r = Fields
    BY DEF Sane, DaemonTyped
  <1>2. Differ(q, r, {"State"}) /\ q.State = "EXIT"
    BY <1>1, ExitFacts
  <1>3. /\ DOMAIN q = Fields /\ q.me = r.me /\ q.mid = r.mid /\ q.future = r.future /\ q.attempt = r.attempt
        /\ q.Last_token = r.Last_token /\ q.Down = r.Down /\ q.todo = r.todo /\ q.cur = r.cur /\ q.log = r.log
        /\ \A f \in Counters : q[f] = r[f]
    BY <1>2 DEF Differ, Fields, Counters
  <1>4. DaemonTyped(q)
    BY <1>2, <1>3 DEF Sane, DaemonTyped
  <1>5. Sane(q, P)
    BY <1>2, <1>3, <1>4 DEF Sane
  <1> QED BY <1>2, <1>5

\* The daemon x with packets Q, after it sent the packet it makes of its queue.
Sent(x, s, n) == [SetExist(x, s, 1) EXCEPT !.Highest_seq = s, !.Down = n.Down, !.cur = n.cur]

\* One new packet leaves the daemon: Send_new_packets keeps what it maintains.
LEMMA NewStep ==
  ASSUME NEW r, NEW P, NEW x, NEW Q, NEW fits, SendInv(r, P, x, Q), Pending(r) \cap Told(r.log) = {},
         x.Down # <<>>, Len(Q) = x.Highest_seq, Exist(x, Len(Q) + 1) = 0
  PROVE  SendInv(r, P, Sent(x, Len(Q) + 1, NewOne(x, fits)), Append(Q, NewOne(x, fits).k))
  <1> PICK n : n = NewOne(x, fits)
    OBVIOUS
  <1> PICK k : k = n.k
    OBVIOUS
  <1> PICK s : s = Len(Q) + 1
    OBVIOUS
  <1> PICK y : y = Sent(x, s, n)
    OBVIOUS
  <1> PICK R : R = Append(Q, k)
    OBVIOUS
  <1>1. /\ Sane(x, Q) /\ PackOK(Q) /\ Differ(x, r, Sends) /\ x.State \in {r.State, "EXIT"}
        /\ Pending(x) \subseteq Pending(r) /\ NoDup(Queue(x)) /\ Pending(x) \cap Contents(Q) = {}
        /\ Grown(P, Q, Pending(r) \ Pending(x)) /\ DaemonTyped(x) /\ DOMAIN x = Fields
    BY DEF SendInv, Sane, DaemonTyped
  <1>2. /\ k \in PacketSet /\ PacketOK(k) /\ n.Down \in Seq(Messages) /\ n.cur \in Nat
        /\ NoDup(n.Down \o x.todo)
        /\ Carried(k) \subseteq Pending(x) /\ Elements(n.Down \o x.todo) = Pending(x) \ Carried(k)
    <2>1. LET m == NewOne(x, fits)
         IN  /\ m.k \in PacketSet /\ PacketOK(m.k) /\ m.Down \in Seq(Messages) /\ m.cur \in Nat
             /\ NoDup(m.Down \o x.todo)
             /\ Carried(m.k) \subseteq Pending(x) /\ Elements(m.Down \o x.todo) = Pending(x) \ Carried(m.k)
      BY <1>1, NewOneFacts
    <2> QED BY <2>1
  <1>3. Carried(k) \cap Contents(Q) = {} /\ Carried(k) \cap Told(x.log) = {} /\ x.log = r.log
    <2>1. x.log = r.log
      BY <1>1 DEF Differ, Fields, Sends
    <2> QED BY <1>1, <1>2, <2>1
  <1>4. /\ PackOK(R) /\ s \in DOMAIN R /\ Grown(Q, R, Carried(k)) /\ Contents(R) = Contents(Q) \cup Carried(k)
    BY <1>1, <1>2, <1>3, PackAppend
  <1>5. s \in Int /\ x.Highest_seq = s - 1 /\ x.Highest_seq \in Int
    BY <1>1 DEF PackOK
  <1>6. /\ Differ(y, x, {"Packets", "Highest_seq", "Down", "cur"})
        /\ y.Highest_seq = s /\ y.Down = n.Down /\ y.cur = n.cur
        /\ Exist(y, s) = 1 /\ \A t : t # s => Exist(y, t) = Exist(x, t)
    BY <1>1 DEF Sent, SetExist, Exist, Differ, Fields
  <1>7. /\ DOMAIN y = Fields /\ y.me = x.me /\ y.State = x.State /\ y.mid = x.mid /\ y.future = x.future
        /\ y.attempt = x.attempt /\ y.Last_token = x.Last_token /\ y.todo = x.todo /\ y.log = x.log
        /\ y.threshold = x.threshold /\ y.Last_discarded = x.Last_discarded /\ y.Last_delivered = x.Last_delivered
        /\ y.My_aru = x.My_aru /\ y.Aru = x.Aru /\ y.Last_seq = x.Last_seq /\ y.Last_num = x.Last_num
    BY <1>6 DEF Differ, Fields
  <1>8. DaemonTyped(y)
    <2>1. \A f \in Counters : y[f] \in Int
      <3>1. /\ x.My_aru \in Int /\ x.Aru \in Int /\ x.Last_discarded \in Int
            /\ x.Last_delivered \in Int /\ x.Last_seq \in Int /\ x.Last_num \in Int
        BY ONLY <1>1, TypedFacts
      <3> QED BY ONLY <1>5, <1>6, <1>7, <3>1 DEF Counters
    <2> QED BY <1>1, <1>2, <1>6, <1>7, <2>1 DEF DaemonTyped
  <1>9. Good(y.log, R)
    BY <1>1, <1>3, <1>4, <1>7, GoodGrown DEF Sane
  <1>10. x.State # "EXIT" => Fit(y, R)
    <2> SUFFICES ASSUME x.State # "EXIT" PROVE Fit(y, R)
      OBVIOUS
    <2>1. Fit(x, R)
      BY <1>1, <1>3, <1>4, FitGrown DEF Sane
    <2>2. Exist(x, s) = 0
      OBVIOUS
    <2>3. Unheard(y, R, y.Last_discarded)
      BY <1>6, <1>7, <2>1, <2>2 DEF Fit, Unheard
    <2>4. Here(y, R)
      BY <1>4, <1>6, <2>1 DEF Fit, Here
    <2>5. Passed(y)
      BY <1>6, <1>7, <2>1, <2>2 DEF Fit, Passed
    <2>6. Known(y)
      BY <1>5, <1>6, <1>7, <2>1, <2>2 DEF Fit, Known
    <2> QED BY <1>7, <2>1, <2>3, <2>4, <2>5, <2>6 DEF Fit
  <1>11. Sane(y, R)
    BY <1>7, <1>8, <1>9, <1>10 DEF Sane
  <1>12. Pending(y) = Pending(x) \ Carried(k) /\ NoDup(Queue(y))
    BY <1>2, <1>6, <1>7 DEF Pending, Queue
  <1>13. Grown(P, R, Pending(r) \ Pending(y))
    <2>1. Grown(P, R, (Pending(r) \ Pending(x)) \cup Carried(k))
      BY <1>1, <1>4, GrownTwice
    <2>2. (Pending(r) \ Pending(x)) \cup Carried(k) \subseteq Pending(r) \ Pending(y)
      BY <1>1, <1>2, <1>12
    <2> QED BY <2>1, <2>2, GrownMore
  <1>14. Differ(y, r, Sends)
    BY <1>1, <1>6 DEF Differ, Sends
  <1>15. Pending(y) \cap Contents(R) = {}
    BY <1>1, <1>4, <1>12
  <1>16. SendInv(r, P, y, R)
    BY <1>1, <1>4, <1>7, <1>11, <1>12, <1>13, <1>14, <1>15 DEF SendInv
  <1> QED BY <1>16

\* One turn of Send_new_packets keeps what the loop maintains.
LEMMA SendTurn ==
  ASSUME NEW r, NEW P, NEW a, NEW fits, NEW i, SendInv(r, P, a.r, a.P), a = [r |-> a.r, P |-> a.P],
         Pending(r) \cap Told(r.log) = {}
  PROVE  LET b == SendNext(fits, a, i)
         IN  SendInv(r, P, b.r, b.P) /\ b = [r |-> b.r, P |-> b.P]
  <1> PICK x, Q : x = a.r /\ Q = a.P
    OBVIOUS
  <1> PICK b : b = SendNext(fits, a, i)
    OBVIOUS
  <1>1. SendInv(r, P, x, Q)
    OBVIOUS
  <1>2. CASE x.Down = <<>> \/ Len(Q) # x.Highest_seq
    <2>1. b = a
      BY <1>2 DEF SendNext
    <2> QED BY <2>1
  <1>3. CASE x.Down # <<>> /\ Len(Q) = x.Highest_seq /\ Exist(x, Len(Q) + 1) # 0
    <2>1. b = [a EXCEPT !.r = Exit(a.r)]
      BY <1>3 DEF SendNext, NewPacket
    <2>2. b.r = Exit(x) /\ b.P = Q /\ b = [r |-> b.r, P |-> b.P]
      BY <2>1
    <2> PICK y : y = Exit(x)
      OBVIOUS
    <2>3. Sane(y, Q) /\ Differ(y, x, {"State"}) /\ y.State = "EXIT"
      BY <1>1, SaneExit DEF SendInv
    <2>4. Queue(y) = Queue(x) /\ Differ(y, r, Sends)
      BY <1>1, <2>3 DEF SendInv, Differ, Fields, Sends, Queue
    <2>5. SendInv(r, P, y, Q)
      BY <1>1, <2>3, <2>4 DEF SendInv, Pending
    <2> QED BY <2>2, <2>5
  <1>4. CASE x.Down # <<>> /\ Len(Q) = x.Highest_seq /\ Exist(x, Len(Q) + 1) = 0
    <2> PICK s : s = Len(Q) + 1
      OBVIOUS
    <2> PICK n : n = NewOne(x, fits)
      OBVIOUS
    <2>1. b = [r |-> Sent(x, s, n), P |-> Append(Q, n.k)]
      <3> PICK y : y = SetExist(x, s, 1)
        OBVIOUS
      <3>1. y.cur = x.cur /\ DOMAIN x = Fields
        BY <1>1 DEF SendInv, Sane, DaemonTyped, SetExist, Fields
      <3> QED BY <1>4, <3>1 DEF SendNext, NewPacket, NewOne, Sent
    <2>2. SendInv(r, P, Sent(x, s, n), Append(Q, n.k))
      BY <1>1, <1>4, NewStep
    <2> QED BY <2>1, <2>2
  <1> QED BY <1>2, <1>3, <1>4

\* Send_new_packets
LEMMA Sending ==
  ASSUME NEW r, NEW P, NEW fits, NEW allowed \in Int, PackOK(P), Sane(r, P), NoDup(Queue(r)),
         Pending(r) \cap Contents(P) = {}, Pending(r) \cap Told(r.log) = {}
  PROVE  LET a == Send_new_packets(r, P, allowed, fits)
         IN  /\ SendInv(r, P, a.r, a.P)
             /\ allowed <= 0 => a.r = r /\ a.P = P
  <1> DEFINE n == Turns(1, allowed)
             base == [r |-> r, P |-> P]
             f == SendFold(fits, base, 1, allowed)
  <1>1. n \in Nat /\ (allowed <= 0 => n = 0)
    BY TurnsNat DEF Turns
  <1>2. PICK c : Chain(c, "send", fits, base, 1, allowed) /\ Run("send", fits, base, 1, allowed) = c[n]
    BY Loop
  <1>3. /\ c[0] = base /\ f = c[n]
        /\ \A k \in 1 .. n : c[k] = SendNext(fits, c[k - 1], 1 + k - 1)
    BY <1>2, SendRun DEF Chain, Body
  <1> DEFINE S == {k \in Nat : k <= n => SendInv(r, P, c[k].r, c[k].P) /\ c[k] = [r |-> c[k].r, P |-> c[k].P]}
  <1> HIDE DEF n, f
  <1>4. 0 \in S
    <2>1. Grown(P, P, Pending(r) \ Pending(r))
      BY DEF Grown
    <2>2. Differ(r, r, Sends)
      BY DEF Differ, Sane, DaemonTyped
    <2>3. SendInv(r, P, r, P)
      BY <2>1, <2>2 DEF SendInv
    <2>4. base.r = r /\ base.P = P /\ base = [r |-> base.r, P |-> base.P]
      OBVIOUS
    <2> HIDE DEF base
    <2> QED BY <1>3, <2>3, <2>4
  <1>5. ASSUME NEW k \in Nat, k \in S PROVE k + 1 \in S
    <2> SUFFICES ASSUME k + 1 <= n
                 PROVE  SendInv(r, P, c[k + 1].r, c[k + 1].P) /\ c[k + 1] = [r |-> c[k + 1].r, P |-> c[k + 1].P]
      OBVIOUS
    <2> PICK a : a = c[k]
      OBVIOUS
    <2>1. SendInv(r, P, a.r, a.P) /\ a = [r |-> a.r, P |-> a.P]
      BY <1>1, <1>5
    <2>2. c[k + 1] = SendNext(fits, a, k + 1)
      BY <1>1, <1>3
    <2> PICK b : b = SendNext(fits, a, k + 1)
      OBVIOUS
    <2>3. SendInv(r, P, b.r, b.P) /\ b = [r |-> b.r, P |-> b.P]
      BY <2>1, SendTurn
    <2> QED BY <2>2, <2>3
  <1>6. n \in S
    <2> HIDE DEF S
    <2> QED BY <1>1, <1>4, <1>5, EveryNatural
  <1>7. SendInv(r, P, f.r, f.P) /\ (n = 0 => f = base)
    BY <1>1, <1>3, <1>6
  <1>8. Send_new_packets(r, P, allowed, fits) = f
    BY DEF Send_new_packets, SendFold, f
  <1> QED BY <1>1, <1>7, <1>8

-----------------------------------------------------------------------------
(* The token *)

\* The counters of the protocol, and what deliveries change.
Tuned == {"State", "Highest_seq", "My_aru", "Aru", "Last_token", "Last_num", "Just_Installed", "Commit_set"}
Moved == Handled \cup Tuned
Moves(r, q, P) == Differ(q, r, Moved) /\ q.State \in {r.State, "EXIT"} /\ Continues(r.log, q.log, P)

\* A token changes counters: the daemon is still sane if it knows its packets.
LEMMA TuneKnown ==
  ASSUME NEW r, NEW q, NEW P, Sane(r, P), Differ(q, r, Tuned), q.State \in {r.State, "EXIT"},
         q.Highest_seq \in Int, q.My_aru \in Int, q.Aru \in Int, q.Last_num \in Int,
         DOMAIN q.Last_token = {"arq", "aru", "seq"}, q.Last_token.aru \in Int, q.Last_token.seq \in Int,
         q.State # "EXIT" => Known(q)
  PROVE  Sane(q, P) /\ Moves(r, q, P)
  <1>1. /\ DOMAIN q = Fields /\ q.me = r.me /\ q.mid = r.mid /\ q.future = r.future /\ q.attempt = r.attempt
        /\ q.Down = r.Down /\ q.todo = r.todo /\ q.cur = r.cur /\ q.log = r.log /\ q.Packets = r.Packets
        /\ q.threshold = r.threshold /\ q.Last_discarded = r.Last_discarded /\ q.Last_delivered = r.Last_delivered
        /\ q.Last_seq = r.Last_seq
    BY DEF Differ, Fields, Tuned
  <1>2. /\ r.Last_discarded \in Int /\ r.Last_delivered \in Int /\ r.Last_seq \in Int /\ r.Highest_seq \in Int
        /\ DOMAIN r = Fields
    BY TypedFacts DEF Sane
  <1>3. \A f \in Counters : q[f] \in Int
    BY <1>1, <1>2 DEF Counters
  <1>4. DaemonTyped(q)
    BY <1>1, <1>3 DEF Sane, DaemonTyped
  <1>5. \A s : Exist(q, s) = Exist(r, s)
    BY <1>1 DEF Exist
  <1>6. q.State # "EXIT" => Fit(q, P)
    <2> SUFFICES ASSUME q.State # "EXIT" PROVE Fit(q, P)
      OBVIOUS
    <2>1. Fit(r, P) /\ q.State = r.State /\ Known(r) /\ Passed(r)
      BY DEF Sane, Fit
    <2>2. Known(q)
      OBVIOUS
    <2>3. Passed(q) /\ Here(q, P) /\ Unheard(q, P, q.Last_discarded)
      BY <1>1, <1>5, <2>1 DEF Fit, Passed, Here, Unheard
    <2> QED BY <1>1, <2>1, <2>2, <2>3 DEF Fit
  <1>7. Continues(r.log, q.log, P)
    BY <1>1, ContinuesSame DEF Sane, Good
  <1> QED BY <1>1, <1>4, <1>6, <1>7 DEF Sane, Moves, Differ, Moved

\* A token that raises Highest_seq changes counters: the daemon is still sane.
LEMMA Tune ==
  ASSUME NEW r, NEW q, NEW P, Sane(r, P), Differ(q, r, Tuned), q.State \in {r.State, "EXIT"},
         q.Highest_seq \in Int, q.My_aru \in Int, q.Aru \in Int, q.Last_num \in Int,
         DOMAIN q.Last_token = {"arq", "aru", "seq"}, q.Last_token.aru \in Int, q.Last_token.seq \in Int,
         r.Highest_seq <= q.Highest_seq
  PROVE  Sane(q, P) /\ Moves(r, q, P)
  <1>1. q.State # "EXIT" => Known(q)
    <2> SUFFICES ASSUME q.State # "EXIT" PROVE Known(q)
      OBVIOUS
    <2>1. Known(r) /\ q.State = r.State
      BY DEF Sane, Fit
    <2>2. q.Packets = r.Packets /\ r.Highest_seq \in Int
      BY TypedFacts DEF Sane, Differ, Fields, Tuned
    <2>3. \A s : Exist(q, s) = Exist(r, s)
      BY <2>2 DEF Exist
    <2> QED BY <2>1, <2>2, <2>3 DEF Known
  <1> QED BY <1>1, TuneKnown

\* Two moves of a daemon in a row are one.
LEMMA MovesTwice ==
  ASSUME NEW r, NEW q, NEW u, NEW P, IsSeq(r.log), Moves(r, q, P), Moves(q, u, P)
  PROVE  Moves(r, u, P)
  <1>1. Continues(r.log, u.log, P)
    BY ContinuesTwice DEF Moves
  <1>2. Differ(u, r, Moved)
    BY DEF Moves, Differ
  <1> QED BY <1>1, <1>2 DEF Moves

\* Deliveries are a move.
LEMMA ChangesMoves ==
  ASSUME NEW r, NEW q, NEW P, Changes(r, q, P)
  PROVE  Moves(r, q, P)
  BY DEF Changes, Moves, Differ, Moved

\* A non-empty set of integers bounded from below contains its least element.
LEMMA MinIn ==
  ASSUME NEW a \in Int, NEW S, S # {}, \A x \in S : x \in Int /\ x >= a
  PROVE  Min(S) \in S
  <1> DEFINE R == {x - a : x \in S}
  <1>1. R # {} /\ R \subseteq Nat
    OBVIOUS
  <1>2. PICK z \in R : \A y \in R : z <= y
    <2> HIDE DEF R
    <2> QED BY <1>1, LeastNatural
  <1>3. PICK x \in S : z = x - a
    BY <1>2
  <1>4. \A y \in S : x - a <= y - a
    BY <1>2, <1>3
  <1>5. \A y \in S : x <= y
    BY <1>4
  <1> QED BY <1>5 DEF Min

\* Advancing My_aru over the packets that exist sets a number.
LEMMA AdvanceFacts ==
  ASSUME NEW r, DaemonTyped(r)
  PROVE  Differ(Advance(r), r, {"My_aru"}) /\ Advance(r).My_aru \in Int
  <1> DEFINE missing == {i \in r.My_aru + 1 .. r.Highest_seq : Exist(r, i) = 0}
  <1>1. r.My_aru \in Int /\ r.Highest_seq \in Int /\ DOMAIN r = Fields
    BY TypedFacts
  <1>2. missing # {} => Min(missing) \in Int
    <2>1. r.My_aru \in Int /\ \A x \in missing : x \in Int /\ x >= r.My_aru
      BY <1>1
    <2> HIDE DEF missing
    <2>2. missing # {} => Min(missing) \in missing
      BY <2>1, MinIn
    <2> QED BY <2>1, <2>2
  <1> PICK v : v = IF missing = {} THEN Larger(r.My_aru, r.Highest_seq) ELSE Min(missing) - 1
    OBVIOUS
  <1>3. v \in Int
    <2> HIDE DEF missing
    <2> QED BY <1>1, <1>2 DEF Larger
  <1>4. Advance(r) = [r EXCEPT !.My_aru = v]
    BY DEF Advance
  <1> QED BY <1>1, <1>3, <1>4 DEF Differ, Fields

\* Finitely many requests, for finitely many packets.
Bounded(rtr) == IsFiniteSet(rtr) /\ \A g \in rtr : IsFiniteSet(g.seqs)

\* Answer_retrans leaves a finite list of requests and counts its answers.
LEMMA AnswerFacts ==
  ASSUME NEW r, NEW rtr, Bounded(rtr)
  PROVE  Answer_retrans(r, rtr).num \in Nat /\ Bounded(Answer_retrans(r, rtr).rtr)
  <1> PICK ans : ans = Answer_retrans(r, rtr)
    OBVIOUS
  <1> DEFINE T == {g.seqs : g \in rtr}
             f == [g \in rtr |-> g.seqs]
             answers == UNION {{<<g, s>> : s \in {x \in g.seqs : Exist(r, x) \in {1, 2}}} : g \in {h \in rtr : h.mid = r.mid}}
  <1>1. f \in Surjection(rtr, T)
    BY DEF Surjection
  <1>2. IsFiniteSet(T)
    <2> HIDE DEF f, T
    <2> QED BY <1>1, FS_Surjection DEF Bounded
  <1>3. IsFiniteSet(UNION T)
    <2>1. \A t \in T : IsFiniteSet(t)
      BY DEF Bounded
    <2> HIDE DEF T
    <2> QED BY <1>2, <2>1, FS_UNION
  <1>4. answers \subseteq rtr \X UNION T
    OBVIOUS
  <1> PICK R : R = rtr \X UNION T
    OBVIOUS
  <1>5. IsFiniteSet(R)
    <2> PICK U : U = UNION T
      OBVIOUS
    <2>1. IsFiniteSet(U) /\ IsFiniteSet(rtr)
      BY <1>3 DEF Bounded
    <2>2. IsFiniteSet(rtr \X U)
      BY ONLY <2>1, FS_Product
    <2> QED BY <2>2
  <1>6. IsFiniteSet(answers)
    <2>1. answers \in SUBSET R
      BY <1>4
    <2> HIDE DEF answers
    <2> QED BY ONLY <1>5, <2>1, FS_Subset
  <1>7. Cardinality(answers) \in Nat
    <2> HIDE DEF answers
    <2> QED BY ONLY <1>6, FS_CardinalityType
  <1>8. ans.num = Cardinality(answers) /\ ans.rtr = rtr \ {h \in rtr : h.mid = r.mid}
    BY DEF Answer_retrans
  <1>9. IsFiniteSet(ans.rtr)
    <2>1. ans.rtr \in SUBSET rtr /\ IsFiniteSet(rtr)
      BY <1>8 DEF Bounded
    <2> QED BY ONLY <2>1, FS_Subset
  <1>10. Bounded(ans.rtr)
    BY <1>8, <1>9 DEF Bounded
  <1> QED BY <1>7, <1>8, <1>10

\* The requests that a daemon adds to the token are finitely many.
LEMMA RequestFacts ==
  ASSUME NEW r, NEW ans, DaemonTyped(r)
  PROVE  Bounded(Requests(r, ans))
  <1> DEFINE upto == IF Accelerated_ring /\ r.State # "EVS" THEN r.Last_token.seq ELSE r.Highest_seq
             miss == {i \in r.My_aru + 1 .. upto : Exist(r, i) = 0}
             g == [mid |-> r.mid, proc |-> ans.proc, seg |-> ans.seg, seqs |-> miss]
  <1>1. r.My_aru + 1 \in Int /\ upto \in Int
    BY TypedFacts
  <1>2. IsFiniteSet(miss)
    <2> PICK a, b : a = r.My_aru + 1 /\ b = upto
      OBVIOUS
    <2>1. IsFiniteSet(a .. b)
      BY <1>1, FS_Interval
    <2>2. miss \in SUBSET (a .. b)
      OBVIOUS
    <2> HIDE DEF miss
    <2> QED BY ONLY <2>1, <2>2, FS_Subset
  <1>3. g.seqs = miss
    OBVIOUS
  <1>4. Requests(r, ans) = {} \/ Requests(r, ans) = {g}
    BY DEF Requests
  <1> HIDE DEF miss, g
  <1>5. IsFiniteSet({}) /\ IsFiniteSet({g})
    BY FS_EmptySet, FS_Singleton
  <1> QED BY <1>2, <1>3, <1>4, <1>5 DEF Bounded

TokenTyped(t) ==
  /\ DOMAIN t = {"mid", "seq", "aru", "last", "fc", "rtr", "arq"}
  /\ t.seq \in Int /\ t.aru \in Int /\ t.fc \in Int /\ Bounded(t.rtr)

\* A daemon that has recovered everything changes My_aru and its commit set only.
LEMMA RecoveredFacts ==
  ASSUME NEW b, DaemonTyped(b)
  PROVE  Differ(Recovered(b), b, {"My_aru", "Commit_set"}) /\ Recovered(b).My_aru \in Int
  <1>1. DOMAIN b = Fields /\ b.My_aru \in Int /\ b.Last_seq \in Int
    BY TypedFacts
  <1> QED BY <1>1 DEF Recovered, Differ, Fields

\* A daemon that notes a token stays sane.
LEMMA NotingFacts ==
  ASSUME NEW c, NEW P, NEW token, NEW num \in Int, Sane(c, P), token.aru \in Int, token.seq \in Int
  PROVE  Sane(Noting(c, token, num), P) /\ Moves(c, Noting(c, token, num), P)
  <1> PICK u : u = NewAru(c, token.aru)
    OBVIOUS
  <1> PICK l : l = [arq |-> token.arq, aru |-> token.aru, seq |-> token.seq]
    OBVIOUS
  <1> PICK e : e = [u EXCEPT !.Last_num = num, !.Last_token = l]
    OBVIOUS
  <1>1. /\ DOMAIN c = Fields /\ c.Highest_seq \in Int /\ c.My_aru \in Int /\ c.Aru \in Int
        /\ c.Last_token.aru \in Int
    BY TypedFacts DEF Sane
  <1> PICK low : low = Smaller(token.aru, c.Last_token.aru)
    OBVIOUS
  <1>2. low \in Int
    BY <1>1 DEF Smaller
  <1>3. /\ Differ(u, c, {"State", "Aru"}) /\ u.State \in {c.State, "EXIT"} /\ u.Aru \in Int
    <2>1. u = Exit(c) \/ u = [c EXCEPT !.Aru = low]
      BY DEF NewAru
    <2>2. CASE u = Exit(c)
      <3>1. Differ(u, c, {"State"}) /\ u.State = "EXIT"
        BY <1>1, <2>2, ExitFacts
      <3> QED BY <1>1, <3>1 DEF Differ, Fields
    <2>3. CASE u = [c EXCEPT !.Aru = low]
      BY <1>1, <1>2, <2>3 DEF Differ, Fields
    <2> QED BY <2>1, <2>2, <2>3
  <1>4. Differ(e, u, {"Last_num", "Last_token"}) /\ e.Last_num = num /\ e.Last_token = l
    BY <1>3 DEF Differ, Fields
  <1>5. /\ Differ(e, c, Tuned) /\ e.State \in {c.State, "EXIT"} /\ e.Highest_seq = c.Highest_seq
        /\ e.My_aru = c.My_aru /\ e.Aru = u.Aru
    BY <1>3, <1>4 DEF Differ, Fields, Tuned
  <1>6. DOMAIN l = {"arq", "aru", "seq"} /\ l.aru \in Int /\ l.seq \in Int
    OBVIOUS
  <1>7. Sane(e, P) /\ Moves(c, e, P)
    <2>1. c.Highest_seq <= e.Highest_seq /\ e.Highest_seq \in Int /\ e.My_aru \in Int /\ e.Aru \in Int /\ e.Last_num \in Int
      BY <1>1, <1>3, <1>4, <1>5
    <2>2. DOMAIN e.Last_token = {"arq", "aru", "seq"} /\ e.Last_token.aru \in Int /\ e.Last_token.seq \in Int
      BY <1>4, <1>6
    <2> QED BY ONLY Sane(c, P), <1>5, <2>1, <2>2, Tune
  <1>8. e = Noting(c, token, num)
    BY DEF Noting
  <1> QED BY <1>7, <1>8

\* A daemon that moves and then installs a membership installs it.
LEMMA InstallsMoves ==
  ASSUME NEW r, NEW e, NEW q, NEW P, IsSeq(r.log), Moves(r, e, P), Installs(e, q, P)
  PROVE  Installs(r, q, P)
  <1>1. PICK log : Continues(e.log, log, P) /\ Good(log, P) /\ q.log = Append(log, <<"reg", e.future>>)
    BY DEF Installs
  <1>2. Continues(r.log, log, P)
    BY <1>1, ContinuesTwice DEF Moves
  <1>3. /\ e.future = r.future /\ e.me = r.me /\ e.Down = r.Down /\ e.todo = r.todo /\ r.State = "EVS"
    BY DEF Moves, Installs, Differ, Fields, Moved, Handled, Tuned
  <1> QED BY <1>1, <1>2, <1>3 DEF Installs

\* A membership that was just installed delivers nothing yet.
LEMMA InstalledQuiet ==
  ASSUME NEW r, NEW q, NEW P, Installs(r, q, P), NEW start, NEW num
  PROVE  /\ Deliver_agreed_packets(q, P) = q /\ Deliver_reliable_packets(q, P, start, num) = q
         /\ Installs(r, Exit(q), P)
  <1>1. q.Last_delivered = 0 /\ q.My_aru = 0 /\ q.threshold = Agreed /\ q.State \in {"OP", "EXIT"} /\ DaemonTyped(q)
    BY DEF Installs
  <1>2. Deliver_reliable_packets(q, P, start, num) = q
    BY <1>1 DEF Deliver_reliable_packets, Agreed, Reliable
  <1>3. Deliver_agreed_packets(q, P) = q
    <2> DEFINE base == [r |-> q, stop |-> FALSE]
    <2>1. PICK c : Chain(c, "agreed", P, base, 1, 0) /\ Run("agreed", P, base, 1, 0) = c[Turns(1, 0)]
      BY Loop
    <2>2. Turns(1, 0) = 0
      BY DEF Turns
    <2>3. AgreedFold(P, base, 1, 0) = base
      <3>1. c[0] = base /\ Run("agreed", P, base, 1, 0) = c[0]
        BY <2>1, <2>2 DEF Chain
      <3>2. AgreedFold(P, base, 1, 0) = Run("agreed", P, base, 1, 0)
        BY AgreedRun
      <3> QED BY ONLY <3>1, <3>2
    <2>4. \/ Deliver_agreed_packets(q, P) = q
          \/ Deliver_agreed_packets(q, P) = AgreedFold(P, base, 1, 0).r
      <3>1. \/ Deliver_agreed_packets(q, P) = q
            \/ Deliver_agreed_packets(q, P) = AgreedFold(P, base, q.Last_delivered + 1, q.My_aru).r
        BY DEF Deliver_agreed_packets, AgreedFold
      <3>2. q.Last_delivered + 1 = 1 /\ q.My_aru = 0
        BY <1>1
      <3> QED BY <3>1, <3>2
    <2> QED BY <2>3, <2>4
  <1>4. Installs(r, Exit(q), P)
    <2> PICK u : u = Exit(q)
      OBVIOUS
    <2>1. Differ(u, q, {"State"}) /\ u.State = "EXIT" /\ \A x : Exist(u, x) = Exist(q, x)
      BY <1>1, ExitFacts DEF DaemonTyped
    <2>2. /\ DOMAIN u = Fields /\ u.me = q.me /\ u.mid = q.mid /\ u.future = q.future /\ u.attempt = q.attempt
          /\ u.Last_token = q.Last_token /\ u.Down = q.Down /\ u.todo = q.todo /\ u.cur = q.cur /\ u.log = q.log
          /\ u.threshold = q.threshold
          /\ u.Last_discarded = q.Last_discarded /\ u.Last_delivered = q.Last_delivered /\ u.My_aru = q.My_aru
          /\ \A f \in Counters : u[f] = q[f]
      BY <2>1 DEF Differ, Fields, Counters
    <2>3. DaemonTyped(u)
      BY <1>1, <2>1, <2>2 DEF DaemonTyped
    <2> QED BY <2>1, <2>2, <2>3 DEF Installs
  <1> QED BY <1>2, <1>3, <1>4

\* Deliveries after the token is sent.
LEMMA DeliveringFacts ==
  ASSUME NEW e, NEW P, NEW num \in Int, NEW bad, PackOK(P), Sane(e, P), e.State # "DOWN"
  PROVE  \/ Sane(Delivering(e, P, num, bad), P) /\ Moves(e, Delivering(e, P, num, bad), P)
         \/ Installs(e, Delivering(e, P, num, bad), P)
  <1> PICK g : g = Discard_packets(e, P)
    OBVIOUS
  <1> PICK f : f = Deliver_agreed_packets(g, P)
    OBVIOUS
  <1> PICK q : q = Delivering(e, P, num, bad)
    OBVIOUS
  <1>1. q = Exit(f) \/ q = Deliver_reliable_packets(f, P, f.Highest_seq - num + 1, num)
    BY DEF Delivering, DeliverOwn
  <1>2. (Sane(g, P) /\ Changes(e, g, P)) \/ Installs(e, g, P)
    BY Discarding
  <1>3. IsSeq(e.log)
    BY DEF Sane, Good
  <1>4. CASE Installs(e, g, P)
    <2>1. f = g
      <3>1. Deliver_agreed_packets(g, P) = g
        BY <1>4, InstalledQuiet
      <3> QED BY <3>1
    <2>2. Deliver_reliable_packets(f, P, f.Highest_seq - num + 1, num) = f /\ Installs(e, Exit(f), P)
      <3> PICK a : a = f.Highest_seq - num + 1
        OBVIOUS
      <3>1. Installs(e, f, P)
        BY <1>4, <2>1
      <3>2. Deliver_reliable_packets(f, P, a, num) = f /\ Installs(e, Exit(f), P)
        BY ONLY <3>1, InstalledQuiet
      <3> QED BY <3>2
    <2> QED BY <1>1, <1>4, <2>1, <2>2
  <1>5. CASE Sane(g, P) /\ Changes(e, g, P)
    <2>1. g.State # "DOWN"
      BY <1>5 DEF Changes
    <2>2. Sane(f, P) /\ Changes(g, f, P)
      BY <1>5, <2>1, AgreedDelivery
    <2>3. f.State # "DOWN" /\ f.Highest_seq \in Int
      BY <2>1, <2>2, TypedFacts DEF Changes, Sane
    <2>4. Changes(e, f, P)
      BY <1>3, <1>5, <2>2, ChangesTwice
    <2>5. CASE q = Exit(f)
      <3>1. Sane(q, P) /\ Differ(q, f, {"State"}) /\ q.State = "EXIT"
        BY <2>2, <2>5, SaneExit
      <3>2. q.log = f.log /\ Differ(q, f, Handled)
        BY <3>1 DEF Differ, Fields, Handled
      <3>3. Changes(f, q, P)
        BY <2>2, <3>1, <3>2, ContinuesSame DEF Changes, Sane, Good
      <3> QED BY <1>3, <2>4, <3>1, <3>3, ChangesTwice, ChangesMoves
    <2>6. CASE q = Deliver_reliable_packets(f, P, f.Highest_seq - num + 1, num)
      <3> PICK a : a = f.Highest_seq - num + 1
        OBVIOUS
      <3>1. a \in Int
        BY <2>3
      <3>2. Sane(q, P) /\ Changes(f, q, P)
        BY <2>2, <2>3, <2>6, <3>1, ReliableDelivery
      <3> QED BY <1>3, <2>4, <3>2, ChangesTwice, ChangesMoves
    <2> QED BY <1>1, <2>5, <2>6
  <1> QED BY <1>2, <1>4, <1>5

\* The daemon r is q after an operation in its membership, where P are the
\* packets; the packets were S before.
Stays(r, q, P) ==
  /\ Sane(q, P) /\ q.mid = r.mid /\ q.future = r.future /\ q.attempt = r.attempt
  /\ q.State \in {r.State, "EXIT"} /\ Continues(r.log, q.log, P)
Outcome(r, q, S, P) ==
  /\ PackOK(P) /\ Grown(S, P, Pending(r) \ Pending(q)) /\ Pending(q) \subseteq Pending(r)
  /\ NoDup(Queue(q)) /\ Pending(q) \cap Contents(P) = {} /\ q.me = r.me
  /\ Stays(r, q, P) \/ Installs(r, q, P)

\* The token that a daemon passes on has the fields and types of a token.
LEMMA PassedOnTyped ==
  ASSUME NEW b, NEW c, NEW t, NEW ans, NEW num \in Int, DaemonTyped(b), DaemonTyped(c), TokenTyped(t), Bounded(ans.rtr)
  PROVE  LET v == TokenAru(c, t)
         IN  TokenTyped(PassedOn(c, t, v, num, ans.rtr \cup Requests(b, ans)))
  <1> PICK v : v = TokenAru(c, t)
    OBVIOUS
  <1> PICK rtr : rtr = ans.rtr \cup Requests(b, ans)
    OBVIOUS
  <1> PICK u : u = PassedOn(c, t, v, num, rtr)
    OBVIOUS
  <1>1. c.My_aru \in Int /\ c.Highest_seq \in Int /\ c.Last_num \in Int
    BY TypedFacts
  <1>2. t.seq \in Int /\ t.aru \in Int /\ t.fc \in Int
    BY DEF TokenTyped
  <1>3. v.aru \in Int
    BY <1>1, <1>2 DEF TokenAru
  <1>4. Bounded(rtr)
    <2>1. Bounded(Requests(b, ans))
      BY RequestFacts
    <2> QED BY <2>1, FS_Union DEF Bounded
  <1>5. TokenFlow(c, t, num) \in Int
    BY <1>1, <1>2 DEF TokenFlow
  <1>6. TokenTyped(u)
    <2>1. /\ DOMAIN u = {"mid", "seq", "aru", "last", "fc", "rtr", "arq"}
          /\ u.seq = (IF c.State = "EVS" THEN t.seq ELSE c.Highest_seq) /\ u.aru = v.aru
          /\ u.fc = TokenFlow(c, t, num) /\ u.rtr = rtr
      BY DEF PassedOn
    <2>2. u.seq \in Int
      BY <1>1, <1>2, <2>1
    <2> QED BY ONLY <1>3, <1>4, <1>5, <2>1, <2>2 DEF TokenTyped
  <1> QED BY <1>6

\* Flow control allows a number of packets, and none to a daemon in EVS.
LEMMA AllowedFacts ==
  ASSUME NEW r, NEW fc \in Int
  PROVE  FC_allowed(r, fc) \in Int /\ (r.State = "EVS" => FC_allowed(r, fc) = 0)
  <1>1. Window \in Int /\ Personal_window \in Int
    BY ProtocolAssumption
  <1>2. \A a, b \in Int : Smaller(a, b) \in Int /\ Larger(a, b) \in Int
    BY DEF Smaller, Larger
  <1> PICK m : m = Window + Personal_window - fc
    OBVIOUS
  <1>3. Smaller(Smaller(Larger(m, 0), Window), Personal_window) \in Int
    <2>1. m \in Int
      BY <1>1
    <2>2. Larger(m, 0) \in Int
      BY <1>2, <2>1
    <2>3. Smaller(Larger(m, 0), Window) \in Int
      BY <1>1, <1>2, <2>2
    <2> QED BY <1>1, <1>2, <2>3
  <1> QED BY <1>3 DEF FC_allowed

\* Prot_handle_token
LEMMA TokenHandling ==
  ASSUME NEW r, NEW P, NEW t, NEW fits, PackOK(P), Sane(r, P), r.State \in {"OP", "EVS"}, TokenTyped(t),
         NoDup(Queue(r)), Pending(r) \cap Contents(P) = {}, Pending(r) \cap Told(r.log) = {}
  PROVE  LET res == Prot_handle_token(r, P, t, fits)
         IN  /\ Outcome(r, res.d, P, res.P) /\ TokenTyped(res.sent)
             /\ \A k \in res.out : k.seq \in DOMAIN res.P
  <1>l. PICK l : l = [r.Last_token EXCEPT !.aru = IF r.Just_Installed THEN 0 ELSE @]
    OBVIOUS
  <1>h. PICK h : h = Larger(r.Highest_seq, t.seq)
    OBVIOUS
  <1>a. PICK a : a = [r EXCEPT !.Last_token = l, !.Just_Installed = FALSE, !.Highest_seq = h]
    OBVIOUS
  <1>ans. PICK ans : ans = Answer_retrans(a, t.rtr)
    OBVIOUS
  <1>allowed. PICK allowed : allowed = FC_allowed(a, t.fc)
    OBVIOUS
  <1>new. PICK new : new = Send_new_packets(a, P, allowed, fits)
    OBVIOUS
  <1>x. PICK x, Q : x = new.r /\ Q = new.P
    OBVIOUS
  <1>b. PICK b : b = Advance(x)
    OBVIOUS
  <1>c. PICK c : c = Recovered(b)
    OBVIOUS
  <1>n. PICK n : n = Len(Q) - Len(P)
    OBVIOUS
  <1>token. PICK token : token = PassedOn(c, t, TokenAru(c, t), ans.num + n, ans.rtr \cup Requests(b, ans))
    OBVIOUS
  <1>e. PICK e : e = Noting(c, token, ans.num + n)
    OBVIOUS
  <1>q. PICK q : q = Delivering(e, Q, n, ans.bad)
    OBVIOUS
  <1>res. PICK res : res = Prot_handle_token(r, P, t, fits)
    OBVIOUS
  <1>1. /\ DOMAIN r = Fields /\ DaemonTyped(r) /\ r.Highest_seq \in Int /\ r.My_aru \in Int /\ r.Aru \in Int
        /\ r.Last_num \in Int /\ DOMAIN r.Last_token = {"arq", "aru", "seq"} /\ r.Last_token.aru \in Int
        /\ r.Last_token.seq \in Int /\ IsSeq(r.log)
    BY TypedFacts DEF Sane, Good, DaemonTyped
  <1>2. t.seq \in Int /\ t.fc \in Int /\ Bounded(t.rtr)
    BY DEF TokenTyped
  <1>3. DOMAIN l = {"arq", "aru", "seq"} /\ l.aru \in Int /\ l.seq \in Int
    BY <1>1, <1>l
  <1>4. h \in Int /\ r.Highest_seq <= h
    BY <1>1, <1>2, <1>h DEF Larger
  <1>5. /\ Differ(a, r, {"Last_token", "Just_Installed", "Highest_seq"}) /\ a.Last_token = l /\ a.Highest_seq = h
    BY <1>1, <1>a DEF Differ, Fields
  <1>6. /\ Differ(a, r, Tuned) /\ a.State = r.State /\ a.My_aru = r.My_aru /\ a.Aru = r.Aru /\ a.Last_num = r.Last_num
        /\ Queue(a) = Queue(r) /\ a.log = r.log /\ a.Down = r.Down
    BY <1>5 DEF Differ, Fields, Tuned, Queue
  <1>7. Sane(a, P) /\ Moves(r, a, P)
    BY <1>1, <1>3, <1>4, <1>5, <1>6, Tune
  <1>8. ans.num \in Nat /\ Bounded(ans.rtr)
    BY <1>2, <1>ans, AnswerFacts
  <1>9. allowed \in Int /\ (a.State = "EVS" => allowed = 0)
    BY <1>2, <1>allowed, AllowedFacts
  <1>10. SendInv(a, P, x, Q) /\ (allowed <= 0 => x = a /\ Q = P)
    <2>1. /\ NoDup(Queue(a)) /\ Pending(a) \cap Contents(P) = {} /\ Pending(a) \cap Told(a.log) = {}
      BY <1>6 DEF Pending
    <2>2. LET y == Send_new_packets(a, P, allowed, fits)
          IN  /\ SendInv(a, P, y.r, y.P)
              /\ allowed <= 0 => y.r = a /\ y.P = P
      BY <1>7, <1>9, <2>1, Sending
    <2> QED BY <1>new, <1>x, <2>2
  <1>11. PackOK(Q) /\ Sane(x, Q) /\ x.State \in {r.State, "EXIT"} /\ Len(Q) \in Nat /\ Len(P) \in Nat /\ n \in Int
    BY <1>6, <1>10, <1>n DEF SendInv, PackOK
  <1>12. /\ Differ(x, r, Sends \cup Tuned) /\ x.log = r.log /\ x.me = r.me /\ x.mid = r.mid
         /\ x.future = r.future /\ x.attempt = r.attempt /\ x.todo = r.todo
    BY <1>6, <1>10 DEF SendInv, Differ, Fields, Sends, Tuned
  <1>13. Sane(b, Q) /\ Moves(x, b, Q)
    <2>1. Differ(b, x, {"My_aru"}) /\ b.My_aru \in Int
      BY <1>11, <1>b, AdvanceFacts DEF Sane
    <2>2. /\ Differ(b, x, Tuned) /\ b.State = x.State /\ b.Highest_seq = x.Highest_seq /\ b.Aru = x.Aru
          /\ b.Last_num = x.Last_num /\ b.Last_token = x.Last_token
      BY <2>1 DEF Differ, Fields, Tuned
    <2>3. /\ x.Highest_seq \in Int /\ x.Aru \in Int /\ x.Last_num \in Int
          /\ DOMAIN x.Last_token = {"arq", "aru", "seq"} /\ x.Last_token.aru \in Int /\ x.Last_token.seq \in Int
      BY <1>11, TypedFacts DEF Sane, DaemonTyped
    <2>4. x.Highest_seq <= b.Highest_seq /\ b.State \in {x.State, "EXIT"}
      BY <2>2, <2>3
    <2> QED BY ONLY <1>11, <2>1, <2>2, <2>3, <2>4, Tune
  <1>14. Sane(c, Q) /\ Moves(b, c, Q)
    <2>1. Differ(c, b, {"My_aru", "Commit_set"}) /\ c.My_aru \in Int
      BY <1>13, <1>c, RecoveredFacts DEF Sane
    <2>2. /\ Differ(c, b, Tuned) /\ c.State = b.State /\ c.Highest_seq = b.Highest_seq /\ c.Aru = b.Aru
          /\ c.Last_num = b.Last_num /\ c.Last_token = b.Last_token
      BY <2>1 DEF Differ, Fields, Tuned
    <2>3. /\ b.Highest_seq \in Int /\ b.Aru \in Int /\ b.Last_num \in Int
          /\ DOMAIN b.Last_token = {"arq", "aru", "seq"} /\ b.Last_token.aru \in Int /\ b.Last_token.seq \in Int
      BY <1>13, TypedFacts DEF Sane, DaemonTyped
    <2> QED BY <1>13, <2>1, <2>2, <2>3, Tune
  <1>15. TokenTyped(token)
    <2> PICK num : num = ans.num + n
      OBVIOUS
    <2>1. num \in Int /\ DaemonTyped(b) /\ DaemonTyped(c)
      BY <1>8, <1>11, <1>13, <1>14 DEF Sane
    <2>2. LET v == TokenAru(c, t)
          IN  TokenTyped(PassedOn(c, t, v, num, ans.rtr \cup Requests(b, ans)))
      BY <1>8, <2>1, PassedOnTyped
    <2> QED BY <1>token, <2>2
  <1>16. Sane(e, Q) /\ Moves(c, e, Q)
    <2> PICK num : num = ans.num + n
      OBVIOUS
    <2>1. num \in Int /\ token.aru \in Int /\ token.seq \in Int
      BY <1>8, <1>11, <1>15 DEF TokenTyped
    <2>2. e = Noting(c, token, num)
      BY <1>e
    <2> QED BY ONLY <1>14, <2>1, <2>2, NotingFacts
  <1>17. Moves(x, e, Q) /\ IsSeq(x.log)
    <2>1. IsSeq(x.log) 
      BY <1>1, <1>12
    <2>2. Moves(x, c, Q)
      BY <1>13, <1>14, <2>1, MovesTwice
    <2> QED BY <1>16, <2>1, <2>2, MovesTwice
  <1>18. e.State # "DOWN"
    BY <1>11, <1>17 DEF Moves
  <1>19. (Sane(q, Q) /\ Moves(e, q, Q)) \/ Installs(e, q, Q)
    BY <1>q, <1>11, <1>16, <1>18, DeliveringFacts
  <1>20. (Sane(q, Q) /\ Moves(x, q, Q)) \/ Installs(x, q, Q)
    BY <1>17, <1>19, MovesTwice, InstallsMoves
  <1>21. q.me = x.me /\ q.Down = x.Down /\ q.todo = x.todo
    BY <1>20 DEF Moves, Installs, Differ, Fields, Moved, Handled, Tuned
  <1>22. Queue(q) = Queue(x) /\ Pending(q) = Pending(x) /\ Pending(a) = Pending(r)
    BY <1>6, <1>21 DEF Queue, Pending
  <1>23. Stays(r, q, Q) \/ Installs(r, q, Q)
    <2>1. CASE Sane(q, Q) /\ Moves(x, q, Q)
      <3>1. q.mid = x.mid /\ q.future = x.future /\ q.attempt = x.attempt
        BY <2>1 DEF Moves, Differ, Fields, Moved, Handled, Tuned
      <3> QED BY <1>11, <1>12, <2>1, <3>1 DEF Stays, Moves
    <2>2. CASE Installs(x, q, Q)
      <3>1. r.State = "EVS"
        BY <1>11, <2>2 DEF Installs
      <3>2. x = a
        BY <1>6, <1>9, <1>10, <3>1
      <3>3. q.Down = r.Down
        BY <1>6, <1>21, <3>2
      <3> QED BY <1>12, <2>2, <3>1, <3>3 DEF Installs
    <2> QED BY <1>20, <2>1, <2>2
  <1>24. Outcome(r, q, P, Q)
    BY <1>10, <1>12, <1>21, <1>22, <1>23 DEF Outcome, SendInv
  <1>25. res = [d |-> q, P |-> Q, sent |-> token,
                out |-> ans.out \cup {[seq |-> i, to |-> ring[c.mid]] : i \in Len(P) + 1 .. Len(Q)}]
    <2>1. a = [r EXCEPT !.Last_token.aru = IF r.Just_Installed THEN 0 ELSE @,
                       !.Just_Installed = FALSE, !.Highest_seq = Larger(@, t.seq)]
      BY <1>l, <1>h, <1>a
    <2>2. res = Turn(P, t, ans, new)
      BY <1>res, <1>ans, <1>allowed, <1>new, <2>1 DEF Prot_handle_token
    <2> QED BY <1>x, <1>b, <1>c, <1>n, <1>token, <1>e, <1>q, <2>2 DEF Turn, TurnEnd, Finish
  <1>26. \A k \in res.out : k.seq \in DOMAIN Q
    <2>1. \A k \in ans.out : k.seq \in DOMAIN P
      <3>1. \A k \in ans.out : Exist(a, k.seq) \in {1, 2}
        BY <1>ans DEF Answer_retrans
      <3>2. Here(a, P)
        BY <1>6, <1>7 DEF Sane, Fit
      <3> QED BY <3>1, <3>2 DEF Here
    <2>2. DOMAIN P \subseteq DOMAIN Q
      BY <1>24 DEF Outcome, Grown
    <2>3. \A i \in Len(P) + 1 .. Len(Q) : i \in DOMAIN Q
      BY <1>11 DEF PackOK
    <2> QED BY <1>25, <2>1, <2>2, <2>3
  <1> QED BY <1>res, <1>15, <1>24, <1>25, <1>26

-----------------------------------------------------------------------------
(* The other operations of a daemon *)

\* The session hands messages down.
LEMMA MessageDown ==
  ASSUME NEW r, NEW P, Sane(r, P), NEW k \in 0 .. Len(r.todo)
  PROVE  /\ Sane(Prot_new_message(r, k), P) /\ Differ(Prot_new_message(r, k), r, {"Down", "todo"})
         /\ Queue(Prot_new_message(r, k)) = Queue(r)
  <1> PICK q : q = Prot_new_message(r, k)
    OBVIOUS
  <1>1. DOMAIN r = Fields /\ r.Down \in Seq(Messages) /\ r.todo \in Seq(Messages)
    BY DEF Sane, DaemonTyped
  <1>2. /\ Differ(q, r, {"Down", "todo"}) /\ q.Down = r.Down \o SubSeq(r.todo, 1, k)
        /\ q.todo = SubSeq(r.todo, k + 1, Len(r.todo))
    BY <1>1 DEF Prot_new_message, Differ, Fields
  <1>3. q.Down \in Seq(Messages) /\ q.todo \in Seq(Messages) /\ q.Down \o q.todo = r.Down \o r.todo
    <2> PICK D, T : D = r.Down /\ T = r.todo
      OBVIOUS
    <2>1. D \in Seq(Messages) /\ T \in Seq(Messages) /\ k \in 0 .. Len(T)
      BY <1>1
    <2>2. /\ D \o SubSeq(T, 1, k) \in Seq(Messages) /\ SubSeq(T, k + 1, Len(T)) \in Seq(Messages)
          /\ (D \o SubSeq(T, 1, k)) \o SubSeq(T, k + 1, Len(T)) = D \o T
      BY ONLY <2>1, QueueSame, ZenonT(60)
    <2> QED BY <1>2, <2>2
  <1>4. /\ DOMAIN q = Fields /\ q.me = r.me /\ q.State = r.State /\ q.mid = r.mid /\ q.future = r.future
        /\ q.attempt = r.attempt /\ q.Last_token = r.Last_token /\ q.cur = r.cur /\ q.log = r.log
        /\ q.threshold = r.threshold /\ q.Packets = r.Packets /\ q.Highest_seq = r.Highest_seq
        /\ q.Last_delivered = r.Last_delivered /\ q.Last_discarded = r.Last_discarded
        /\ \A f \in Counters : q[f] = r[f]
    BY <1>2 DEF Differ, Fields, Counters
  <1>5. DaemonTyped(q)
    BY <1>3, <1>4 DEF Sane, DaemonTyped
  <1>6. q.State # "EXIT" => Fit(q, P)
    BY <1>4 DEF Sane, Fit, Unheard, Upto, Here, Passed, Known, Exist
  <1>7. Sane(q, P)
    BY <1>4, <1>5, <1>6 DEF Sane
  <1> QED BY <1>2, <1>3, <1>7 DEF Queue

\* Forgetting values that nobody reads leaves a sane daemon.
LEMMA ForgetFacts ==
  ASSUME NEW r, NEW P, Sane(r, P)
  PROVE  LET q == Forget(r)
         IN  /\ Sane(q, P)
             /\ q.me = r.me /\ q.State = r.State /\ q.mid = r.mid /\ q.Packets = r.Packets
             /\ q.Down = r.Down /\ q.todo = r.todo /\ q.log = r.log
             /\ r.State = "FORM" => q.attempt = r.attempt
             /\ r.State = "EVS" => q.future = r.future /\ q.attempt = r.attempt
  <1> PICK q : q = Forget(r)
    OBVIOUS
  <1>1. DOMAIN r = Fields /\ DaemonTyped(r)
    BY DEF Sane, DaemonTyped
  <1>2. 0 \in Rings
    BY ProtocolAssumption DEF Rings
  <1>3. /\ Differ(q, r, {"future", "attempt", "Last_seq", "Future_commit_set", "Last_num", "Last_token"})
        /\ q.future \in {r.future, 0} /\ q.attempt \in {r.attempt, 0} /\ q.Last_seq \in {r.Last_seq, 0}
        /\ q.Last_num \in {r.Last_num, 0} /\ q.Last_token \in {r.Last_token, [arq |-> 0, aru |-> 0, seq |-> 0]}
        /\ r.State = "FORM" => q.attempt = r.attempt
        /\ r.State = "EVS" => q.future = r.future /\ q.attempt = r.attempt
    <2>1. CASE r.State = "OP"
      BY <1>1, <2>1 DEF Forget, Differ, Fields
    <2>2. CASE r.State = "LOST"
      BY <1>1, <2>2 DEF Forget, Differ, Fields
    <2>3. CASE r.State = "FORM"
      BY <1>1, <2>3 DEF Forget, Differ, Fields
    <2>4. CASE r.State \notin {"OP", "LOST", "FORM"}
      <3>1. q = r
        BY <2>4 DEF Forget
      <3> QED BY <1>1, <2>4, <3>1 DEF Differ
    <2> QED BY <2>1, <2>2, <2>3, <2>4
  <1>4. /\ DOMAIN q = Fields /\ q.me = r.me /\ q.State = r.State /\ q.mid = r.mid /\ q.Packets = r.Packets
        /\ q.Down = r.Down /\ q.todo = r.todo /\ q.cur = r.cur /\ q.log = r.log
        /\ q.threshold = r.threshold /\ q.Highest_seq = r.Highest_seq /\ q.My_aru = r.My_aru /\ q.Aru = r.Aru
        /\ q.Last_delivered = r.Last_delivered /\ q.Last_discarded = r.Last_discarded
    BY <1>3 DEF Differ, Fields
  <1>5. DaemonTyped(q)
    <2>1. \A f \in Counters : q[f] \in Int
      <3>1. /\ r.Highest_seq \in Int /\ r.My_aru \in Int /\ r.Aru \in Int /\ r.Last_discarded \in Int
            /\ r.Last_delivered \in Int /\ r.Last_seq \in Int /\ r.Last_num \in Int
        BY ONLY <1>1, TypedFacts
      <3> QED BY ONLY <1>3, <1>4, <3>1 DEF Counters
    <2>2. q.future \in Rings /\ q.attempt \in Rings
      BY <1>1, <1>2, <1>3 DEF DaemonTyped
    <2>3. DOMAIN q.Last_token = {"arq", "aru", "seq"} /\ q.Last_token.aru \in Int /\ q.Last_token.seq \in Int
      <3> PICK l : l = [arq |-> 0, aru |-> 0, seq |-> 0]
        OBVIOUS
      <3>1. DOMAIN l = {"arq", "aru", "seq"} /\ l.aru \in Int /\ l.seq \in Int
        OBVIOUS
      <3>2. q.Last_token \in {r.Last_token, l}
        BY <1>3
      <3> QED BY <1>1, <3>1, <3>2 DEF DaemonTyped
    <2> QED BY <1>1, <1>4, <2>1, <2>2, <2>3 DEF DaemonTyped
  <1>6. q.State # "EXIT" => Fit(q, P)
    BY <1>4 DEF Sane, Fit, Unheard, Upto, Here, Passed, Known, Exist
  <1>7. Sane(q, P)
    BY <1>4, <1>5, <1>6 DEF Sane
  <1> QED BY <1>3, <1>4, <1>7

\* r is q after an operation that leaves its queues alone.
Works(r, q, P) ==
  /\ Sane(q, P) /\ q.me = r.me /\ q.mid = r.mid /\ q.Down = r.Down /\ q.todo = r.todo
  /\ Continues(r.log, q.log, P)

\* Work followed by deliveries is work.
LEMMA ChangesWorks ==
  ASSUME NEW r, NEW q, NEW u, NEW P, IsSeq(r.log), Works(r, q, P), Changes(q, u, P), Sane(u, P)
  PROVE  Works(r, u, P)
  <1>1. Continues(r.log, u.log, P)
    BY ContinuesTwice DEF Works, Changes
  <1> QED BY <1>1 DEF Works, Changes, Differ, Fields, Handled

\* A packet arrives.
LEMMA BcastFacts ==
  ASSUME NEW r, NEW P, NEW s \in DOMAIN P, PackOK(P), Sane(r, P), r.State \notin {"EXIT", "DOWN"}
  PROVE  LET q == Prot_handle_bcast(r, P, s)
         IN  /\ Works(r, q, P) /\ q.State \in {r.State, "EXIT"}
             /\ q.future = r.future /\ q.attempt = r.attempt
             /\ r.State = "FORM" => \A x : Exist(q, x) = 2 => Exist(r, x) = 2
  <1> PICK q : q = Prot_handle_bcast(r, P, s)
    OBVIOUS
  <1>1. /\ DOMAIN r = Fields /\ DaemonTyped(r) /\ r.Highest_seq \in Int /\ s \in Int /\ IsSeq(r.log)
        /\ Continues(r.log, r.log, P) /\ Fit(r, P) /\ r.Last_discarded \in Int /\ r.Last_delivered \in Int
    BY TypedFacts, ContinuesSame DEF Sane, Good, PackOK, DaemonTyped
  <1>2. CASE s <= r.Last_discarded \/ Exist(r, s) # 0
    <2>1. q = r
      BY <1>2 DEF Prot_handle_bcast
    <2> QED BY <1>1, <2>1 DEF Works
  <1>3. CASE ~(s <= r.Last_discarded) /\ Exist(r, s) = 0
    <2> PICK h : h = Larger(r.Highest_seq, s)
      OBVIOUS
    <2>n. PICK n : n = [SetExist(r, s, 1) EXCEPT !.Highest_seq = h]
      OBVIOUS
    <2>1. h \in Int /\ r.Highest_seq <= h /\ s <= h
      BY <1>1 DEF Larger
    <2>2. /\ Differ(n, r, {"Packets", "Highest_seq"}) /\ n.Highest_seq = h
          /\ Exist(n, s) = 1 /\ \A x : x # s => Exist(n, x) = Exist(r, x)
      BY <1>1, <2>n DEF SetExist, Exist, Differ, Fields
    <2>3. /\ DOMAIN n = Fields /\ n.me = r.me /\ n.State = r.State /\ n.mid = r.mid /\ n.future = r.future
          /\ n.attempt = r.attempt /\ n.Last_token = r.Last_token /\ n.cur = r.cur /\ n.log = r.log
          /\ n.threshold = r.threshold /\ n.Down = r.Down /\ n.todo = r.todo
          /\ n.Last_delivered = r.Last_delivered /\ n.Last_discarded = r.Last_discarded
          /\ \A f \in Counters \ {"Highest_seq"} : n[f] = r[f]
      BY <2>2 DEF Differ, Fields, Counters
    <2>4. DaemonTyped(n)
      <3>1. \A f \in Counters : n[f] \in Int
        BY <1>1, <2>1, <2>2, <2>3 DEF DaemonTyped
      <3> QED BY <1>1, <2>3, <3>1 DEF DaemonTyped
    <2>5. Fit(n, P)
      <3>1. Unheard(n, P, n.Last_discarded)
        BY <1>1, <1>3, <2>2, <2>3 DEF Fit, Unheard
      <3>2. Here(n, P)
        BY <1>1, <2>2 DEF Fit, Here
      <3>3. Passed(n)
        BY <1>1, <1>3, <2>2, <2>3 DEF Fit, Passed
      <3>4. Known(n)
        BY <1>1, <1>3, <2>1, <2>2, <2>3 DEF Fit, Known
      <3> QED BY <1>1, <2>3, <3>1, <3>2, <3>3, <3>4 DEF Fit
    <2>6. Sane(n, P) /\ Works(r, n, P)
      BY <1>1, <2>3, <2>4, <2>5 DEF Sane, Works
    <2>7. q = Deliver_agreed_packets(Advance(n), P) \/ q = Deliver_reliable_packets(n, P, s, 1)
      <3>1. SetExist(r, s, 1).Highest_seq = r.Highest_seq
        BY <1>1, ExistSet DEF Differ, Fields
      <3>2. n = [SetExist(r, s, 1) EXCEPT !.Highest_seq = Larger(@, s)]
        BY <2>n, <3>1
      <3> QED BY <1>3, <3>2 DEF Prot_handle_bcast
    <2>8. r.State = "FORM" => \A x : Exist(n, x) = 2 => Exist(r, x) = 2
      <3>1. ASSUME NEW x, Exist(n, x) = 2 PROVE Exist(r, x) = 2
        <4>1. x # s
          BY <2>2, <3>1
        <4> QED BY <2>2, <3>1, <4>1
      <3> QED BY <3>1
    <2>9. CASE q = Deliver_reliable_packets(n, P, s, 1)
      <3>1. /\ Sane(q, P) /\ Changes(n, q, P) /\ (n.State # "OP" => q = n)
        BY <1>1, <2>3, <2>6, <2>9, ReliableDelivery
      <3>2. Works(r, q, P)
        BY <1>1, <2>6, <3>1, ChangesWorks
      <3>3. q.future = n.future /\ q.attempt = n.attempt /\ q.State \in {r.State, "EXIT"}
        BY <2>3, <3>1 DEF Changes, Differ, Fields, Handled
      <3> QED BY <2>3, <2>8, <3>1, <3>2, <3>3
    <2>10. CASE q = Deliver_agreed_packets(Advance(n), P)
      <3> PICK m : m = Advance(n)
        OBVIOUS
      <3>1. Differ(m, n, {"My_aru"}) /\ m.My_aru \in Int
        BY <2>4, AdvanceFacts
      <3>2. /\ Differ(m, n, Tuned) /\ m.State = n.State /\ m.Highest_seq = n.Highest_seq /\ m.Aru = n.Aru
            /\ m.Last_num = n.Last_num /\ m.Last_token = n.Last_token /\ m.log = n.log /\ m.Packets = n.Packets
            /\ m.me = n.me /\ m.mid = n.mid /\ m.Down = n.Down /\ m.todo = n.todo
            /\ m.future = n.future /\ m.attempt = n.attempt
        BY <3>1 DEF Differ, Fields, Tuned
      <3>3. /\ n.Highest_seq \in Int /\ n.Aru \in Int /\ n.Last_num \in Int
            /\ DOMAIN n.Last_token = {"arq", "aru", "seq"} /\ n.Last_token.aru \in Int /\ n.Last_token.seq \in Int
        BY <2>4, TypedFacts DEF DaemonTyped
      <3>4. Sane(m, P) /\ Moves(n, m, P)
        <4>1. n.Highest_seq <= m.Highest_seq /\ m.State \in {n.State, "EXIT"}
          BY <3>2, <3>3
        <4> QED BY ONLY <2>6, <3>1, <3>2, <3>3, <4>1, Tune
      <3>5. Works(r, m, P)
        BY <2>6, <3>2, <3>4 DEF Works
      <3>6. Sane(q, P) /\ Changes(m, q, P) /\ (m.State # "OP" => q = m)
        BY <2>3, <2>10, <3>2, <3>4, AgreedDelivery
      <3>7. Works(r, q, P)
        BY <1>1, <3>5, <3>6, ChangesWorks
      <3>8. q.future = m.future /\ q.attempt = m.attempt /\ q.State \in {r.State, "EXIT"}
        BY <2>3, <3>2, <3>6 DEF Changes, Differ, Fields, Handled
      <3>9. \A x : Exist(m, x) = Exist(n, x)
        BY <3>2 DEF Exist
      <3> QED BY <2>3, <2>8, <3>2, <3>6, <3>7, <3>8, <3>9
    <2> QED BY <2>7, <2>9, <2>10
  <1> QED BY <1>2, <1>3

\* The group layer is ready.
LEMMA DeliverAllFacts ==
  ASSUME NEW r, NEW P, PackOK(P), Sane(r, P), r.State = "OP"
  PROVE  Works(r, DeliverAll(r, P), P) /\ DeliverAll(r, P).State \in {"OP", "EXIT"}
  <1>t. PICK t : t = [r EXCEPT !.threshold = Unreliable]
    OBVIOUS
  <1>u. PICK u : u = Deliver_reliable_packets(t, P, 1, t.Highest_seq)
    OBVIOUS
  <1>q. PICK q : q = Deliver_agreed_packets(u, P)
    OBVIOUS
  <1>1. /\ DOMAIN r = Fields /\ DaemonTyped(r) /\ IsSeq(r.log) /\ Continues(r.log, r.log, P)
    BY ContinuesSame DEF Sane, Good, DaemonTyped
  <1>2. Differ(t, r, {"threshold"})
    BY <1>1, <1>t DEF Differ, Fields
  <1>3. /\ DOMAIN t = Fields /\ t.me = r.me /\ t.State = r.State /\ t.mid = r.mid /\ t.future = r.future
        /\ t.attempt = r.attempt /\ t.Last_token = r.Last_token /\ t.cur = r.cur /\ t.log = r.log
        /\ t.Down = r.Down /\ t.todo = r.todo /\ t.Packets = r.Packets /\ t.Highest_seq = r.Highest_seq
        /\ t.Last_delivered = r.Last_delivered /\ t.Last_discarded = r.Last_discarded
        /\ \A f \in Counters : t[f] = r[f]
    BY <1>2 DEF Differ, Fields, Counters
  <1>4. DaemonTyped(t) /\ t.Highest_seq \in Int
    <2>1. DaemonTyped(t)
      BY <1>1, <1>3 DEF DaemonTyped
    <2> QED BY <2>1, TypedFacts
  <1>5. t.State # "EXIT" => Fit(t, P)
    BY <1>3 DEF Sane, Fit, Unheard, Upto, Here, Passed, Known, Exist
  <1>6. Sane(t, P) /\ Works(r, t, P)
    BY <1>1, <1>3, <1>4, <1>5 DEF Sane, Works
  <1>7. Sane(u, P) /\ Changes(t, u, P)
    <2> PICK h : h = t.Highest_seq
      OBVIOUS
    <2>1. t.State # "DOWN" /\ h \in Int /\ 1 \in Int /\ u = Deliver_reliable_packets(t, P, 1, h)
      BY <1>3, <1>4, <1>u
    <2> QED BY <1>6, <2>1, ReliableDelivery
  <1>8. u.State \in {"OP", "EXIT"} /\ Works(r, u, P)
    BY <1>1, <1>3, <1>6, <1>7, ChangesWorks DEF Changes
  <1>9. Sane(q, P) /\ Changes(u, q, P)
    <2>1. u.State # "DOWN"
      BY <1>8
    <2> QED BY <1>7, <1>q, <2>1, AgreedDelivery
  <1>10. q.State \in {"OP", "EXIT"} /\ Works(r, q, P)
    BY <1>1, <1>8, <1>9, ChangesWorks DEF Changes
  <1>11. q = DeliverAll(r, P)
    BY <1>t, <1>u, <1>q DEF DeliverAll
  <1> QED BY <1>10, <1>11

\* Fields that neither deliveries nor the log depend on.
LEMMA Reset ==
  ASSUME NEW r, NEW q, NEW P, Sane(r, P), DaemonTyped(q), r.State # "EXIT",
         q.log = r.log, q.Last_discarded = r.Last_discarded, q.Last_delivered = r.Last_delivered,
         \A s : Exist(q, s) = Exist(r, s) \/ (Exist(r, s) # 2 /\ Exist(q, s) \notin {1, 2}),
         q.State # "OP", \A s \in Int : Exist(q, s) = 2 => s <= q.Highest_seq
  PROVE  Sane(q, P)
  <1>1. Fit(r, P) /\ Good(r.log, P) /\ Passed(r)
    BY DEF Sane, Fit
  <1>2. Unheard(q, P, q.Last_discarded)
    BY <1>1 DEF Fit, Unheard
  <1>3. Here(q, P)
    BY <1>1 DEF Fit, Here
  <1>4. Known(q)
    BY DEF Known
  <1>5. Passed(q)
    BY <1>1 DEF Passed
  <1>6. Fit(q, P)
    BY <1>1, <1>2, <1>3, <1>4, <1>5 DEF Fit
  <1> QED BY <1>1, <1>6 DEF Sane

\* Memb_token_loss leaves a sane daemon in LOST, with its queue blocked.
LEMMA LossFacts ==
  ASSUME NEW r, NEW P, Sane(r, P), r.State \in {"OP", "FORM", "EVS"}
  PROVE  /\ Works(r, Memb_token_loss(r), P) /\ Memb_token_loss(r).State = "LOST"
  <1>k. PICK K : K = [i \in {j \in DOMAIN r.Packets : r.Packets[j] # 3} |-> r.Packets[i]]
    OBVIOUS
  <1>c. PICK c : c = [r EXCEPT !.Packets = K, !.Aru = r.Last_discarded, !.My_aru = r.Last_discarded]
    OBVIOUS
  <1>b. PICK b : b = IF r.State = "EVS" THEN Advance(c) ELSE r
    OBVIOUS
  <1>l. PICK l : l = [arq |-> 0, aru |-> 0, seq |-> 0]
    OBVIOUS
  <1>q. PICK q : q = [b EXCEPT !.State = "LOST", !.threshold = Block, !.Just_Installed = FALSE, !.Last_token = l]
    OBVIOUS
  <1>1. /\ DOMAIN r = Fields /\ DaemonTyped(r) /\ IsSeq(r.log) /\ Continues(r.log, r.log, P) /\ Fit(r, P)
        /\ r.Last_discarded \in Int /\ r.Highest_seq \in Int /\ r.Aru \in Int /\ r.My_aru \in Int
    BY ContinuesSame, TypedFacts DEF Sane, Good, DaemonTyped
  <1>2. /\ Differ(c, r, {"Packets", "Aru", "My_aru"}) /\ c.Packets = K
        /\ c.Aru = r.Last_discarded /\ c.My_aru = r.Last_discarded
    BY <1>1, <1>c DEF Differ, Fields
  <1>3. /\ DOMAIN c = Fields /\ c.me = r.me /\ c.State = r.State /\ c.mid = r.mid /\ c.future = r.future
        /\ c.attempt = r.attempt /\ c.Last_token = r.Last_token /\ c.cur = r.cur /\ c.log = r.log
        /\ c.threshold = r.threshold /\ c.Down = r.Down /\ c.todo = r.todo /\ c.Highest_seq = r.Highest_seq
        /\ c.Last_delivered = r.Last_delivered /\ c.Last_discarded = r.Last_discarded
        /\ \A f \in Counters \ {"Aru", "My_aru"} : c[f] = r[f]
    BY <1>2 DEF Differ, Fields, Counters
  <1>4. DaemonTyped(c)
    <2>1. \A f \in Counters : c[f] \in Int
      BY <1>1, <1>2, <1>3 DEF DaemonTyped
    <2> QED BY <1>1, <1>3, <2>1 DEF DaemonTyped
  <1>5. \A s : Exist(c, s) = Exist(r, s) \/ (Exist(r, s) = 3 /\ Exist(c, s) = 0)
    <2>1. \A s : /\ s \in DOMAIN K <=> s \in DOMAIN r.Packets /\ r.Packets[s] # 3
                 /\ s \in DOMAIN K => K[s] = r.Packets[s]
      BY <1>k
    <2> QED BY <1>2, <2>1 DEF Exist
  <1>6. /\ Differ(b, r, {"Packets", "Aru", "My_aru"}) /\ DaemonTyped(b)
        /\ \A s : Exist(b, s) = Exist(r, s) \/ (Exist(r, s) = 3 /\ Exist(b, s) = 0)
    <2>1. CASE r.State = "EVS"
      <3>1. b = Advance(c)
        BY <1>b, <2>1
      <3>2. Differ(b, c, {"My_aru"}) /\ b.My_aru \in Int
        BY <1>4, <3>1, AdvanceFacts
      <3>3. /\ DOMAIN b = Fields /\ \A f \in Fields \ {"My_aru"} : b[f] = c[f]
        BY <3>2 DEF Differ
      <3>4. b.Packets = c.Packets /\ \A f \in Counters : b[f] \in Int
        BY <1>4, <3>2, <3>3 DEF Fields, Counters, DaemonTyped
      <3>5. DaemonTyped(b)
        <4>1. /\ b.me = c.me /\ b.State = c.State /\ b.mid = c.mid /\ b.future = c.future
              /\ b.attempt = c.attempt /\ b.Last_token = c.Last_token /\ b.cur = c.cur
              /\ b.threshold = c.threshold /\ b.Down = c.Down /\ b.todo = c.todo
          BY <3>3 DEF Fields
        <4> QED BY <1>4, <3>3, <3>4, <4>1 DEF DaemonTyped
      <3>6. Differ(b, r, {"Packets", "Aru", "My_aru"})
        BY <1>2, <3>2 DEF Differ
      <3>7. \A s : Exist(b, s) = Exist(c, s)
        BY <3>4 DEF Exist
      <3> QED BY <1>5, <3>5, <3>6, <3>7
    <2>2. CASE r.State # "EVS"
      BY <1>1, <1>b, <2>2 DEF Differ
    <2> QED BY <2>1, <2>2
  <1>7. /\ Differ(q, b, {"State", "threshold", "Just_Installed", "Last_token"}) /\ q.State = "LOST"
        /\ q.threshold = Block /\ q.Last_token = l
    BY <1>6, <1>q DEF Differ, Fields
  <1>8. /\ DOMAIN q = Fields /\ q.me = b.me /\ q.mid = b.mid /\ q.future = b.future /\ q.attempt = b.attempt
        /\ q.cur = b.cur /\ q.log = b.log /\ q.Down = b.Down /\ q.todo = b.todo /\ q.Highest_seq = b.Highest_seq
        /\ q.Last_delivered = b.Last_delivered /\ q.Last_discarded = b.Last_discarded /\ q.Packets = b.Packets
        /\ \A f \in Counters : q[f] = b[f]
    BY <1>7 DEF Differ, Fields, Counters
  <1>9. /\ b.me = r.me /\ b.mid = r.mid /\ b.log = r.log /\ b.Down = r.Down /\ b.todo = r.todo
        /\ b.Highest_seq = r.Highest_seq
        /\ b.Last_delivered = r.Last_delivered /\ b.Last_discarded = r.Last_discarded
    BY <1>6 DEF Differ, Fields
  <1>10. DaemonTyped(q)
    <2>1. DOMAIN l = {"arq", "aru", "seq"} /\ l.aru \in Int /\ l.seq \in Int
      BY <1>l
    <2> QED BY <1>6, <1>7, <1>8, <2>1 DEF DaemonTyped
  <1>11. \A s : Exist(q, s) = Exist(b, s)
    BY <1>8 DEF Exist
  <1>12. \A s \in Int : Exist(q, s) = 2 => s <= q.Highest_seq
    BY <1>1, <1>6, <1>8, <1>9, <1>11 DEF Fit, Known
  <1>13. Sane(q, P)
    <2>1. \A s : Exist(q, s) = Exist(r, s) \/ (Exist(r, s) # 2 /\ Exist(q, s) \notin {1, 2})
      BY <1>6, <1>11
    <2>2. /\ q.log = r.log /\ q.Last_discarded = r.Last_discarded /\ q.Last_delivered = r.Last_delivered
          /\ q.State # "OP"
      BY <1>7, <1>8, <1>9
    <2>3. r.State # "EXIT"
      OBVIOUS
    <2> QED BY ONLY Sane(r, P), <1>10, <1>12, <2>1, <2>2, <2>3, Reset
  <1>14. Works(r, q, P)
    BY <1>1, <1>8, <1>9, <1>13 DEF Works
  <1>15. q = Memb_token_loss(r)
    <2>1. c = [r EXCEPT !.Packets = [i \in {j \in DOMAIN @ : @[j] # 3} |-> @[i]],
                       !.Aru = r.Last_discarded, !.My_aru = r.Last_discarded]
      BY <1>k, <1>c
    <2>2. Backoff_membership(r) = Advance(c)
      BY <2>1 DEF Backoff_membership
    <2>3. b = IF r.State = "EVS" THEN Backoff_membership(r) ELSE r
      BY <1>b, <2>2
    <2> QED BY <1>l, <1>q, <2>3 DEF Memb_token_loss
  <1> QED BY <1>7, <1>14, <1>15

\* The rings on a form token.
RingTyped(t) == \A g \in t.rings : g.aru \in Int /\ g.highest \in Int
\* What r has delivered is none of the holes on the form token t.
HolesOf(r, t) ==
  /\ \E g \in t.rings : g.mid = r.mid
  /\ \A g \in t.rings : g.mid = r.mid =>
       \A s \in Int : Exist(r, s) = 2 => s \notin g.holes /\ s <= g.highest

\* What a daemon writes in the form token lists the packets it lacks, and keeps what others wrote.
LEMMA FillRingFacts ==
  ASSUME NEW r, NEW P, NEW t, NEW v, Sane(r, P), r.State # "EXIT", RingTyped(t), v.rings = FillRing(r, t.rings)
  PROVE  /\ RingTyped(v) /\ HolesOf(r, v)
         /\ \A u : HolesOf(u, t) => HolesOf(u, v)
  <1> DEFINE old == {g \in t.rings : g.mid = r.mid}
             Missing(set) == {i \in set : Exist(r, i) = 0}
             mine == [mid |-> r.mid, aru |-> r.Aru, highest |-> r.Highest_seq,
                      holes |-> Missing(r.Last_discarded + 1 .. r.Highest_seq),
                      trans |-> {r.me}, commit |-> {r.me} \cup r.Commit_set.commit]
             Both(g) == [mid |-> r.mid, aru |-> Larger(g.aru, r.Aru),
                         highest |-> Larger(g.highest, r.Highest_seq),
                         holes |-> Missing(g.holes \cup (g.highest + 1 .. r.Highest_seq)),
                         trans |-> g.trans \cup {r.me},
                         commit |-> g.commit \cup mine.commit]
  <1>1. /\ r.Aru \in Int /\ r.Highest_seq \in Int /\ Known(r)
    BY TypedFacts DEF Sane, Fit
  <1>2. /\ v.rings = (t.rings \ old) \cup (IF old = {} THEN {mine} ELSE {Both(g) : g \in old})
    BY DEF FillRing
  <1>3. /\ mine.mid = r.mid /\ mine.aru = r.Aru /\ mine.highest = r.Highest_seq
        /\ \A s : s \in mine.holes => Exist(r, s) = 0
    OBVIOUS
  <1>4. ASSUME NEW g \in old
        PROVE  /\ Both(g).mid = r.mid /\ Both(g).aru \in Int /\ Both(g).highest \in Int
               /\ r.Highest_seq <= Both(g).highest /\ g.highest <= Both(g).highest
               /\ \A s : s \in Both(g).holes => Exist(r, s) = 0 /\ (s \in g.holes \/ (s \in Int /\ s > g.highest))
    <2>1. g.aru \in Int /\ g.highest \in Int
      BY DEF RingTyped
    <2> QED BY <1>1, <2>1 DEF Larger
  <1>5. \A h \in v.rings : \/ h \in t.rings /\ h.mid # r.mid
                           \/ old = {} /\ h = mine
                           \/ \E g \in old : h = Both(g)
    <2> HIDE DEF mine, Both
    <2> QED BY <1>2
  <1>6. \E h \in v.rings : h.mid = r.mid
    <2> HIDE DEF mine, Both
    <2>1. CASE old = {}
      BY <1>2, <1>3, <2>1
    <2>2. CASE old # {}
      <3>1. PICK g \in old : TRUE
        BY <2>2
      <3>2. Both(g) \in v.rings
        BY <1>2, <2>2
      <3> QED BY <1>4, <3>2
    <2> QED BY <2>1, <2>2
  <1>7. \A h \in t.rings : h.mid # r.mid => h \in v.rings
    <2> HIDE DEF mine, Both
    <2> QED BY <1>2
  <1>8. \A g \in t.rings : g.mid = r.mid => g \in old
    OBVIOUS
  <1>9. \A g \in old : g \in t.rings /\ g.mid = r.mid
    OBVIOUS
  <1> HIDE DEF old, mine, Both, Missing
  <1>10. RingTyped(v)
    BY <1>1, <1>3, <1>4, <1>5 DEF RingTyped
  <1>11. HolesOf(r, v)
    <2> SUFFICES ASSUME NEW h \in v.rings, h.mid = r.mid, NEW s \in Int, Exist(r, s) = 2
                 PROVE  s \notin h.holes /\ s <= h.highest
      BY <1>6 DEF HolesOf
    <2>1. s <= r.Highest_seq
      BY <1>1 DEF Known
    <2>2. CASE h = mine
      BY <1>3, <2>1, <2>2
    <2>3. ASSUME NEW g \in old, h = Both(g) PROVE s \notin h.holes /\ s <= h.highest
      BY <1>1, <1>4, <2>1, <2>3
    <2> QED BY <1>5, <2>2, <2>3
  <1>12. ASSUME NEW u, HolesOf(u, t) PROVE HolesOf(u, v)
    <2>1. \E h \in v.rings : h.mid = u.mid
      BY <1>6, <1>7, <1>12 DEF HolesOf
    <2> SUFFICES ASSUME NEW h \in v.rings, h.mid = u.mid, NEW s \in Int, Exist(u, s) = 2
                 PROVE  s \notin h.holes /\ s <= h.highest
      BY <2>1 DEF HolesOf
    <2>2. CASE h \in t.rings
      BY <1>12, <2>2 DEF HolesOf
    <2>3. CASE old = {} /\ h = mine
      <3>1. u.mid = r.mid
        BY <1>3, <2>3
      <3> QED BY <1>8, <1>12, <2>3, <3>1 DEF HolesOf
    <2>4. ASSUME NEW g \in old, h = Both(g) PROVE s \notin h.holes /\ s <= h.highest
      <3>1. g \in t.rings /\ g.mid = u.mid /\ g.highest \in Int
        BY <1>4, <1>9, <2>4 DEF RingTyped
      <3>2. s \notin g.holes /\ s <= g.highest
        BY <1>12, <3>1 DEF HolesOf
      <3> QED BY <1>4, <2>4, <3>1, <3>2
    <2> QED BY <1>5, <2>2, <2>3, <2>4
  <1> QED BY <1>10, <1>11, <1>12

FormTyped(t) == DOMAIN t = {"wait", "stage", "seq", "rings"} /\ t.seq \in Int /\ RingTyped(t)

\* Create_form1 and Fill_form1
LEMMA FillFacts ==
  ASSUME NEW r, NEW P, NEW i \in Rings, NEW t, Sane(r, P), r.State \in {"OP", "LOST"}, FormTyped(t)
  PROVE  LET res == Fill_form1(r, i, t)
         IN  /\ Works(r, res.d, P) /\ res.d.State = "FORM" /\ res.d.attempt = i
             /\ FormTyped(res.t) /\ res.t.wait = t.wait \ {r.me} /\ res.t.stage = t.stage
             /\ HolesOf(res.d, res.t) /\ \A u : HolesOf(u, t) => HolesOf(u, res.t)
  <1>q. PICK q : q = [r EXCEPT !.State = "FORM", !.threshold = Block, !.attempt = i]
    OBVIOUS
  <1>s. PICK s : s = Larger(t.seq, r.Highest_seq + 3333)
    OBVIOUS
  <1>g. PICK rings : rings = FillRing(r, t.rings)
    OBVIOUS
  <1>v. PICK v : v = [t EXCEPT !.wait = @ \ {r.me}, !.seq = s, !.rings = rings]
    OBVIOUS
  <1>1. /\ DOMAIN r = Fields /\ DaemonTyped(r) /\ IsSeq(r.log) /\ Continues(r.log, r.log, P) /\ Fit(r, P)
        /\ r.Highest_seq \in Int
    BY ContinuesSame, TypedFacts DEF Sane, Good, DaemonTyped
  <1>2. DOMAIN t = {"wait", "stage", "seq", "rings"} /\ t.seq \in Int /\ RingTyped(t)
    BY DEF FormTyped
  <1>3. s \in Int
    BY <1>1, <1>2, <1>s DEF Larger
  <1>4. /\ DOMAIN v = {"wait", "stage", "seq", "rings"} /\ v.seq = s /\ v.rings = rings /\ v.stage = t.stage
        /\ v.wait = t.wait \ {r.me}
    BY <1>2, <1>v
  <1>5. RingTyped(v) /\ HolesOf(r, v) /\ \A u : HolesOf(u, t) => HolesOf(u, v)
    <2>1. v.rings = FillRing(r, t.rings) /\ r.State # "EXIT"
      BY <1>4, <1>g
    <2> QED BY <1>2, <2>1, FillRingFacts
  <1>6. Differ(q, r, {"State", "threshold", "attempt"}) /\ q.State = "FORM" /\ q.threshold = Block /\ q.attempt = i
    BY <1>1, <1>q DEF Differ, Fields
  <1>7. /\ DOMAIN q = Fields /\ q.me = r.me /\ q.mid = r.mid /\ q.future = r.future /\ q.Last_token = r.Last_token
        /\ q.cur = r.cur /\ q.log = r.log /\ q.Down = r.Down /\ q.todo = r.todo /\ q.Highest_seq = r.Highest_seq
        /\ q.Last_delivered = r.Last_delivered /\ q.Last_discarded = r.Last_discarded /\ q.Packets = r.Packets
        /\ \A f \in Counters : q[f] = r[f]
    BY <1>6 DEF Differ, Fields, Counters
  <1>8. DaemonTyped(q)
    BY <1>1, <1>6, <1>7 DEF DaemonTyped
  <1>9. \A x : Exist(q, x) = Exist(r, x)
    BY <1>7 DEF Exist
  <1>10. Sane(q, P)
    <2>1. \A x \in Int : Exist(q, x) = 2 => x <= q.Highest_seq
      BY <1>1, <1>7, <1>9 DEF Fit, Known
    <2> QED BY <1>6, <1>7, <1>8, <1>9, <2>1, Reset
  <1>11. Works(r, q, P)
    BY <1>1, <1>7, <1>10 DEF Works
  <1>12. HolesOf(q, v)
    BY <1>5, <1>7, <1>9 DEF HolesOf
  <1>13. FormTyped(v)
    BY <1>3, <1>4, <1>5 DEF FormTyped
  <1>14. Fill_form1(r, i, t) = [d |-> q, t |-> v]
    BY <1>q, <1>s, <1>g, <1>v DEF Fill_form1
  <1> QED BY <1>4, <1>5, <1>6, <1>11, <1>12, <1>13, <1>14

\* Read_form2 marks the holes of the old membership, and leaves the other packets.
LEMMA MarkFacts ==
  ASSUME NEW r, NEW holes, DOMAIN r = Fields
  PROVE  /\ Differ(MarkHoles(r, holes), r, {"Packets"})
         /\ \A s : Exist(MarkHoles(r, holes), s) = IF s \in holes THEN 3 ELSE Exist(r, s)
  <1> DEFINE K == [s \in DOMAIN r.Packets \cup holes |-> IF s \in holes THEN 3 ELSE r.Packets[s]]
  <1> PICK q : q = MarkHoles(r, holes)
    OBVIOUS
  <1>1. Differ(q, r, {"Packets"}) /\ q.Packets = K
    BY DEF MarkHoles, Differ, Fields
  <1>2. \A s : /\ s \in DOMAIN K <=> (s \in holes \/ s \in DOMAIN r.Packets)
               /\ s \in holes => K[s] = 3
               /\ s \notin holes /\ s \in DOMAIN r.Packets => K[s] = r.Packets[s]
    OBVIOUS
  <1> HIDE DEF K
  <1> QED BY <1>1, <1>2 DEF Exist

\* Read_form2
LEMMA ReadFacts ==
  ASSUME NEW r, NEW P, NEW i \in Rings, NEW t, PackOK(P), Sane(r, P), r.State = "FORM", FormTyped(t), HolesOf(r, t)
  PROVE  LET q == Read_form2(r, P, i, t)
         IN  Works(r, q, P) /\ (q.State = "EXIT" \/ (q.State = "EVS" /\ q.future = i))
  <1>g. PICK g : g = CHOOSE h \in t.rings : h.mid = r.mid
    OBVIOUS
  <1>e. PICK e : e = [r EXCEPT !.Highest_seq = g.highest, !.Aru = g.aru]
    OBVIOUS
  <1>a. PICK a : a = Discard_packets(e, P)
    OBVIOUS
  <1>m. PICK m : m = MarkHoles(a, g.holes)
    OBVIOUS
  <1>f. PICK f : f = [trans |-> g.trans, commit |-> g.commit]
    OBVIOUS
  <1>l. PICK l : l = [arq |-> 0, aru |-> 0, seq |-> 0]
    OBVIOUS
  <1>n. PICK n : n = [m EXCEPT !.State = "EVS", !.future = i, !.Last_seq = t.seq, !.Aru = 0,
                       !.Future_commit_set = f, !.Last_num = 0, !.Last_token = l]
    OBVIOUS
  <1>q. PICK q : q = Read_form2(r, P, i, t)
    OBVIOUS
  <1>1. /\ DOMAIN r = Fields /\ DaemonTyped(r) /\ IsSeq(r.log) /\ Continues(r.log, r.log, P) /\ Fit(r, P)
        /\ r.My_aru \in Int /\ r.Last_num \in Int
        /\ DOMAIN r.Last_token = {"arq", "aru", "seq"} /\ r.Last_token.aru \in Int /\ r.Last_token.seq \in Int
    BY ContinuesSame, TypedFacts DEF Sane, Good, DaemonTyped
  <1>2. /\ g.aru \in Int /\ g.highest \in Int /\ \A s \in Int : Exist(r, s) = 2 => s \notin g.holes /\ s <= g.highest
    <2>1. g \in t.rings /\ g.mid = r.mid
      BY <1>g DEF HolesOf
    <2> QED BY <2>1 DEF HolesOf, FormTyped, RingTyped
  <1>3. Differ(e, r, {"Highest_seq", "Aru"}) /\ e.Highest_seq = g.highest /\ e.Aru = g.aru
    BY <1>1, <1>e DEF Differ, Fields
  <1>4. /\ Differ(e, r, Tuned) /\ e.State = "FORM" /\ e.My_aru = r.My_aru /\ e.Last_num = r.Last_num
        /\ e.Last_token = r.Last_token /\ e.log = r.log /\ e.Packets = r.Packets
        /\ e.me = r.me /\ e.mid = r.mid /\ e.Down = r.Down /\ e.todo = r.todo
    BY <1>3 DEF Differ, Fields, Tuned
  <1>5. \A s : Exist(e, s) = Exist(r, s)
    BY <1>4 DEF Exist
  <1>6. Sane(e, P) /\ Works(r, e, P)
    <2>1. Known(e)
      BY <1>2, <1>3, <1>4, <1>5 DEF Known
    <2>2. /\ e.State \in {r.State, "EXIT"} /\ e.Highest_seq \in Int /\ e.My_aru \in Int /\ e.Aru \in Int
          /\ e.Last_num \in Int /\ DOMAIN e.Last_token = {"arq", "aru", "seq"} /\ e.Last_token.aru \in Int
          /\ e.Last_token.seq \in Int
      BY <1>1, <1>2, <1>3, <1>4
    <2>3. Sane(e, P)
      BY ONLY Sane(r, P), <1>4, <2>1, <2>2, TuneKnown
    <2> QED BY <1>1, <1>4, <2>3 DEF Works
  <1>7. Sane(a, P) /\ Changes(e, a, P) /\ \A s : Exist(a, s) \in {0, Exist(e, s)}
    <2>1. e.State # "DOWN" /\ e.State # "EVS"
      BY <1>4
    <2>2. \/ Sane(a, P) /\ Changes(e, a, P) /\ (e.State = "FORM" => \A s : Exist(a, s) \in {0, Exist(e, s)})
          \/ Installs(e, a, P)
      BY <1>6, <1>a, <2>1, Discarding
    <2> QED BY <1>4, <2>1, <2>2 DEF Installs
  <1>8. Works(r, a, P)
    BY <1>1, <1>6, <1>7, ChangesWorks
  <1>9. DOMAIN a = Fields /\ DaemonTyped(a) /\ IsSeq(a.log)
    BY <1>7 DEF Sane, DaemonTyped, Good
  <1>10. \/ q = Exit(a)
         \/ q = n /\ a.State # "EXIT"
    BY <1>g, <1>e, <1>a, <1>m, <1>f, <1>l, <1>n, <1>q DEF Read_form2
  <1>11. CASE q = Exit(a)
    <2>1. Sane(q, P) /\ Differ(q, a, {"State"}) /\ q.State = "EXIT"
      BY <1>7, <1>11, SaneExit
    <2>2. q.me = a.me /\ q.mid = a.mid /\ q.Down = a.Down /\ q.todo = a.todo /\ q.log = a.log
      BY <2>1 DEF Differ, Fields
    <2>3. Works(r, q, P)
      BY <1>8, <2>1, <2>2 DEF Works
    <2> QED BY <1>q, <2>1, <2>3
  <1>12. CASE q = n /\ a.State # "EXIT"
    <2>1. /\ Differ(m, a, {"Packets"})
          /\ \A s : Exist(m, s) = IF s \in g.holes THEN 3 ELSE Exist(a, s)
      BY <1>9, <1>m, MarkFacts
    <2>2. /\ Differ(n, m, {"State", "future", "Last_seq", "Aru", "Future_commit_set", "Last_num", "Last_token"})
          /\ n.State = "EVS" /\ n.future = i /\ n.Last_seq = t.seq /\ n.Aru = 0 /\ n.Last_num = 0 /\ n.Last_token = l
      BY <1>n, <2>1 DEF Differ, Fields
    <2>3. /\ Differ(n, a, {"State", "Packets", "future", "Last_seq", "Aru", "Future_commit_set", "Last_num", "Last_token"})
          /\ n.Packets = m.Packets
      BY <2>1, <2>2 DEF Differ, Fields
    <2>4. /\ DOMAIN n = Fields /\ n.me = a.me /\ n.mid = a.mid /\ n.attempt = a.attempt /\ n.threshold = a.threshold
          /\ n.cur = a.cur /\ n.log = a.log /\ n.Down = a.Down /\ n.todo = a.todo /\ n.Highest_seq = a.Highest_seq
          /\ n.Last_delivered = a.Last_delivered /\ n.Last_discarded = a.Last_discarded /\ n.My_aru = a.My_aru
      BY <2>3 DEF Differ, Fields
    <2>5. \A s : Exist(n, s) = IF s \in g.holes THEN 3 ELSE Exist(a, s)
      BY <2>1, <2>3 DEF Exist
    <2>6. DaemonTyped(n)
      <3>1. \A x \in Counters : n[x] \in Int
        <4>1. /\ a.Highest_seq \in Int /\ a.My_aru \in Int /\ a.Last_discarded \in Int /\ a.Last_delivered \in Int
              /\ t.seq \in Int
          BY <1>9, TypedFacts DEF FormTyped
        <4> QED BY ONLY <2>2, <2>4, <4>1 DEF Counters
      <3>2. DOMAIN l = {"arq", "aru", "seq"} /\ l.aru \in Int /\ l.seq \in Int
        BY <1>l
      <3> QED BY <1>9, <2>2, <2>4, <3>1, <3>2 DEF DaemonTyped
    <2>7. Sane(n, P)
      <3>1. \A s : Exist(n, s) = Exist(a, s) \/ (Exist(a, s) # 2 /\ Exist(n, s) \notin {1, 2})
        <4>1. Here(r, P)
          BY <1>1 DEF Fit
        <4>2. DOMAIN P \subseteq Int
          BY DEF PackOK
        <4>3. \A s : Exist(r, s) = 2 => s \notin g.holes
          BY <1>2, <4>1, <4>2 DEF Here
        <4> QED BY <1>5, <1>7, <2>5, <4>3
      <3>2. \A s \in Int : Exist(n, s) = 2 => s <= n.Highest_seq
        <4>1. Known(a)
          BY <1>7, <1>12 DEF Sane, Fit
        <4> QED BY <2>4, <2>5, <4>1 DEF Known
      <3>3. n.State # "OP" /\ a.State # "EXIT"
        BY <1>12, <2>2
      <3> QED BY ONLY <1>7, <2>4, <2>6, <3>1, <3>2, <3>3, Reset
    <2>8. Works(r, n, P)
      BY <1>8, <2>4, <2>7 DEF Works
    <2> QED BY <1>12, <1>q, <2>2, <2>8
  <1> QED BY <1>10, <1>11, <1>12

-----------------------------------------------------------------------------
(* The logs and the memberships *)

\* Position x of a log belongs to membership i.
Within(log, x, i) ==
  \/ i = 0 /\ \A z \in DOMAIN log : z < x => log[z][1] # "reg"
  \/ i # 0 /\ \E z \in DOMAIN log : /\ z < x /\ log[z] = <<"reg", i>>
                                    /\ \A w \in DOMAIN log : z < w /\ w < x => log[w][1] # "reg"
Entered(log, i) == \E x \in DOMAIN log : log[x] = <<"reg", i>>
Pre(log, i, j) == \E x, y \in DOMAIN log : x < y /\ log[x] = <<"reg", i>> /\ log[y] = <<"reg", j>>

\* A log tells each message once, in the membership and in the order of its
\* packet; K[i] are the packets of membership i.
LogFine(log, mid, K) ==
  /\ IsSeq(log) /\ NoRepeat(log) /\ Pairs(log)
  /\ \A i \in Rings : InOrder(log, K[i])
  /\ Within(log, Len(log) + 1, mid)
  /\ \A x \in DOMAIN log, i \in Rings : log[x][1] = "msg" /\ log[x][2] \in Contents(K[i]) => Within(log, x, i)
  /\ \A m \in Told(log) : \E i \in Rings : m \in Contents(K[i])

\* A log that continues another one: what it tells, and which memberships it enters.
LEMMA ContinuesFacts ==
  ASSUME NEW a, NEW b, NEW P, IsSeq(a), Continues(a, b, P)
  PROVE  /\ IsSeq(b) /\ DOMAIN a \subseteq DOMAIN b /\ \A x \in DOMAIN a : b[x] = a[x]
         /\ \A x \in DOMAIN a, y \in DOMAIN b \ DOMAIN a : x < y
         /\ \A x \in DOMAIN b \ DOMAIN a : b[x][1] # "reg" /\ (b[x][1] = "msg" => b[x][2] \in Contents(P))
         /\ Told(a) \subseteq Told(b) /\ Told(b) \subseteq Told(a) \cup Contents(P)
         /\ \A i : Entered(b, i) <=> Entered(a, i)
         /\ \A i, j : Pre(b, i, j) <=> Pre(a, i, j)
  <1>1. /\ IsSeq(b) /\ Len(a) \in Nat /\ Len(b) \in Nat /\ Len(a) <= Len(b)
        /\ DOMAIN a = 1 .. Len(a) /\ DOMAIN b = 1 .. Len(b)
    BY SeqFacts DEF Continues
  <1>2. DOMAIN a \subseteq DOMAIN b /\ \A x \in DOMAIN a : b[x] = a[x]
    BY <1>1 DEF Continues
  <1>3. \A x \in DOMAIN a, y \in DOMAIN b \ DOMAIN a : x < y
    BY <1>1
  <1>4. ASSUME NEW x \in DOMAIN b \ DOMAIN a
        PROVE  b[x][1] # "reg" /\ (b[x][1] = "msg" => b[x][2] \in Contents(P))
    <2>m. PICK m : m = b[x][2]
      OBVIOUS
    <2>1. (b[x] = <<"msg", m>> /\ m \in Contents(P)) \/ b[x] = <<"trans", m>>
      BY <2>m DEF Continues
    <2>2. (b[x][1] = "msg" /\ m \in Contents(P)) \/ b[x][1] = "trans"
      BY <2>1
    <2> QED BY <2>m, <2>2
  <1>5. Told(a) \subseteq Told(b) /\ Told(b) \subseteq Told(a) \cup Contents(P)
    BY <1>2, <1>4 DEF Told
  <1>6. \A x \in DOMAIN b : \A i : b[x] = <<"reg", i>> => x \in DOMAIN a /\ a[x] = <<"reg", i>>
    <2> SUFFICES ASSUME NEW x \in DOMAIN b, NEW i, b[x] = <<"reg", i>> PROVE x \in DOMAIN a /\ a[x] = <<"reg", i>>
      OBVIOUS
    <2>1. b[x][1] = "reg"
      OBVIOUS
    <2> QED BY <1>2, <1>4, <2>1
  <1>7. \A i : Entered(b, i) <=> Entered(a, i)
    BY <1>2, <1>6 DEF Entered
  <1>8. \A i, j : Pre(b, i, j) <=> Pre(a, i, j)
    BY <1>2, <1>6 DEF Pre
  <1> QED BY <1>1, <1>2, <1>3, <1>4, <1>5, <1>7, <1>8

\* A membership is installed: what the log tells and enters then.
LEMMA EntersFacts ==
  ASSUME NEW a, NEW k, IsSeq(a)
  PROVE  LET b == Append(a, <<"reg", k>>)
         IN  /\ IsSeq(b) /\ DOMAIN b = DOMAIN a \cup {Len(a) + 1} /\ Len(b) = Len(a) + 1
             /\ \A x \in DOMAIN a : b[x] = a[x] /\ x < Len(a) + 1
             /\ b[Len(a) + 1] = <<"reg", k>> /\ Len(a) + 1 \notin DOMAIN a /\ Len(a) \in Nat
             /\ Told(b) = Told(a)
             /\ \A i : Entered(b, i) <=> (Entered(a, i) \/ i = k)
             /\ \A i, j : Pre(b, i, j) <=> (Pre(a, i, j) \/ (j = k /\ Entered(a, i)))
  <1>e. PICK e : e = <<"reg", k>>
    OBVIOUS
  <1>b. PICK b : b = Append(a, e)
    OBVIOUS
  <1>z. PICK z : z = Len(a) + 1
    OBVIOUS
  <1>1. /\ IsSeq(b) /\ DOMAIN b = DOMAIN a \cup {z} /\ Len(b) = z /\ \A x \in DOMAIN a : b[x] = a[x]
        /\ b[z] = e /\ z \notin DOMAIN a
    <2>1. b = a \o <<e>>
      BY <1>b, AppendFacts
    <2>2. /\ IsSeq(a \o <<e>>) /\ Len(a \o <<e>>) = z /\ \A x \in DOMAIN a : (a \o <<e>>)[x] = a[x]
          /\ (a \o <<e>>)[z] = e /\ DOMAIN (a \o <<e>>) = DOMAIN a \cup {z} /\ z \notin DOMAIN a
      BY ONLY AppendFacts, <1>z, IsSeq(a)
    <2> QED BY ONLY <2>1, <2>2
  <1>2. (\A x \in DOMAIN a : x < z) /\ Len(a) \in Nat /\ ~(z < z) /\ \A x \in DOMAIN a : ~(z < x)
    BY <1>z, SeqFacts
  <1>3. e[1] = "reg" /\ \A i : e = <<"reg", i>> <=> i = k
    BY <1>e
  <1>4. Told(b) = Told(a)
    BY <1>1, <1>3 DEF Told
  <1>5. \A i : Entered(b, i) <=> (Entered(a, i) \/ i = k)
    BY <1>1, <1>3 DEF Entered
  <1>6. \A i, j : Pre(b, i, j) <=> (Pre(a, i, j) \/ (j = k /\ Entered(a, i)))
    BY <1>1, <1>2, <1>3 DEF Pre, Entered
  <1> QED BY <1>1, <1>2, <1>4, <1>5, <1>6, <1>b, <1>e, <1>z

-----------------------------------------------------------------------------
(* A log stays fine *)

\* Packets are added that carry no message told.
LEMMA FineGrown ==
  ASSUME NEW log, NEW mid, NEW K, NEW j \in Rings, NEW P, NEW Y, DOMAIN K = Rings,
         LogFine(log, mid, K), Grown(K[j], P, Y), Y \cap Told(log) = {}
  PROVE  LogFine(log, mid, [K EXCEPT ![j] = P])
  <1>n. PICK N : N = [K EXCEPT ![j] = P]
    OBVIOUS
  <1>1. N[j] = P /\ \A i \in Rings : i # j => N[i] = K[i]
    BY <1>n
  <1>2. Good(log, P)
    <2>1. Good(log, K[j])
      BY DEF LogFine, Good
    <2> QED BY <2>1, GoodGrown
  <1>3. \A m \in Told(log) : m \in Contents(P) <=> m \in Contents(K[j])
    BY DEF Grown, Contents
  <1>4. \A i \in Rings : InOrder(log, N[i])
    BY <1>1, <1>2 DEF Good, LogFine
  <1>5. \A i \in Rings : \A m \in Told(log) : m \in Contents(N[i]) <=> m \in Contents(K[i])
    BY <1>1, <1>3
  <1>6. ASSUME NEW x \in DOMAIN log, NEW i \in Rings, log[x][1] = "msg", log[x][2] \in Contents(N[i])
        PROVE  Within(log, x, i)
    <2>1. log[x][2] \in Told(log)
      BY <1>6 DEF Told
    <2> QED BY <1>5, <1>6, <2>1 DEF LogFine
  <1>7. \A m \in Told(log) : \E i \in Rings : m \in Contents(N[i])
    BY <1>5 DEF LogFine
  <1>8. LogFine(log, mid, N)
    BY <1>4, <1>6, <1>7 DEF LogFine
  <1> QED BY <1>8, <1>n

\* The same positions are in the same memberships, and new ones in the last.
LEMMA WithinContinues ==
  ASSUME NEW a, NEW b, NEW P, NEW mid, IsSeq(a), Continues(a, b, P), Within(a, Len(a) + 1, mid)
  PROVE  /\ \A x \in DOMAIN a : \A i : Within(a, x, i) => Within(b, x, i)
         /\ \A x \in DOMAIN b \ DOMAIN a : Within(b, x, mid)
         /\ Within(b, Len(b) + 1, mid)
  <1>1. /\ DOMAIN a \subseteq DOMAIN b /\ \A x \in DOMAIN a : b[x] = a[x]
        /\ \A x \in DOMAIN b \ DOMAIN a : b[x][1] # "reg"
    BY ContinuesFacts
  <1>2. /\ Len(a) \in Nat /\ Len(b) \in Nat /\ Len(a) <= Len(b)
        /\ DOMAIN a = 1 .. Len(a) /\ DOMAIN b = 1 .. Len(b)
    BY SeqFacts DEF Continues
  <1>3. ASSUME NEW x \in DOMAIN a, NEW i, Within(a, x, i) PROVE Within(b, x, i)
    <2>1. \A z \in DOMAIN b : z < x => z \in DOMAIN a
      BY <1>2
    <2> QED BY <1>1, <1>3, <2>1 DEF Within
  <1>4. ASSUME NEW x \in Int, Len(a) < x PROVE Within(b, x, mid)
    <2>1. \A z \in DOMAIN a : z < Len(a) + 1 /\ z < x
      BY <1>2, <1>4
    <2>2. CASE mid = 0
      <3>1. \A z \in DOMAIN b : b[z][1] # "reg"
        BY <1>1, <2>1, <2>2 DEF Within
      <3> QED BY <2>2, <3>1 DEF Within
    <2>3. CASE mid # 0
      <3>1. PICK z \in DOMAIN a : /\ a[z] = <<"reg", mid>>
                                  /\ \A w \in DOMAIN a : z < w => a[w][1] # "reg"
        BY <2>1, <2>3 DEF Within
      <3>2. z \in DOMAIN b /\ b[z] = <<"reg", mid>> /\ z < x /\ \A w \in DOMAIN b : z < w => b[w][1] # "reg"
        BY <1>1, <2>1, <3>1
      <3> QED BY <2>3, <3>2 DEF Within
    <2> QED BY <2>2, <2>3
  <1>5. \A x \in DOMAIN b \ DOMAIN a : x \in Int /\ Len(a) < x
    BY <1>2
  <1>6. Len(b) + 1 \in Int /\ Len(a) < Len(b) + 1
    BY <1>2
  <1> QED BY <1>3, <1>4, <1>5, <1>6

\* The log goes on with messages and signals of its membership.
LEMMA FineContinues ==
  ASSUME NEW a, NEW b, NEW mid \in Rings, NEW K, LogFine(a, mid, K), Continues(a, b, K[mid]), Good(b, K[mid]),
         \A i, j \in Rings : i # j => Contents(K[i]) \cap Contents(K[j]) = {}
  PROVE  LogFine(b, mid, K)
  <1>1. IsSeq(a) /\ Within(a, Len(a) + 1, mid)
    BY DEF LogFine
  <1>2. /\ DOMAIN a \subseteq DOMAIN b /\ \A x \in DOMAIN a : b[x] = a[x]
        /\ \A x \in DOMAIN b \ DOMAIN a : b[x][1] = "msg" => b[x][2] \in Contents(K[mid])
        /\ Told(b) \subseteq Told(a) \cup Contents(K[mid])
    BY <1>1, ContinuesFacts
  <1>3. /\ \A x \in DOMAIN a : \A i : Within(a, x, i) => Within(b, x, i)
        /\ \A x \in DOMAIN b \ DOMAIN a : Within(b, x, mid)
        /\ Within(b, Len(b) + 1, mid)
    BY <1>1, WithinContinues
  <1>4. ASSUME NEW x \in DOMAIN b, NEW i \in Rings, b[x][1] = "msg", b[x][2] \in Contents(K[i])
        PROVE  (x \in DOMAIN a \/ i = mid) /\ Within(b, x, i)
    <2>1. CASE x \in DOMAIN a
      <3>1. Within(a, x, i)
        BY <1>2, <1>4, <2>1 DEF LogFine
      <3> QED BY <1>3, <2>1, <3>1
    <2>2. CASE x \notin DOMAIN a
      <3>1. i = mid
        BY <1>2, <1>4, <2>2
      <3> QED BY <1>3, <2>2, <3>1
    <2> QED BY <2>1, <2>2
  <1>5. ASSUME NEW i \in Rings PROVE InOrder(b, K[i])
    <2>1. CASE i = mid
      BY <2>1 DEF Good
    <2>2. CASE i # mid
      <3>1. InOrder(a, K[i])
        BY DEF LogFine
      <3>2. \A x \in DOMAIN b : \A s \in DOMAIN K[i] : b[x][1] = "msg" /\ b[x][2] \in Carried(K[i][s]) =>
              x \in DOMAIN a /\ b[x] = a[x]
        BY <1>2, <1>4, <2>2 DEF Contents
      <3> QED BY <3>1, <3>2 DEF InOrder
    <2> QED BY <2>1, <2>2
  <1>6. \A m \in Told(b) : \E i \in Rings : m \in Contents(K[i])
    BY <1>2 DEF LogFine
  <1>7. \A x \in DOMAIN b, i \in Rings : b[x][1] = "msg" /\ b[x][2] \in Contents(K[i]) => Within(b, x, i)
    BY <1>4
  <1>8. IsSeq(b) /\ NoRepeat(b) /\ Pairs(b)
    BY DEF Good
  <1>9. \A i \in Rings : InOrder(b, K[i])
    BY <1>5
  <1> QED BY ONLY <1>3, <1>6, <1>7, <1>8, <1>9 DEF LogFine

\* The membership k is installed.
LEMMA FineEnters ==
  ASSUME NEW a, NEW mid, NEW k \in Rings \ {0}, NEW K, LogFine(a, mid, K)
  PROVE  LogFine(Append(a, <<"reg", k>>), k, K)
  <1>e. PICK e : e = <<"reg", k>>
    OBVIOUS
  <1>b. PICK b : b = Append(a, e)
    OBVIOUS
  <1>z. PICK z : z = Len(a) + 1
    OBVIOUS
  <1>1. IsSeq(a) /\ NoRepeat(a) /\ Pairs(a)
    BY DEF LogFine
  <1>2. /\ IsSeq(b) /\ DOMAIN b = DOMAIN a \cup {z} /\ Len(b) = z /\ z \in Int
        /\ \A x \in DOMAIN a : b[x] = a[x] /\ x < z /\ ~(z < x)
        /\ b[z] = e /\ z \notin DOMAIN a /\ Told(b) = Told(a)
    <2>1. /\ IsSeq(Append(a, <<"reg", k>>)) /\ DOMAIN Append(a, <<"reg", k>>) = DOMAIN a \cup {Len(a) + 1}
          /\ Len(Append(a, <<"reg", k>>)) = Len(a) + 1
          /\ \A x \in DOMAIN a : Append(a, <<"reg", k>>)[x] = a[x] /\ x < Len(a) + 1
          /\ Append(a, <<"reg", k>>)[Len(a) + 1] = <<"reg", k>> /\ Len(a) + 1 \notin DOMAIN a /\ Len(a) \in Nat
          /\ Told(Append(a, <<"reg", k>>)) = Told(a)
      BY ONLY <1>1, EntersFacts
    <2>2. \A x \in DOMAIN a : x \in Int
      BY <1>1, SeqFacts
    <2>3. /\ IsSeq(b) /\ DOMAIN b = DOMAIN a \cup {z} /\ Len(b) = z
          /\ \A x \in DOMAIN a : b[x] = a[x] /\ x < z
          /\ b[z] = e /\ z \notin DOMAIN a /\ Told(b) = Told(a) /\ Len(a) \in Nat
      BY ONLY <1>b, <1>e, <1>z, <2>1
    <2>4. z \in Int
      BY <1>z, <2>3
    <2>5. \A x \in DOMAIN a : ~(z < x)
      BY ONLY <2>2, <2>3, <2>4
    <2> QED BY ONLY <2>3, <2>4, <2>5
  <1>3. e[1] = "reg" /\ e = <<e[1], e[2]>> /\ e[1] # "msg"
    BY <1>e
  <1>4. NoRepeat(b) /\ Pairs(b)
    BY <1>1, <1>2, <1>3 DEF NoRepeat, Pairs
  <1>5. ASSUME NEW i \in Rings PROVE InOrder(b, K[i])
    <2>1. InOrder(a, K[i])
      BY DEF LogFine
    <2> QED BY <1>2, <1>3, <2>1 DEF InOrder
  <1>6. \A x \in DOMAIN a : \A i : Within(a, x, i) => Within(b, x, i)
    BY <1>2 DEF Within
  <1>7. \A x \in DOMAIN b, i \in Rings : b[x][1] = "msg" /\ b[x][2] \in Contents(K[i]) => Within(b, x, i)
    BY <1>2, <1>3, <1>6 DEF LogFine
  <1>8. Within(b, Len(b) + 1, k)
    <2>1. z < z + 1 /\ \A w \in DOMAIN b : ~(z < w)
      BY <1>2
    <2>2. k # 0 /\ z \in DOMAIN b /\ b[z] = <<"reg", k>>
      BY <1>2, <1>e
    <2> QED BY <1>2, <2>1, <2>2 DEF Within
  <1>9. LogFine(b, k, K)
    <2>1. \A m \in Told(b) : \E i \in Rings : m \in Contents(K[i])
      BY <1>2 DEF LogFine
    <2>2. \A i \in Rings : InOrder(b, K[i])
      BY <1>5
    <2> QED BY ONLY <1>2, <1>4, <1>7, <1>8, <2>1, <2>2 DEF LogFine
  <1> QED BY <1>9, <1>b, <1>e

-----------------------------------------------------------------------------
(* A step of one daemon, r before it and q after it.  S are the packets of its *)
(* membership before and P after the step, R those of the membership it may    *)
(* install.                                                                    *)

Lives(r, q, P) == Sane(q, P) /\ q.mid = r.mid /\ Continues(r.log, q.log, P)
Enters(r, q, P, R) ==
  /\ r.State = "EVS" /\ q.State \in {"OP", "EXIT"} /\ q.mid = r.future /\ Sane(q, R)
  /\ \E log : Continues(r.log, log, P) /\ Good(log, P) /\ q.log = Append(log, <<"reg", r.future>>)
Packs(r, q, S, P) ==
  /\ PackOK(P) /\ Grown(S, P, Pending(r) \ Pending(q)) /\ Pending(q) \subseteq Pending(r)
  /\ NoDup(Queue(q)) /\ Pending(q) \cap Contents(P) = {} /\ q.me = r.me
Step(r, q, S, P, R) == Packs(r, q, S, P) /\ (Lives(r, q, P) \/ Enters(r, q, P, R))

\* Who installs a membership has told none of its messages.
LEMMA InstallsEnters ==
  ASSUME NEW r, NEW q, NEW P, NEW R, Installs(r, q, P), IsSeq(r.log), PackOK(R),
         Contents(R) \cap Told(r.log) = {}, Contents(R) \cap Contents(P) = {}
  PROVE  Enters(r, q, P, R)
  <1>k. PICK k : k = r.future
    OBVIOUS
  <1>1. PICK log : Continues(r.log, log, P) /\ Good(log, P) /\ q.log = Append(log, <<"reg", k>>)
    BY <1>k DEF Installs
  <1>e. PICK e : e = <<"reg", k>>
    OBVIOUS
  <1>2. Told(log) \cap Contents(R) = {}
    BY <1>1, ContinuesFacts
  <1>3. Good(q.log, P) /\ Told(q.log) = Told(log)
    <2>1. e = <<e[1], e[2]>> /\ e[1] # "msg"
      BY <1>e
    <2>2. Good(log \o <<e>>, P) /\ Told(log \o <<e>>) = Told(log)
      BY <1>1, <2>1, GoodEvent
    <2>3. q.log = log \o <<e>>
      <3>1. IsSeq(log) /\ q.log = Append(log, e)
        BY <1>1, <1>e DEF Good
      <3>2. Append(log, e) = log \o <<e>>
        BY ONLY <3>1, AppendFacts
      <3> QED BY ONLY <3>1, <3>2
    <2> QED BY ONLY <2>2, <2>3
  <1>4. \A x \in DOMAIN q.log : q.log[x][1] = "msg" => q.log[x][2] \notin Contents(R)
    BY <1>2, <1>3 DEF Told
  <1>5. \A m \in Told(q.log) : \A s \in DOMAIN R : m \notin Carried(R[s])
    BY <1>2, <1>3 DEF Contents
  <1>6. InOrder(q.log, R)
    BY <1>4 DEF InOrder, Contents
  <1>7. Good(q.log, R)
    BY <1>3, <1>6 DEF Good
  <1>8. /\ DaemonTyped(q) /\ \A s : Exist(q, s) = 0
        /\ q.Last_discarded = 0 /\ q.Last_delivered = 0
    BY DEF Installs
  <1>9. Fit(q, R)
    <2>1. Unheard(q, R, q.Last_discarded) /\ Upto(q.log, R, q.Last_delivered)
      BY <1>5 DEF Unheard, Upto
    <2>2. Here(q, R) /\ Passed(q) /\ Known(q)
      BY <1>8 DEF Here, Passed, Known
    <2> QED BY <1>8, <2>1, <2>2 DEF Fit
  <1>10. Sane(q, R)
    BY <1>7, <1>8, <1>9 DEF Sane
  <1> QED BY <1>1, <1>10, <1>k DEF Enters, Installs

\* The outcome of a token, when the values nobody reads are forgotten.
LEMMA OutcomeStep ==
  ASSUME NEW o, NEW r, NEW u, NEW S, NEW P, NEW R, Outcome(r, u, S, P), Sane(r, S),
         Differ(r, o, {"Down", "todo"}), Queue(r) = Queue(o), PackOK(R),
         u.mid # r.mid => Contents(R) \cap Told(r.log) = {} /\ Contents(R) \cap Contents(P) = {},
         Installs(r, u, P) => u.mid # r.mid, r.State \in {"OP", "EVS"}
  PROVE  LET q == Forget(u)
         IN  /\ Step(o, q, S, P, R) /\ q.State \in {"OP", "EVS", "EXIT"}
             /\ q.State = "EVS" => o.State = "EVS" /\ q.future = o.future
  <1>q. PICK q : q = Forget(u)
    OBVIOUS
  <1>1. /\ o.me = r.me /\ o.mid = r.mid /\ o.log = r.log /\ o.State = r.State /\ o.future = r.future
        /\ Pending(o) = Pending(r) /\ IsSeq(r.log)
    BY DEF Differ, Fields, Pending, Sane, Good
  <1>2. Lives(r, u, P) \/ Enters(r, u, P, R)
    <2>1. CASE Stays(r, u, P)
      BY <2>1 DEF Stays, Lives
    <2>2. CASE Installs(r, u, P)
      BY <1>1, <2>2, InstallsEnters
    <2> QED BY <2>1, <2>2 DEF Outcome
  <1>3. PICK X : Sane(u, X) /\ (Lives(r, u, P) \/ Enters(r, u, P, R)) /\ (Lives(r, u, P) => X = P) /\ (~Lives(r, u, P) => X = R)
    <2>1. CASE Lives(r, u, P)
      BY <2>1 DEF Lives
    <2>2. CASE ~Lives(r, u, P)
      BY <1>2, <2>2 DEF Enters
    <2> QED BY <2>1, <2>2
  <1>4. /\ Sane(q, X) /\ q.me = u.me /\ q.State = u.State /\ q.mid = u.mid /\ q.Down = u.Down
        /\ q.todo = u.todo /\ q.log = u.log /\ (u.State = "EVS" => q.future = u.future)
    BY <1>3, <1>q, ForgetFacts
  <1>5. Queue(q) = Queue(u) /\ Pending(q) = Pending(u)
    BY <1>4 DEF Queue, Pending
  <1>6. Packs(o, q, S, P)
    BY <1>1, <1>4, <1>5 DEF Outcome, Packs
  <1>7. Lives(o, q, P) \/ Enters(o, q, P, R)
    <2>1. CASE Lives(r, u, P)
      BY <1>1, <1>3, <1>4, <2>1 DEF Lives
    <2>2. CASE ~Lives(r, u, P)
      BY <1>1, <1>3, <1>4, <2>2 DEF Enters
    <2> QED BY <2>1, <2>2
  <1>8. u.State \in {"OP", "EVS", "EXIT"} /\ (u.State = "EVS" => r.State = "EVS" /\ u.future = r.future)
    BY DEF Outcome, Stays, Installs
  <1>9. q.State \in {"OP", "EVS", "EXIT"} /\ (q.State = "EVS" => o.State = "EVS" /\ q.future = o.future)
    BY <1>1, <1>4, <1>8
  <1> QED BY <1>6, <1>7, <1>9, <1>q DEF Step

\* A step that packs nothing.
LEMMA WorksStep ==
  ASSUME NEW r, NEW q, NEW P, NEW R, PackOK(P), Works(r, q, P), NoDup(Queue(r)), Pending(r) \cap Contents(P) = {}
  PROVE  Step(r, q, P, P, R)
  <1>1. Queue(q) = Queue(r) /\ Pending(q) = Pending(r)
    BY DEF Works, Queue, Pending
  <1>2. Grown(P, P, Pending(r) \ Pending(q))
    BY DEF Grown
  <1> QED BY <1>1, <1>2 DEF Works, Step, Packs, Lives

\* The same, when the values nobody reads are forgotten.
LEMMA WorksForget ==
  ASSUME NEW r, NEW q, NEW P, Works(r, q, P)
  PROVE  Works(r, Forget(q), P)
  <1>u. PICK u : u = Forget(q)
    OBVIOUS
  <1>1. Sane(u, P) /\ u.me = q.me /\ u.mid = q.mid /\ u.Down = q.Down /\ u.todo = q.todo /\ u.log = q.log
    BY <1>u, ForgetFacts DEF Works
  <1>2. Works(r, u, P)
    BY <1>1 DEF Works
  <1> QED BY <1>2, <1>u

-----------------------------------------------------------------------------
(* The daemons D, the packets K of the memberships and the form tokens F *)

\* The form token of attempt i may still reach p; r waits for the membership i
\* or recovers for it; p may still install it.
Fillable(F, p, i) == F[i].stage = 0 \/ (F[i].stage = 1 /\ p \in F[i].wait)
Joining(r, i) == (r.State = "FORM" /\ r.attempt = i) \/ (r.State = "EVS" /\ r.future = i)
Ahead(D, F, p, i) == i # 0 /\ (Fillable(F, p, i) \/ Joining(D[p], i))

Shape(D, K) ==
  /\ DOMAIN D = Procs /\ DOMAIN K = Rings /\ K = [i \in Rings |-> K[i]] /\ \A i \in Rings : PackOK(K[i])
  /\ \A p \in Procs : D[p].me = p /\ D[p].mid \in Rings /\ Sane(D[p], K[D[p].mid])
\* Every message is in one packet, or waits at one daemon.
Queues(D, K) ==
  /\ \A p \in Procs : NoDup(Queue(D[p])) /\ \A i \in Rings : Pending(D[p]) \cap Contents(K[i]) = {}
  /\ \A p, q \in Procs : p # q => Pending(D[p]) \cap Pending(D[q]) = {}
  /\ \A i, j \in Rings : i # j => Contents(K[i]) \cap Contents(K[j]) = {}
\* What waits has been told by nobody, and what is packed in a membership by
\* nobody who may still install it.
Untold(D, K, F) ==
  /\ \A p, q \in Procs : Pending(D[q]) \cap Told(D[p].log) = {}
  /\ \A p \in Procs, i \in Rings : Ahead(D, F, p, i) => Contents(K[i]) \cap Told(D[p].log) = {}
Logs(D, K) == \A p \in Procs : LogFine(D[p].log, D[p].mid, K)
Data(D, K, F) == Shape(D, K) /\ Queues(D, K) /\ Untold(D, K, F) /\ Logs(D, K)

\* More packets carry what the old ones did, and what is new.
LEMMA GrownContents ==
  ASSUME NEW S, NEW P, NEW Y, Grown(S, P, Y)
  PROVE  Contents(S) \subseteq Contents(P) /\ Contents(P) \subseteq Contents(S) \cup Y
  <1>1. \A s \in DOMAIN P : s \in DOMAIN S \/ Carried(P[s]) \subseteq Y
    BY DEF Grown
  <1>2. \A s \in DOMAIN S : s \in DOMAIN P /\ P[s] = S[s]
    BY DEF Grown
  <1> QED BY <1>1, <1>2 DEF Contents

\* A step tells what its membership carries.
LEMMA StepTold ==
  ASSUME NEW r, NEW q, NEW S, NEW P, NEW R, Step(r, q, S, P, R), IsSeq(r.log)
  PROVE  Told(q.log) \subseteq Told(r.log) \cup Contents(P)
  <1>1. CASE Lives(r, q, P)
    BY <1>1, ContinuesFacts DEF Lives
  <1>2. CASE Enters(r, q, P, R)
    <2>k. PICK k : k = r.future
      OBVIOUS
    <2>1. PICK log : Continues(r.log, log, P) /\ Good(log, P) /\ q.log = Append(log, <<"reg", k>>)
      BY <1>2, <2>k DEF Enters
    <2>2. Told(log) \subseteq Told(r.log) \cup Contents(P)
      BY <2>1, ContinuesFacts
    <2>3. Told(Append(log, <<"reg", k>>)) = Told(log)
      BY <2>1, EntersFacts DEF Good
    <2> QED BY ONLY <2>1, <2>2, <2>3
  <1> QED BY <1>1, <1>2 DEF Step

\* A log stays fine over a step.
LEMMA StepLog ==
  ASSUME NEW r, NEW q, NEW K, NEW P, DOMAIN K = Rings, r.mid \in Rings,
         Step(r, q, K[r.mid], P, K[r.future]), LogFine(r.log, r.mid, K),
         (Pending(r) \ Pending(q)) \cap Told(r.log) = {},
         r.State = "EVS" => r.future \in Rings \ {0},
         \A i, j \in Rings : i # j => Contents([K EXCEPT ![r.mid] = P][i]) \cap Contents([K EXCEPT ![r.mid] = P][j]) = {}
  PROVE  LogFine(q.log, q.mid, [K EXCEPT ![r.mid] = P])
  <1>n. PICK N : N = [K EXCEPT ![r.mid] = P]
    OBVIOUS
  <1>1. N[r.mid] = P
    BY <1>n
  <1>2. LogFine(r.log, r.mid, N)
    BY <1>n, FineGrown DEF Step, Packs
  <1>3. \A i, j \in Rings : i # j => Contents(N[i]) \cap Contents(N[j]) = {}
    BY <1>n
  <1>4. CASE Lives(r, q, P)
    <2>1. Continues(r.log, q.log, N[r.mid]) /\ Good(q.log, N[r.mid]) /\ q.mid = r.mid
      BY <1>1, <1>4 DEF Lives, Sane
    <2>2. LogFine(q.log, r.mid, N)
      BY <1>2, <1>3, <2>1, FineContinues
    <2> QED BY <1>n, <2>1, <2>2
  <1>5. CASE Enters(r, q, P, K[r.future])
    <2>k. PICK k : k = r.future
      OBVIOUS
    <2>1. PICK log : Continues(r.log, log, P) /\ Good(log, P) /\ q.log = Append(log, <<"reg", k>>)
      BY <1>5, <2>k DEF Enters
    <2>2. Continues(r.log, log, N[r.mid]) /\ Good(log, N[r.mid])
      BY <1>1, <2>1
    <2>3. LogFine(log, r.mid, N)
      BY <1>2, <1>3, <2>2, FineContinues
    <2>4. k \in Rings \ {0} /\ q.mid = k
      BY <1>5, <2>k DEF Enters
    <2>5. LogFine(Append(log, <<"reg", k>>), k, N)
      BY <2>3, <2>4, FineEnters
    <2> QED BY ONLY <1>n, <2>1, <2>4, <2>5
  <1> QED BY <1>4, <1>5 DEF Step

\* One daemon makes a step, and the form tokens are G after it.
LEMMA StepData ==
  ASSUME NEW D, NEW K, NEW F, NEW G, NEW p \in Procs, NEW q, NEW P, Data(D, K, F),
         Step(D[p], q, K[D[p].mid], P, K[D[p].future]),
         D[p].State = "EVS" => Ahead(D, F, p, D[p].future),
         \A i \in Rings : Ahead(D, F, p, i) => D[p].mid # i,
         \A x \in Procs, i \in Rings : Ahead([D EXCEPT ![p] = q], G, x, i) => Ahead(D, F, x, i)
  PROVE  Data([D EXCEPT ![p] = q], [K EXCEPT ![D[p].mid] = P], G)
  <1>r. PICK r : r = D[p]
    OBVIOUS
  <1>j. PICK j : j = r.mid
    OBVIOUS
  <1>e. PICK E : E = [D EXCEPT ![p] = q]
    OBVIOUS
  <1>n. PICK N : N = [K EXCEPT ![j] = P]
    OBVIOUS
  <1>y. PICK Y : Y = Pending(r) \ Pending(q)
    OBVIOUS
  <1>1. /\ Shape(D, K) /\ Queues(D, K) /\ Untold(D, K, F) /\ Logs(D, K)
        /\ Step(r, q, K[j], P, K[r.future]) /\ r.me = p /\ j \in Rings /\ Sane(r, K[j])
        /\ IsSeq(r.log) /\ r.future \in Rings
    BY <1>r, <1>j DEF Data, Shape, Sane, Good, DaemonTyped
  <1>2. /\ DOMAIN E = Procs /\ E[p] = q /\ \A x \in Procs : x # p => E[x] = D[x]
        /\ DOMAIN N = Rings /\ N = [i \in Rings |-> N[i]] /\ N[j] = P /\ \A i \in Rings : i # j => N[i] = K[i]
    BY <1>1, <1>e, <1>n DEF Shape
  <1>3. PackOK(P) /\ Grown(K[j], P, Y) /\ Pending(q) \subseteq Pending(r) /\ NoDup(Queue(q))
        /\ Pending(q) \cap Contents(P) = {} /\ q.me = p
    BY <1>1, <1>y DEF Step, Packs
  <1>4. /\ Y \subseteq Pending(r) /\ Y \cap Pending(q) = {}
        /\ \A x \in Procs : Y \cap Told(D[x].log) = {} /\ (x # p => Y \cap Pending(D[x]) = {})
        /\ \A i \in Rings : Y \cap Contents(K[i]) = {}
    <2>1. Y \subseteq Pending(r) /\ Y \cap Pending(q) = {}
      BY <1>y
    <2>2. /\ \A x \in Procs : Pending(r) \cap Told(D[x].log) = {}
          /\ \A x \in Procs : x # p => Pending(r) \cap Pending(D[x]) = {}
          /\ \A i \in Rings : Pending(r) \cap Contents(K[i]) = {}
      BY <1>1, <1>r DEF Untold, Queues
    <2> QED BY ONLY <2>1, <2>2
  <1>5. /\ \A i \in Rings : Contents(K[i]) \subseteq Contents(N[i])
        /\ \A i \in Rings : i # j => Contents(N[i]) = Contents(K[i])
        /\ Contents(N[j]) \subseteq Contents(K[j]) \cup Y
    BY <1>2, <1>3, GrownContents
  <1>6. Told(q.log) \subseteq Told(r.log) \cup Contents(P)
    BY <1>1, StepTold
  <1>7. Queues(E, N)
    <2>1. \A x \in Procs : NoDup(Queue(E[x]))
      BY <1>1, <1>2, <1>3 DEF Queues
    <2>2. ASSUME NEW x \in Procs, NEW i \in Rings PROVE Pending(E[x]) \cap Contents(N[i]) = {}
      <3>1. Pending(D[x]) \cap Contents(K[i]) = {}
        BY <1>1 DEF Queues
      <3>2. CASE x = p
        BY <1>2, <1>3, <1>5, <1>r, <3>1, <3>2
      <3>3. CASE x # p
        BY <1>2, <1>4, <1>5, <3>1, <3>3
      <3> QED BY <3>2, <3>3
    <2>3. ASSUME NEW x \in Procs, NEW y \in Procs, x # y PROVE Pending(E[x]) \cap Pending(E[y]) = {}
      <3>1. Pending(D[x]) \cap Pending(D[y]) = {}
        BY <1>1, <2>3 DEF Queues
      <3>2. Pending(E[x]) \subseteq Pending(D[x]) /\ Pending(E[y]) \subseteq Pending(D[y])
        BY <1>2, <1>3, <1>r
      <3> QED BY ONLY <3>1, <3>2
    <2>4. ASSUME NEW i \in Rings, NEW h \in Rings, i # h PROVE Contents(N[i]) \cap Contents(N[h]) = {}
      <3>1. Contents(K[i]) \cap Contents(K[h]) = {}
        BY <1>1, <2>4 DEF Queues
      <3> QED BY ONLY <1>4, <1>5, <2>4, <3>1
    <2> QED BY ONLY <2>1, <2>2, <2>3, <2>4 DEF Queues
  <1>8. Untold(E, N, G)
    <2>1. ASSUME NEW x \in Procs, NEW y \in Procs PROVE Pending(E[y]) \cap Told(E[x].log) = {}
      <3>1. Pending(D[y]) \cap Told(D[x].log) = {} /\ Pending(E[y]) \subseteq Pending(D[y])
        BY <1>1, <1>2, <1>3, <1>r DEF Untold
      <3>2. Pending(E[y]) \cap Contents(P) = {}
        BY <1>1, <1>2, <1>7 DEF Queues
      <3>3. Told(E[x].log) \subseteq Told(D[x].log) \cup Contents(P)
        BY <1>2, <1>6, <1>r
      <3> QED BY ONLY <3>1, <3>2, <3>3
    <2>2. ASSUME NEW x \in Procs, NEW i \in Rings, Ahead(E, G, x, i) PROVE Contents(N[i]) \cap Told(E[x].log) = {}
      <3>1. Ahead(D, F, x, i)
        BY <1>e, <2>2
      <3>2. Contents(K[i]) \cap Told(D[x].log) = {}
        BY <1>1, <3>1 DEF Untold
      <3>3. Contents(N[i]) \cap Told(D[x].log) = {}
        BY <1>4, <1>5, <3>2
      <3>4. CASE x # p
        BY <1>2, <3>3, <3>4
      <3>5. CASE x = p
        <4>1. i # j
          BY <1>j, <1>r, <3>1, <3>5
        <4>2. Contents(N[i]) \cap Contents(P) = {}
          BY <1>1, <1>2, <1>7, <4>1 DEF Queues
        <4> QED BY <1>2, <1>6, <1>r, <3>3, <3>5, <4>2
      <3> QED BY <3>4, <3>5
    <2> QED BY ONLY <2>1, <2>2 DEF Untold
  <1>9. r.State = "EVS" => r.future \in Rings \ {0} /\ r.future # j
    BY <1>1, <1>j, <1>r DEF Ahead
  <1>10. ASSUME NEW x \in Procs PROVE E[x].me = x /\ E[x].mid \in Rings /\ Sane(E[x], N[E[x].mid])
    <2>1. D[x].me = x /\ D[x].mid \in Rings /\ Sane(D[x], K[D[x].mid])
      BY <1>1 DEF Shape
    <2>2. CASE x # p
      <3>1. CASE D[x].mid # j
        BY <1>2, <2>1, <2>2, <3>1
      <3>2. CASE D[x].mid = j
        <4>1. DaemonTyped(D[x]) /\ Good(D[x].log, K[j]) /\ (D[x].State # "EXIT" => Fit(D[x], K[j]))
          BY <2>1, <3>2 DEF Sane
        <4>2. Y \cap Told(D[x].log) = {}
          BY <1>4
        <4>3. Good(D[x].log, P) /\ (D[x].State # "EXIT" => Fit(D[x], P))
          BY ONLY <1>3, <4>1, <4>2, GoodGrown, FitGrown
        <4>4. Sane(D[x], P)
          BY <4>1, <4>3 DEF Sane
        <4> QED BY <1>2, <2>1, <2>2, <3>2, <4>4
      <3> QED BY <3>1, <3>2
    <2>3. CASE x = p
      <3>1. CASE Lives(r, q, P)
        BY <1>1, <1>2, <1>3, <1>j, <2>3, <3>1 DEF Lives
      <3>2. CASE Enters(r, q, P, K[r.future])
        <4>1. q.mid = r.future /\ q.mid \in Rings /\ q.mid # j /\ Sane(q, K[q.mid])
          BY <1>9, <3>2 DEF Enters
        <4> QED BY <1>2, <1>3, <2>3, <4>1
      <3> QED BY <1>1, <3>1, <3>2 DEF Step
    <2> QED BY <2>2, <2>3
  <1>11. Shape(E, N)
    <2>1. \A i \in Rings : PackOK(N[i])
      BY <1>1, <1>2, <1>3 DEF Shape
    <2> QED BY ONLY <1>2, <1>10, <2>1 DEF Shape
  <1>12. ASSUME NEW x \in Procs PROVE LogFine(E[x].log, E[x].mid, N)
    <2>1. LogFine(D[x].log, D[x].mid, K)
      BY <1>1 DEF Logs
    <2>2. CASE x # p
      <3>1. LogFine(D[x].log, D[x].mid, N)
        <4>1. DOMAIN K = Rings /\ Y \cap Told(D[x].log) = {}
          BY <1>1, <1>4 DEF Shape
        <4> QED BY ONLY <1>1, <1>3, <1>n, <2>1, <4>1, FineGrown
      <3> QED BY <1>2, <2>2, <3>1
    <2>3. CASE x = p
      <3>1. DOMAIN K = Rings /\ r.mid \in Rings /\ Step(r, q, K[r.mid], P, K[r.future]) /\ LogFine(r.log, r.mid, K)
        BY <1>1, <1>j, <1>r, <2>1, <2>3 DEF Shape
      <3>2. (Pending(r) \ Pending(q)) \cap Told(r.log) = {}
        BY <1>4, <1>r, <1>y
      <3>3. N = [K EXCEPT ![r.mid] = P]
        BY <1>j, <1>n
      <3>4. \A i, h \in Rings : i # h => Contents(N[i]) \cap Contents(N[h]) = {}
        BY <1>7 DEF Queues
      <3>5. LogFine(q.log, q.mid, N)
        BY ONLY <1>9, <3>1, <3>2, <3>3, <3>4, StepLog
      <3> QED BY <1>2, <2>3, <3>5
    <2> QED BY <2>2, <2>3
  <1>13. Data(E, N, G)
    BY <1>7, <1>8, <1>11, <1>12 DEF Data, Logs
  <1> QED BY <1>13, <1>e, <1>j, <1>n, <1>r

-----------------------------------------------------------------------------
(* The memberships a daemon joins and enters, and the form tokens F *)

FormsTyped(F) == DOMAIN F = Rings /\ \A i \in Rings : FormTyped(F[i]) /\ F[i].stage \in 0 .. 3
\* A daemon joins an attempt when its form token has passed, and installs it
\* only when everybody has filled the token; it never comes back to it.
Passing(F, r, p) ==
  \A i \in Rings :
    /\ Joining(r, i) => i # 0 /\ ~Fillable(F, p, i)
    /\ (r.State = "EVS" /\ r.future = i) \/ Entered(r.log, i) => F[i].stage \in {2, 3}
    /\ i # 0 /\ (Fillable(F, p, i) \/ Joining(r, i)) => r.mid # i /\ ~Entered(r.log, i)
\* The holes on a form token are packets no daemon that waits for it delivered.
Waiting(F, r) == r.State = "FORM" /\ F[r.attempt].stage \in {1, 2} => HolesOf(r, F[r.attempt])
Forms(D, F) == FormsTyped(F) /\ \A p \in Procs : Passing(F, D[p], p) /\ Waiting(F, D[p])

\* The memberships are entered in one order: no daemon that may install i has
\* entered a j that another one entered after i.
RingOrder(D) ==
  \A p, q \in Procs, i, j \in Rings :
    /\ Joining(D[q], i) /\ Entered(D[q].log, j) => ~Pre(D[p].log, i, j)
    /\ ~(Joining(D[p], j) /\ Entered(D[p].log, i) /\ Joining(D[q], i) /\ Entered(D[q].log, j))
    /\ ~(Pre(D[p].log, i, j) /\ Pre(D[q].log, j, i))

Events(r, q) ==
  /\ \A i : Entered(q.log, i) <=> Entered(r.log, i)
  /\ \A i, j : Pre(q.log, i, j) <=> Pre(r.log, i, j)
NewEvent(r, q, k) ==
  /\ \A i : Entered(q.log, i) <=> (Entered(r.log, i) \/ i = k)
  /\ \A i, j : Pre(q.log, i, j) <=> (Pre(r.log, i, j) \/ (j = k /\ Entered(r.log, i)))

\* In a step a daemon keeps its membership, or enters the one that it was joining.
LEMMA StepEvents ==
  ASSUME NEW r, NEW q, NEW S, NEW P, NEW R, Step(r, q, S, P, R), IsSeq(r.log)
  PROVE  \/ Lives(r, q, P) /\ Events(r, q)
         \/ Enters(r, q, P, R) /\ NewEvent(r, q, r.future)
  <1>1. CASE Lives(r, q, P)
    <2>1. Events(r, q)
      BY <1>1, ContinuesFacts DEF Lives, Events
    <2> QED BY <1>1, <2>1
  <1>2. CASE Enters(r, q, P, R)
    <2>k. PICK k : k = r.future
      OBVIOUS
    <2>1. PICK log : Continues(r.log, log, P) /\ Good(log, P) /\ q.log = Append(log, <<"reg", k>>)
      BY <1>2, <2>k DEF Enters
    <2>2. /\ \A i : Entered(log, i) <=> Entered(r.log, i)
          /\ \A i, j : Pre(log, i, j) <=> Pre(r.log, i, j)
      BY <2>1, ContinuesFacts
    <2>3. /\ \A i : Entered(q.log, i) <=> (Entered(log, i) \/ i = k)
          /\ \A i, j : Pre(q.log, i, j) <=> (Pre(log, i, j) \/ (j = k /\ Entered(log, i)))
      BY <2>1, EntersFacts DEF Good
    <2>4. NewEvent(r, q, k)
      BY ONLY <2>2, <2>3 DEF NewEvent
    <2> QED BY <1>2, <2>4, <2>k
  <1> QED BY <1>1, <1>2 DEF Step

\* What was entered before was entered.
LEMMA PreEntered ==
  ASSUME NEW log, NEW i, NEW j, Pre(log, i, j)
  PROVE  Entered(log, i) /\ Entered(log, j)
  BY DEF Pre, Entered

\* A daemon joins at most a membership nobody has entered.
LEMMA OrderSame ==
  ASSUME NEW D, NEW p \in Procs, NEW q, DOMAIN D = Procs, RingOrder(D), Events(D[p], q),
         \A i \in Rings : Joining(q, i) => Joining(D[p], i) \/ \A x \in Procs : ~Entered(D[x].log, i)
  PROVE  RingOrder([D EXCEPT ![p] = q])
  <1>e. PICK E : E = [D EXCEPT ![p] = q]
    OBVIOUS
  <1>1. E[p] = q /\ \A x \in Procs : x # p => E[x] = D[x]
    BY <1>e
  <1>2. \A x \in Procs : Events(D[x], E[x])
    BY <1>1 DEF Events
  <1>3. ASSUME NEW x \in Procs, NEW i \in Rings, Joining(E[x], i)
        PROVE  Joining(D[x], i) \/ \A y \in Procs : ~Entered(D[y].log, i)
    BY <1>1, <1>3
  <1>4. ASSUME NEW x \in Procs, NEW y \in Procs, NEW i \in Rings, NEW j \in Rings
        PROVE  /\ Joining(E[y], i) /\ Entered(E[y].log, j) => ~Pre(E[x].log, i, j)
               /\ ~(Joining(E[x], j) /\ Entered(E[x].log, i) /\ Joining(E[y], i) /\ Entered(E[y].log, j))
               /\ ~(Pre(E[x].log, i, j) /\ Pre(E[y].log, j, i))
    <2>1. /\ Joining(D[y], i) /\ Entered(D[y].log, j) => ~Pre(D[x].log, i, j)
          /\ ~(Joining(D[x], j) /\ Entered(D[x].log, i) /\ Joining(D[y], i) /\ Entered(D[y].log, j))
          /\ ~(Pre(D[x].log, i, j) /\ Pre(D[y].log, j, i))
      BY DEF RingOrder
    <2>2. /\ Entered(E[x].log, i) <=> Entered(D[x].log, i)
          /\ Entered(E[y].log, j) <=> Entered(D[y].log, j)
          /\ Pre(E[x].log, i, j) <=> Pre(D[x].log, i, j)
          /\ Pre(E[y].log, j, i) <=> Pre(D[y].log, j, i)
      BY <1>2 DEF Events
    <2>3. Joining(E[y], i) => Joining(D[y], i) \/ (~Entered(D[x].log, i) /\ ~Pre(D[x].log, i, j))
      BY <1>3, PreEntered
    <2>4. Joining(E[x], j) => Joining(D[x], j) \/ ~Entered(D[y].log, j)
      BY <1>3
    <2> QED BY ONLY <2>1, <2>2, <2>3, <2>4
  <1> QED BY <1>4, <1>e DEF RingOrder

\* A daemon enters the membership it was joining.
LEMMA OrderEnters ==
  ASSUME NEW D, NEW p \in Procs, NEW q, NEW k \in Rings, DOMAIN D = Procs, RingOrder(D), NewEvent(D[p], q, k),
         Joining(D[p], k), ~Entered(D[p].log, k), \A i \in Rings : ~Joining(q, i)
  PROVE  RingOrder([D EXCEPT ![p] = q])
  <1>e. PICK E : E = [D EXCEPT ![p] = q]
    OBVIOUS
  <1>1. E[p] = q /\ \A x \in Procs : x # p => E[x] = D[x]
    BY <1>e
  <1>2. ASSUME NEW x \in Procs, NEW y \in Procs, NEW i \in Rings, NEW j \in Rings
        PROVE  ~(Joining(E[y], i) /\ Entered(E[y].log, j) /\ Pre(E[x].log, i, j))
    <2> SUFFICES ASSUME Joining(E[y], i), Entered(E[y].log, j), Pre(E[x].log, i, j) PROVE FALSE
      OBVIOUS
    <2>1. y # p /\ E[y] = D[y]
      BY <1>1
    <2>2. ~Pre(D[x].log, i, j)
      BY <2>1 DEF RingOrder
    <2>3. x = p /\ j = k /\ Entered(D[p].log, i)
      BY <1>1, <2>2 DEF NewEvent
    <2>4. ~(Joining(D[p], k) /\ Entered(D[p].log, i) /\ Joining(D[y], i) /\ Entered(D[y].log, k))
      BY DEF RingOrder
    <2> QED BY <2>1, <2>3, <2>4
  <1>3. ASSUME NEW x \in Procs, NEW y \in Procs, NEW i \in Rings, NEW j \in Rings
        PROVE  ~(Joining(E[x], j) /\ Entered(E[x].log, i) /\ Joining(E[y], i) /\ Entered(E[y].log, j))
    BY <1>1 DEF RingOrder
  <1>4. ASSUME NEW y \in Procs, NEW i \in Rings, Entered(D[p].log, i) PROVE ~Pre(D[y].log, k, i)
    BY <1>4 DEF RingOrder
  <1>5. ASSUME NEW x \in Procs, NEW y \in Procs, NEW i \in Rings, NEW j \in Rings
        PROVE  ~(Pre(E[x].log, i, j) /\ Pre(E[y].log, j, i))
    <2> SUFFICES ASSUME Pre(E[x].log, i, j), Pre(E[y].log, j, i) PROVE FALSE
      OBVIOUS
    <2>1. Pre(D[x].log, i, j) \/ (x = p /\ j = k /\ Entered(D[p].log, i))
      BY <1>1 DEF NewEvent
    <2>2. Pre(D[y].log, j, i) \/ (y = p /\ i = k /\ Entered(D[p].log, j))
      BY <1>1 DEF NewEvent
    <2>3. ~(Pre(D[x].log, i, j) /\ Pre(D[y].log, j, i))
      BY DEF RingOrder
    <2> QED BY <1>4, <2>1, <2>2, <2>3
  <1>6. RingOrder(E)
    BY <1>2, <1>3, <1>5 DEF RingOrder
  <1> QED BY <1>6, <1>e

\* Whoever is in the same state, or goes on without waiting for anything new.
Quiet(r, q) ==
  /\ q.State = "FORM" => /\ r.State = "FORM" /\ q.attempt = r.attempt /\ q.mid = r.mid
                         /\ \A s \in Int : Exist(q, s) = 2 => Exist(r, s) = 2
  /\ q.State = "EVS" => r.State = "EVS" /\ q.future = r.future

\* A step that leaves the form tokens alone.
LEMMA QuietForms ==
  ASSUME NEW D, NEW F, NEW p \in Procs, NEW q, NEW S, NEW P, NEW R, DOMAIN D = Procs, IsSeq(D[p].log),
         D[p].future \in Rings, Forms(D, F), RingOrder(D), Step(D[p], q, S, P, R), Quiet(D[p], q)
  PROVE  /\ Forms([D EXCEPT ![p] = q], F) /\ RingOrder([D EXCEPT ![p] = q])
         /\ \A x \in Procs, i \in Rings : Ahead([D EXCEPT ![p] = q], F, x, i) => Ahead(D, F, x, i)
  <1>e. PICK E : E = [D EXCEPT ![p] = q]
    OBVIOUS
  <1>r. PICK r : r = D[p]
    OBVIOUS
  <1>1. E[p] = q /\ \A x \in Procs : x # p => E[x] = D[x]
    BY <1>e
  <1>2. \A i : Joining(q, i) => Joining(r, i)
    BY <1>r DEF Joining, Quiet
  <1>3. Passing(F, r, p) /\ Waiting(F, r)
    BY <1>r DEF Forms
  <1>4. Waiting(F, q)
    <2> SUFFICES ASSUME q.State = "FORM", F[q.attempt].stage \in {1, 2} PROVE HolesOf(q, F[q.attempt])
      BY DEF Waiting
    <2>1. /\ r.State = "FORM" /\ q.attempt = r.attempt /\ q.mid = r.mid
          /\ \A s \in Int : Exist(q, s) = 2 => Exist(r, s) = 2
      BY <1>r DEF Quiet
    <2>2. HolesOf(r, F[r.attempt])
      BY <1>3, <2>1 DEF Waiting
    <2> QED BY <2>1, <2>2 DEF HolesOf
  <1>5. \/ Lives(r, q, P) /\ Events(r, q)
        \/ Enters(r, q, P, R) /\ NewEvent(r, q, r.future)
    BY <1>r, StepEvents
  <1>6. ASSUME Lives(r, q, P), Events(r, q) PROVE Passing(F, q, p) /\ RingOrder(E)
    <2>1. q.mid = r.mid /\ \A i : Entered(q.log, i) <=> Entered(r.log, i)
      BY <1>6 DEF Lives, Events
    <2>2. ASSUME q.State = "EVS" PROVE r.State = "EVS" /\ q.future = r.future
      BY <1>r, <2>2 DEF Quiet
    <2>3. Passing(F, q, p)
      BY <1>2, <1>3, <2>1, <2>2 DEF Passing
    <2>4. RingOrder(E)
      BY <1>2, <1>6, <1>e, <1>r, OrderSame
    <2> QED BY <2>3, <2>4
  <1>7. ASSUME Enters(r, q, P, R), NewEvent(r, q, r.future) PROVE Passing(F, q, p) /\ RingOrder(E)
    <2>k. PICK k : k = r.future
      OBVIOUS
    <2>1. /\ r.State = "EVS" /\ q.State \in {"OP", "EXIT"} /\ q.mid = k /\ k \in Rings
          /\ \A i : Entered(q.log, i) <=> (Entered(r.log, i) \/ i = k)
      BY <1>7, <1>r, <2>k DEF Enters, NewEvent
    <2>2. Joining(r, k) /\ \A i : ~Joining(q, i)
      BY <2>1, <2>k DEF Joining
    <2>3. k # 0 /\ ~Fillable(F, p, k) /\ F[k].stage \in {2, 3} /\ r.mid # k /\ ~Entered(r.log, k)
      BY <1>3, <2>1, <2>2, <2>k DEF Passing
    <2>4. Passing(F, q, p)
      BY <1>3, <2>1, <2>2, <2>3 DEF Passing
    <2>5. RingOrder(E)
      BY <1>7, <1>e, <1>r, <2>1, <2>2, <2>3, <2>k, OrderEnters
    <2> QED BY <2>4, <2>5
  <1>8. Passing(F, q, p) /\ RingOrder(E)
    BY <1>5, <1>6, <1>7
  <1>9. Forms(E, F)
    <2>1. \A x \in Procs : Passing(F, E[x], x) /\ Waiting(F, E[x])
      BY <1>1, <1>4, <1>8 DEF Forms
    <2> QED BY <2>1 DEF Forms
  <1>10. \A x \in Procs, i \in Rings : Ahead(E, F, x, i) => Ahead(D, F, x, i)
    BY <1>1, <1>2, <1>r DEF Ahead
  <1> QED BY <1>8, <1>9, <1>10, <1>e

\* What held of the holes on the token t holds of those on u.
Keeps(t, u) == \A y : HolesOf(y, t) => HolesOf(y, u)

\* A form token has been filled by p: what it was before does not matter when
\* the attempt is a new one.
LEMMA FillForms ==
  ASSUME NEW D, NEW F, NEW p \in Procs, NEW q, NEW i \in Rings \ {0}, NEW t, NEW u, DOMAIN D = Procs,
         Forms(D, F), RingOrder(D), Events(D[p], q), q.mid = D[p].mid, q.State = "FORM", q.attempt = i,
         Fillable(F, p, i), F[i].stage = 0 \/ t = F[i],
         FormTyped(u), HolesOf(q, u), Keeps(t, u),
         (u.stage = 1 /\ u.wait = t.wait \ {p}) \/ u.stage = 2
  PROVE  /\ Forms([D EXCEPT ![p] = q], [F EXCEPT ![i] = u]) /\ RingOrder([D EXCEPT ![p] = q])
         /\ \A x \in Procs, j \in Rings : Ahead([D EXCEPT ![p] = q], [F EXCEPT ![i] = u], x, j) => Ahead(D, F, x, j)
  <1>e. PICK E : E = [D EXCEPT ![p] = q]
    OBVIOUS
  <1>g. PICK G : G = [F EXCEPT ![i] = u]
    OBVIOUS
  <1>r. PICK r : r = D[p]
    OBVIOUS
  <1>1. E[p] = q /\ \A x \in Procs : x # p => E[x] = D[x]
    BY <1>e
  <1>2. /\ DOMAIN G = Rings /\ G[i] = u /\ \A j \in Rings : j # i => G[j] = F[j]
        /\ \A j \in Rings : FormTyped(F[j]) /\ F[j].stage \in 0 .. 3
    BY <1>g DEF Forms, FormsTyped
  <1>3. FormsTyped(G)
    <2>1. u.stage \in 0 .. 3
      OBVIOUS
    <2> QED BY <1>2, <2>1 DEF FormsTyped
  <1>4. \A x \in Procs : Passing(F, D[x], x) /\ Waiting(F, D[x])
    BY DEF Forms
  <1>5. F[i].stage \in {0, 1}
    BY DEF Fillable
  <1>6. \A x \in Procs : ~Entered(D[x].log, i) /\ ~(D[x].State = "EVS" /\ D[x].future = i)
    <2>1. F[i].stage \notin {2, 3}
      BY <1>5
    <2> QED BY <1>4, <2>1 DEF Passing
  <1>7. \A x \in Procs, j \in Rings : Fillable(G, x, j) => Fillable(F, x, j)
    BY <1>2 DEF Fillable
  <1>8. ~Fillable(G, p, i)
    BY <1>2 DEF Fillable
  <1>9. \A j : Joining(q, j) <=> j = i
    BY DEF Joining
  <1>10. \A x \in Procs, j \in Rings : j # i => (Fillable(G, x, j) <=> Fillable(F, x, j))
    BY <1>2 DEF Fillable
  <1>11. \A j : Entered(q.log, j) <=> Entered(r.log, j)
    BY <1>r DEF Events
  <1>12. ASSUME NEW x \in Procs, x # p PROVE Passing(G, D[x], x) /\ Waiting(G, D[x])
    <2>1. Passing(F, D[x], x) /\ Waiting(F, D[x])
      BY <1>4
    <2>2. ASSUME NEW j \in Rings
          PROVE  /\ Joining(D[x], j) => j # 0 /\ ~Fillable(G, x, j)
                 /\ (D[x].State = "EVS" /\ D[x].future = j) \/ Entered(D[x].log, j) => G[j].stage \in {2, 3}
                 /\ j # 0 /\ (Fillable(G, x, j) \/ Joining(D[x], j)) => D[x].mid # j /\ ~Entered(D[x].log, j)
      BY <1>2, <1>6, <1>7, <2>1 DEF Passing
    <2>3. Waiting(G, D[x])
      <3> SUFFICES ASSUME D[x].State = "FORM", G[D[x].attempt].stage \in {1, 2} PROVE HolesOf(D[x], G[D[x].attempt])
        BY DEF Waiting
      <3>1. CASE D[x].attempt = i
        <4>1. Joining(D[x], i)
          BY <3>1 DEF Joining
        <4>2. ~Fillable(F, x, i)
          BY <2>1, <4>1 DEF Passing
        <4>3. F[i].stage = 1 /\ t = F[i]
          BY <1>5, <4>2 DEF Fillable
        <4>4. HolesOf(D[x], t)
          BY <2>1, <3>1, <4>3 DEF Waiting
        <4> QED BY <1>2, <3>1, <4>4 DEF Keeps
      <3>2. CASE D[x].attempt # i
        <4>1. G[D[x].attempt] = F[D[x].attempt]
          BY <1>g, <3>2
        <4> QED BY <2>1, <4>1 DEF Waiting
      <3> QED BY <3>1, <3>2
    <2> QED BY <2>2, <2>3 DEF Passing
  <1>13. Passing(G, q, p) /\ Waiting(G, q)
    <2>1. Waiting(G, q)
      BY <1>2 DEF Waiting
    <2>2. ASSUME NEW j \in Rings
          PROVE  /\ Joining(q, j) => j # 0 /\ ~Fillable(G, p, j)
                 /\ (q.State = "EVS" /\ q.future = j) \/ Entered(q.log, j) => G[j].stage \in {2, 3}
                 /\ j # 0 /\ (Fillable(G, p, j) \/ Joining(q, j)) => q.mid # j /\ ~Entered(q.log, j)
      <3>1. Passing(F, r, p)
        BY <1>4, <1>r
      <3>2. Joining(q, j) => j # 0 /\ ~Fillable(G, p, j)
        BY <1>8, <1>9
      <3>3. (q.State = "EVS" /\ q.future = j) \/ Entered(q.log, j) => G[j].stage \in {2, 3}
        BY <1>2, <1>6, <1>11, <1>r, <3>1 DEF Passing
      <3>4. j # 0 /\ (Fillable(G, p, j) \/ Joining(q, j)) => q.mid # j /\ ~Entered(q.log, j)
        <4>1. Fillable(G, p, j) \/ Joining(q, j) => Fillable(F, p, j)
          BY <1>7, <1>9
        <4> QED BY <1>11, <1>r, <3>1, <4>1 DEF Passing
      <3> QED BY <3>2, <3>3, <3>4
    <2> QED BY <2>1, <2>2 DEF Passing
  <1>14. Forms(E, G)
    BY <1>1, <1>3, <1>12, <1>13 DEF Forms
  <1>15. RingOrder(E)
    <2>1. \A j \in Rings : Joining(q, j) => \A x \in Procs : ~Entered(D[x].log, j)
      BY <1>6, <1>9
    <2> QED BY <1>e, <2>1, OrderSame
  <1>16. \A x \in Procs, j \in Rings : Ahead(E, G, x, j) => Ahead(D, F, x, j)
    BY <1>1, <1>7, <1>9 DEF Ahead
  <1> QED BY <1>14, <1>15, <1>16, <1>e, <1>g

\* The form token has come round to p a second time.
LEMMA ReadForms ==
  ASSUME NEW D, NEW F, NEW p \in Procs, NEW q, NEW i \in Rings \ {0}, NEW u, DOMAIN D = Procs,
         Forms(D, F), RingOrder(D), Events(D[p], q), q.mid = D[p].mid,
         D[p].State = "FORM", D[p].attempt = i, F[i].stage = 2,
         q.State = "EXIT" \/ (q.State = "EVS" /\ q.future = i),
         FormTyped(u), u.stage = 3 \/ (u.stage = 2 /\ u.rings = F[i].rings)
  PROVE  /\ Forms([D EXCEPT ![p] = q], [F EXCEPT ![i] = u]) /\ RingOrder([D EXCEPT ![p] = q])
         /\ \A x \in Procs, j \in Rings : Ahead([D EXCEPT ![p] = q], [F EXCEPT ![i] = u], x, j) => Ahead(D, F, x, j)
  <1>e. PICK E : E = [D EXCEPT ![p] = q]
    OBVIOUS
  <1>g. PICK G : G = [F EXCEPT ![i] = u]
    OBVIOUS
  <1>r. PICK r : r = D[p]
    OBVIOUS
  <1>1. E[p] = q /\ \A x \in Procs : x # p => E[x] = D[x]
    BY <1>e
  <1>2. /\ DOMAIN G = Rings /\ G[i] = u /\ \A j \in Rings : j # i => G[j] = F[j]
        /\ \A j \in Rings : FormTyped(F[j]) /\ F[j].stage \in 0 .. 3
    BY <1>g DEF Forms, FormsTyped
  <1>3. FormsTyped(G)
    <2>1. u.stage \in 0 .. 3
      OBVIOUS
    <2> QED BY <1>2, <2>1 DEF FormsTyped
  <1>4. \A x \in Procs : Passing(F, D[x], x) /\ Waiting(F, D[x])
    BY DEF Forms
  <1>5. \A x \in Procs, j \in Rings : Fillable(G, x, j) <=> Fillable(F, x, j)
    BY <1>2 DEF Fillable
  <1>6. \A j : Joining(q, j) => Joining(r, j)
    BY <1>r DEF Joining
  <1>7. \A j \in Rings : F[j].stage \in {2, 3} => G[j].stage \in {2, 3}
    BY <1>2
  <1>8. \A j : Entered(q.log, j) <=> Entered(r.log, j)
    BY <1>r DEF Events
  <1>9. ASSUME NEW x \in Procs, x # p PROVE Passing(G, D[x], x) /\ Waiting(G, D[x])
    <2>1. Passing(F, D[x], x) /\ Waiting(F, D[x])
      BY <1>4
    <2>2. Passing(G, D[x], x)
      BY <1>5, <1>7, <2>1 DEF Passing
    <2>3. Waiting(G, D[x])
      <3> SUFFICES ASSUME D[x].State = "FORM", G[D[x].attempt].stage \in {1, 2} PROVE HolesOf(D[x], G[D[x].attempt])
        BY DEF Waiting
      <3>1. CASE D[x].attempt = i
        <4>1. u.rings = F[i].rings /\ HolesOf(D[x], F[i])
          BY <1>2, <2>1, <3>1 DEF Waiting
        <4> QED BY <1>2, <3>1, <4>1 DEF HolesOf
      <3>2. CASE D[x].attempt # i
        <4>1. G[D[x].attempt] = F[D[x].attempt]
          BY <1>g, <3>2
        <4> QED BY <2>1, <4>1 DEF Waiting
      <3> QED BY <3>1, <3>2
    <2> QED BY <2>2, <2>3
  <1>10. Passing(G, q, p) /\ Waiting(G, q)
    <2>1. Waiting(G, q)
      BY DEF Waiting
    <2>2. Passing(F, r, p)
      BY <1>4, <1>r
    <2>3. ASSUME NEW j \in Rings, (q.State = "EVS" /\ q.future = j) \/ Entered(q.log, j)
          PROVE  G[j].stage \in {2, 3}
      <3>1. CASE Entered(q.log, j)
        BY <1>7, <1>8, <2>2, <3>1 DEF Passing
      <3>2. CASE q.State = "EVS" /\ q.future = j
        BY <1>2, <3>2
      <3> QED BY <2>3, <3>1, <3>2
    <2>4. Passing(G, q, p)
      BY <1>5, <1>6, <1>8, <1>r, <2>2, <2>3 DEF Passing
    <2> QED BY <2>1, <2>4
  <1>11. Forms(E, G)
    BY <1>1, <1>3, <1>9, <1>10 DEF Forms
  <1>12. RingOrder(E)
    BY <1>6, <1>e, <1>r, OrderSame
  <1>13. \A x \in Procs, j \in Rings : Ahead(E, G, x, j) => Ahead(D, F, x, j)
    BY <1>1, <1>5, <1>6, <1>r DEF Ahead
  <1> QED BY <1>11, <1>12, <1>13, <1>e, <1>g

-----------------------------------------------------------------------------
(* What the invariant says about two logs *)

\* A message of membership i before one of another membership j: i was left for j.
LEMMA WithinOrder ==
  ASSUME NEW log, IsSeq(log), NEW i, NEW j, i # j, NEW x \in DOMAIN log, NEW y \in DOMAIN log, x < y,
         Within(log, x, i), Within(log, y, j)
  PROVE  j # 0 /\ (i = 0 \/ Pre(log, i, j))
  <1>1. \A z \in DOMAIN log : z \in Int
    BY SeqFacts
  <1>2. CASE j = 0
    <2>1. \A z \in DOMAIN log : z < y => log[z][1] # "reg"
      BY <1>2 DEF Within
    <2>2. PICK z \in DOMAIN log : z < x /\ log[z] = <<"reg", i>>
      BY <1>2 DEF Within
    <2>3. z < y /\ log[z][1] = "reg"
      BY <1>1, <2>2
    <2> QED BY <2>1, <2>3
  <1>3. CASE j # 0 /\ i # 0
    <2>1. PICK z \in DOMAIN log : /\ z < x /\ log[z] = <<"reg", i>>
                                  /\ \A w \in DOMAIN log : z < w /\ w < x => log[w][1] # "reg"
      BY <1>3 DEF Within
    <2>2. PICK v \in DOMAIN log : /\ v < y /\ log[v] = <<"reg", j>>
                                  /\ \A w \in DOMAIN log : v < w /\ w < y => log[w][1] # "reg"
      BY <1>3 DEF Within
    <2>3. z # v
      <3>1. <<"reg", i>> # <<"reg", j>>
        OBVIOUS
      <3> QED BY <2>1, <2>2, <3>1
    <2>4. ~(v < z)
      <3>1. z < y /\ log[z][1] = "reg"
        BY <1>1, <2>1
      <3> QED BY <2>2, <3>1
    <2>5. z < v
      BY <1>1, <2>3, <2>4
    <2> QED BY <1>3, <2>1, <2>2, <2>5 DEF Pre
  <1> QED BY <1>2, <1>3

\* A message told has one position in the log.
LEMMA PositionIs ==
  ASSUME NEW p, NEW m \in Delivered(p), NoRepeat(d[p].log), Pairs(d[p].log)
  PROVE  /\ Position(p, m) \in DOMAIN d[p].log /\ d[p].log[Position(p, m)] = <<"msg", m>>
         /\ d[p].log[Position(p, m)][1] = "msg" /\ d[p].log[Position(p, m)][2] = m /\ m \in Told(d[p].log)
  <1>l. PICK log : log = d[p].log
    OBVIOUS
  <1>1. PICK x \in DOMAIN log : log[x][1] = "msg" /\ log[x][2] = m
    BY <1>l DEF Delivered
  <1>2. log[x] = <<"msg", m>>
    BY <1>1, <1>l DEF Pairs
  <1>y. PICK y : y = Position(p, m)
    OBVIOUS
  <1>3. y \in DOMAIN log /\ log[y] = <<"msg", m>>
    BY <1>2, <1>l, <1>y DEF Position
  <1>4. log[y][1] = "msg" /\ log[y][2] = m /\ m \in Told(log)
    BY <1>1, <1>3 DEF Told
  <1> QED BY <1>3, <1>4, <1>l, <1>y

\* Fine logs that enter the memberships in one order tell the messages in one.
LEMMA OneOrder ==
  ASSUME Shape(d, pack), Logs(d, pack), RingOrder(d)
  PROVE  AgreedOrder
  <1> SUFFICES ASSUME NEW p \in Procs, NEW q \in Procs, NEW m \in Delivered(p) \cap Delivered(q),
                      NEW n \in Delivered(p) \cap Delivered(q), Ordered(m), Ordered(n),
                      Position(p, m) < Position(p, n), ~(Position(q, m) < Position(q, n))
               PROVE  FALSE
    BY DEF AgreedOrder
  <1>a. PICK a, b : a = d[p].log /\ b = d[q].log
    OBVIOUS
  <1>x. PICK x, y, u, v : x = Position(p, m) /\ y = Position(p, n) /\ u = Position(q, m) /\ v = Position(q, n)
    OBVIOUS
  <1>1. LogFine(a, d[p].mid, pack) /\ LogFine(b, d[q].mid, pack)
    BY <1>a DEF Logs
  <1>2. IsSeq(a) /\ NoRepeat(a) /\ Pairs(a) /\ IsSeq(b) /\ NoRepeat(b) /\ Pairs(b)
    BY <1>1 DEF LogFine
  <1>3. /\ x \in DOMAIN a /\ a[x][1] = "msg" /\ a[x][2] = m /\ y \in DOMAIN a /\ a[y][1] = "msg" /\ a[y][2] = n
        /\ u \in DOMAIN b /\ b[u][1] = "msg" /\ b[u][2] = m /\ v \in DOMAIN b /\ b[v][1] = "msg" /\ b[v][2] = n
        /\ m \in Told(a) /\ n \in Told(a)
    BY <1>2, <1>a, <1>x, PositionIs
  <1>4. m # n /\ x < y
    <2>1. x \in Int /\ y \in Int /\ x < y
      BY <1>2, <1>3, <1>x, SeqFacts
    <2>2. x # y
      BY <2>1
    <2>3. a[x] = <<"msg", m>> /\ a[y] = <<"msg", n>>
      BY <1>2, <1>3 DEF Pairs
    <2> QED BY <1>2, <1>3, <2>1, <2>2, <2>3 DEF NoRepeat
  <1>5. v < u
    <2>1. u \in Int /\ v \in Int /\ ~(u < v)
      BY <1>2, <1>3, <1>x, SeqFacts
    <2>2. u # v
      BY <1>3, <1>4
    <2> QED BY <2>1, <2>2
  <1>6. PICK i \in Rings : m \in Contents(pack[i])
    BY <1>1, <1>3 DEF LogFine
  <1>7. PICK j \in Rings : n \in Contents(pack[j])
    BY <1>1, <1>3 DEF LogFine
  <1>8. CASE i = j
    <2>1. PICK s \in DOMAIN pack[i] : m \in Carried(pack[i][s])
      BY <1>6 DEF Contents
    <2>2. PICK t \in DOMAIN pack[i] : n \in Carried(pack[i][t])
      BY <1>7, <1>8 DEF Contents
    <2>3. InOrder(a, pack[i]) /\ InOrder(b, pack[i])
      BY <1>1 DEF LogFine
    <2>4. s < t \/ (s = t /\ m = pack[i][s].msg)
      BY <1>3, <1>4, <2>1, <2>2, <2>3 DEF InOrder
    <2>5. t < s \/ (t = s /\ n = pack[i][t].msg)
      BY <1>3, <1>5, <2>1, <2>2, <2>3 DEF InOrder
    <2>6. ~(s < t /\ (t < s \/ t = s)) /\ ~(s = t /\ t < s)
      <3>1. pack[i] \in Seq(PacketSet)
        BY DEF Shape, PackOK
      <3>2. s \in Int /\ t \in Int
        BY <2>1, <2>2, <3>1
      <3> QED BY <3>2
    <2> QED BY <1>4, <2>4, <2>5, <2>6
  <1>9. CASE i # j
    <2>1. Within(a, x, i) /\ Within(a, y, j) /\ Within(b, u, i) /\ Within(b, v, j)
      BY <1>1, <1>3, <1>6, <1>7 DEF LogFine
    <2>2. j # 0 /\ (i = 0 \/ Pre(a, i, j))
      BY <1>2, <1>3, <1>4, <1>9, <2>1, WithinOrder
    <2>3. i # 0 /\ (j = 0 \/ Pre(b, j, i))
      BY <1>2, <1>3, <1>5, <1>9, <2>1, WithinOrder
    <2> QED BY <1>a, <2>2, <2>3 DEF RingOrder
  <1> QED BY <1>8, <1>9

\* Fine logs tell each message once.
LEMMA ToldOnce ==
  ASSUME Logs(d, pack)
  PROVE  DeliveredOnce
  BY DEF Logs, LogFine, NoRepeat, DeliveredOnce

-----------------------------------------------------------------------------
(* Rings, tokens and the network *)

\* A daemon is in the membership it has, in the one it waits for, and in the
\* one it recovers for.
Members(D, F, R) ==
  /\ DOMAIN R = Rings /\ \A i \in Rings : R[i] \subseteq Procs /\ F[i].wait \subseteq R[i]
  /\ \A p \in Procs : /\ D[p].State # "DOWN" => p \in R[D[p].mid]
                      /\ D[p].State = "FORM" => p \in R[D[p].attempt]
                      /\ D[p].State = "EVS" => p \in R[D[p].future]
Tokens(T) == DOMAIN T = Procs /\ \A p \in Procs : TokenTyped(T[p])
Traffic(N, K) == DOMAIN N = Procs /\ \A p \in Procs : \A k \in N[p] : k.mid \in Rings /\ k.seq \in DOMAIN K[k.mid]

\* A finite set of numbers has a largest one.
LEMMA FinalIn ==
  ASSUME NEW S, S # {}, S \subseteq Procs
  PROVE  Final(S) \in S
  <1>1. IsFiniteSet(S) /\ S \subseteq Nat
    BY ConfAssumption, FS_Subset
  <1>2. PICK Q \in Seq(S) : \A s \in S : \E n \in 1 .. Len(Q) : Q[n] = s
    BY <1>1 DEF IsFiniteSet
  <1>l. PICK l : l = Len(Q)
    OBVIOUS
  <1> DEFINE T == {n \in Nat : n <= l => \E m \in Nat : \A k \in 1 .. n : Q[k] <= m}
  <1>3. l \in Nat /\ \A k \in 1 .. l : Q[k] \in Nat
    <2>1. l \in Nat /\ \A k \in 1 .. l : Q[k] \in S
      BY <1>l
    <2> QED BY <1>1, <2>1
  <1>4. 0 \in T
    <2>1. \A k \in 1 .. 0 : Q[k] <= 0
      OBVIOUS
    <2> QED BY <2>1
  <1>5. ASSUME NEW n \in Nat, n \in T PROVE n + 1 \in T
    <2> SUFFICES ASSUME n + 1 <= l PROVE \E m \in Nat : \A k \in 1 .. n + 1 : Q[k] <= m
      OBVIOUS
    <2>1. n <= l
      BY <1>3
    <2>2. PICK m \in Nat : \A k \in 1 .. n : Q[k] <= m
      BY <1>5, <2>1
    <2>3. Q[n + 1] \in Nat
      BY <1>3
    <2>m. PICK h : h = m + Q[n + 1]
      OBVIOUS
    <2>4. h \in Nat /\ m <= h /\ Q[n + 1] <= h
      BY <2>3, <2>m
    <2>5. ASSUME NEW k \in 1 .. n + 1 PROVE Q[k] <= h
      <3>1. CASE k = n + 1
        BY <2>4, <3>1
      <3>2. CASE k # n + 1
        <4>1. k \in 1 .. n /\ k \in 1 .. l
          BY <1>3, <3>2
        <4>2. Q[k] \in Nat /\ Q[k] <= m
          BY <1>3, <2>2, <4>1
        <4> QED BY <2>4, <4>2
      <3> QED BY <3>1, <3>2
    <2> QED BY <2>4, <2>5
  <1> HIDE DEF T
  <1>6. \A n \in Nat : n \in T
    BY <1>4, <1>5, EveryNatural
  <1>7. PICK m \in Nat : \A k \in 1 .. l : Q[k] <= m
    <2>1. l \in T /\ l <= l
      BY <1>3, <1>6
    <2> QED BY <2>1 DEF T
  <1>8. \A s \in S : s \in Nat /\ s <= m
    BY <1>1, <1>2, <1>7, <1>l
  <1> DEFINE R == {m - s : s \in S}
  <1>9. R \subseteq Nat /\ R # {}
    BY <1>8
  <1>10. PICK z \in R : \A y \in R : z <= y
    BY <1>9, LeastNatural
  <1>11. PICK x \in S : z = m - x
    OBVIOUS
  <1>12. ASSUME NEW y \in S PROVE y <= x
    <2>1. z <= m - y
      BY <1>10
    <2> QED BY <1>8, <1>11, <2>1
  <1> QED BY <1>11, <1>12 DEF Final

\* The daemon the token comes from is a configured one.
LEMMA PreviousIs ==
  ASSUME NEW S, S \subseteq Procs, NEW p \in S
  PROVE  Conf_previous(S, p) \in Procs
  <1> DEFINE before == {q \in S : q < p}
  <1>1. Final(S) \in S
    BY FinalIn
  <1>2. before # {} => Final(before) \in before
    <2>1. before \subseteq Procs
      OBVIOUS
    <2> HIDE DEF before
    <2> QED BY <2>1, FinalIn
  <1> QED BY <1>1, <1>2 DEF Conf_previous

\* The members are as they were when nobody joins anything.
LEMMA StepMembers ==
  ASSUME NEW D, NEW F, NEW R, NEW p \in Procs, NEW q, NEW S, NEW P, NEW X, DOMAIN D = Procs, Members(D, F, R),
         D[p].State # "DOWN", Step(D[p], q, S, P, X), Quiet(D[p], q)
  PROVE  Members([D EXCEPT ![p] = q], F, R)
  <1>e. PICK E : E = [D EXCEPT ![p] = q]
    OBVIOUS
  <1>r. PICK r : r = D[p]
    OBVIOUS
  <1>1. E[p] = q /\ \A x \in Procs : x # p => E[x] = D[x]
    BY <1>e
  <1>2. /\ p \in R[r.mid] /\ (r.State = "FORM" => p \in R[r.attempt]) /\ (r.State = "EVS" => p \in R[r.future])
    BY <1>r DEF Members
  <1>3. q.mid = r.mid \/ (r.State = "EVS" /\ q.mid = r.future)
    BY <1>r DEF Step, Lives, Enters
  <1>4. p \in R[q.mid]
    BY <1>2, <1>3
  <1>5. (q.State = "FORM" => p \in R[q.attempt]) /\ (q.State = "EVS" => p \in R[q.future])
    BY <1>2, <1>r DEF Quiet
  <1>6. Members(E, F, R)
    BY <1>1, <1>4, <1>5 DEF Members
  <1> QED BY <1>6, <1>e

\* The members Z of attempt i are the ones in R, or nobody has to do with it.
Fresh(D, R, Z, i) == Z[i] = R[i] \/ \A x \in Procs : D[x].mid # i /\ ~Joining(D[x], i)

\* A daemon joins an attempt; nobody else has to do with it when it is new.
LEMMA JoinMembers ==
  ASSUME NEW D, NEW F, NEW R, NEW Z, NEW p \in Procs, NEW q, NEW i \in Rings, NEW u, DOMAIN D = Procs, Members(D, F, R),
         D[p].State # "DOWN", q.mid = D[p].mid, DOMAIN F = Rings, DOMAIN Z = Rings, \A j \in Rings : j # i => Z[j] = R[j],
         Z[i] \subseteq Procs, u.wait \subseteq Z[i], D[p].mid # i,
         p \in Z[i], Joining(q, i) \/ q.State = "EXIT",
         Fresh(D, R, Z, i),
         \A x \in Procs : D[x].mid \in Rings /\ D[x].attempt \in Rings /\ D[x].future \in Rings
  PROVE  Members([D EXCEPT ![p] = q], [F EXCEPT ![i] = u], Z)
  <1>e. PICK E : E = [D EXCEPT ![p] = q]
    OBVIOUS
  <1>g. PICK G : G = [F EXCEPT ![i] = u]
    OBVIOUS
  <1>1. E[p] = q /\ \A x \in Procs : x # p => E[x] = D[x]
    BY <1>e
  <1>2. G[i] = u /\ \A j \in Rings : j # i => G[j] = F[j]
    BY <1>g
  <1>3. \A j \in Rings : Z[j] \subseteq Procs /\ G[j].wait \subseteq Z[j]
    BY <1>2 DEF Members
  <1>4. ASSUME NEW x \in Procs
        PROVE  /\ E[x].State # "DOWN" => x \in Z[E[x].mid]
               /\ E[x].State = "FORM" => x \in Z[E[x].attempt]
               /\ E[x].State = "EVS" => x \in Z[E[x].future]
    <2>1. /\ D[x].State # "DOWN" => x \in R[D[x].mid]
          /\ D[x].State = "FORM" => x \in R[D[x].attempt]
          /\ D[x].State = "EVS" => x \in R[D[x].future]
          /\ D[x].mid \in Rings /\ D[x].attempt \in Rings /\ D[x].future \in Rings
      BY DEF Members
    <2>2. CASE x = p
      <3>1. p \in Z[q.mid]
        BY <2>1, <2>2
      <3> QED BY <1>1, <2>2, <3>1 DEF Joining
    <2>3. CASE x # p
      <3>1. CASE Z[i] = R[i]
        BY <1>1, <2>1, <2>3, <3>1
      <3>2. CASE D[x].mid # i /\ ~Joining(D[x], i)
        BY <1>1, <2>1, <2>3, <3>2 DEF Joining
      <3> QED BY <3>1, <3>2 DEF Fresh
    <2> QED BY <2>2, <2>3
  <1>5. Members(E, G, Z)
    BY <1>3, <1>4 DEF Members
  <1> QED BY <1>5, <1>e, <1>g

-----------------------------------------------------------------------------
(* The invariant of the protocol *)

System ==
  /\ Data(d, pack, form) /\ Forms(d, form) /\ RingOrder(d)
  /\ Members(d, form, ring) /\ Tokens(sent) /\ Traffic(net, pack)

\* The state of a daemon, taken out of the invariant.
LEMMA SystemFacts ==
  ASSUME System, NEW p \in Procs
  PROVE  /\ DOMAIN d = Procs /\ DOMAIN pack = Rings /\ pack = [i \in Rings |-> pack[i]] /\ d[p].me = p /\ Sane(d[p], pack[d[p].mid])
         /\ d[p].mid \in Rings /\ d[p].future \in Rings /\ d[p].attempt \in Rings /\ IsSeq(d[p].log)
         /\ \A i \in Rings : PackOK(pack[i])
         /\ NoDup(Queue(d[p])) /\ \A i \in Rings : Pending(d[p]) \cap Contents(pack[i]) = {}
         /\ Pending(d[p]) \cap Told(d[p].log) = {}
         /\ \A i \in Rings : Ahead(d, form, p, i) => d[p].mid # i /\ Contents(pack[i]) \cap Told(d[p].log) = {}
         /\ d[p].State = "EVS" => Ahead(d, form, p, d[p].future)
  <1>1. /\ DOMAIN d = Procs /\ DOMAIN pack = Rings /\ pack = [i \in Rings |-> pack[i]] /\ d[p].me = p /\ Sane(d[p], pack[d[p].mid])
        /\ d[p].mid \in Rings /\ \A i \in Rings : PackOK(pack[i])
    BY DEF System, Data, Shape
  <1>2. d[p].future \in Rings /\ d[p].attempt \in Rings /\ IsSeq(d[p].log)
    BY <1>1 DEF Sane, DaemonTyped, Good
  <1>3. NoDup(Queue(d[p])) /\ \A i \in Rings : Pending(d[p]) \cap Contents(pack[i]) = {}
    BY DEF System, Data, Queues
  <1>4. Pending(d[p]) \cap Told(d[p].log) = {}
    BY DEF System, Data, Untold
  <1>5. \A i \in Rings : Ahead(d, form, p, i) => Contents(pack[i]) \cap Told(d[p].log) = {}
    BY DEF System, Data, Untold
  <1>6. Passing(form, d[p], p)
    BY DEF System, Forms
  <1>7. \A i \in Rings : Ahead(d, form, p, i) => d[p].mid # i
    BY <1>6 DEF Passing, Ahead
  <1>8. ASSUME d[p].State = "EVS" PROVE Ahead(d, form, p, d[p].future)
    BY <1>2, <1>6, <1>8 DEF Passing, Ahead, Joining
  <1> QED BY <1>1, <1>2, <1>3, <1>4, <1>5, <1>7, <1>8

\* A step of one daemon that leaves rings and form tokens alone.
LEMMA SystemStep ==
  ASSUME System, NEW p \in Procs, NEW q, NEW P, d[p].State # "DOWN",
         Step(d[p], q, pack[d[p].mid], P, pack[d[p].future]), Quiet(d[p], q),
         d' = [d EXCEPT ![p] = q], pack' = [pack EXCEPT ![d[p].mid] = P],
         form' = form, ring' = ring, Tokens(sent'), DOMAIN net' = Procs,
         \A x \in Procs : \A k \in net'[x] : k \in net[x] \/ (k.mid = d[p].mid /\ k.seq \in DOMAIN P)
  PROVE  System'
  <1>1. /\ DOMAIN d = Procs /\ DOMAIN pack = Rings /\ IsSeq(d[p].log) /\ d[p].future \in Rings /\ d[p].mid \in Rings
        /\ \A i \in Rings : Ahead(d, form, p, i) => d[p].mid # i
        /\ d[p].State = "EVS" => Ahead(d, form, p, d[p].future)
    BY SystemFacts
  <1>2. Data(d, pack, form) /\ Forms(d, form) /\ RingOrder(d) /\ Members(d, form, ring) /\ Traffic(net, pack)
    BY DEF System
  <1>3. /\ Forms(d', form) /\ RingOrder(d')
        /\ \A x \in Procs, i \in Rings : Ahead(d', form, x, i) => Ahead(d, form, x, i)
    BY <1>1, <1>2, QuietForms
  <1>4. \A x \in Procs, i \in Rings : Ahead([d EXCEPT ![p] = q], form, x, i) => Ahead(d, form, x, i)
    BY <1>3
  <1>5. Data([d EXCEPT ![p] = q], [pack EXCEPT ![d[p].mid] = P], form)
    BY ONLY <1>1, <1>2, <1>4, StepData, p \in Procs, Step(d[p], q, pack[d[p].mid], P, pack[d[p].future])
  <1>6. Members([d EXCEPT ![p] = q], form, ring)
    BY <1>1, <1>2, StepMembers
  <1>7. Traffic(net', pack')
    <2>1. \A s \in DOMAIN pack[d[p].mid] : s \in DOMAIN P
      BY DEF Step, Packs, Grown
    <2>2. pack'[d[p].mid] = P /\ \A i \in Rings : i # d[p].mid => pack'[i] = pack[i]
      BY <1>1
    <2>3. ASSUME NEW x \in Procs, NEW k \in net'[x] PROVE k.mid \in Rings /\ k.seq \in DOMAIN pack'[k.mid]
      <3>1. CASE k \in net[x]
        <4>1. k.mid \in Rings /\ k.seq \in DOMAIN pack[k.mid]
          BY <1>2, <3>1 DEF Traffic
        <4> QED BY <2>1, <2>2, <4>1
      <3>2. CASE k.mid = d[p].mid /\ k.seq \in DOMAIN P
        BY <1>1, <2>2, <3>2
      <3> QED BY <3>1, <3>2
    <2> QED BY <2>3 DEF Traffic
  <1>8. Data(d', pack', form') /\ Members(d', form', ring') /\ Forms(d', form') /\ RingOrder(d')
    BY <1>3, <1>5, <1>6
  <1> QED BY ONLY <1>7, <1>8, Tokens(sent') DEF System

-----------------------------------------------------------------------------
(* Every action keeps the invariant *)

\* What a packet sent on its way is, in the network after Broadcast.
LEMMA BroadcastNet ==
  ASSUME NEW p \in Procs, NEW i, NEW out, NEW P, Broadcast(p, i, out), \A k \in out : k.seq \in DOMAIN P
  PROVE  /\ DOMAIN net' = Procs
         /\ \A x \in Procs : \A k \in net'[x] : k \in net[x] \/ (k.mid = i /\ k.seq \in DOMAIN P)
  <1>h. PICK heard : heard = {x \in Procs \ {p} : LatePackets \/ ~Parted(x, p)}
    OBVIOUS
  <1>c. PICK copies : copies = UNION {{<<q, k.seq>> : q \in k.to \cap heard} : k \in out}
    OBVIOUS
  <1>1. PICK lost : net' = [q \in Procs |-> {k \in net[q] : q # p \/ k.mid >= d'[p].mid} \cup
                              {[mid |-> i, seq |-> c[2]] : c \in {x \in copies \ lost : x[1] = q}}]
    BY <1>c, <1>h DEF Broadcast
  <1>2. \A c \in copies : c[2] \in DOMAIN P
    BY <1>c
  <1>3. DOMAIN net' = Procs
    BY <1>1
  <1>4. ASSUME NEW x \in Procs, NEW k \in net'[x] PROVE k \in net[x] \/ (k.mid = i /\ k.seq \in DOMAIN P)
    <2>1. k \in net[x] \/ \E c \in copies : k = [mid |-> i, seq |-> c[2]]
      BY <1>1, <1>4
    <2> QED BY <1>2, <2>1
  <1> QED BY <1>3, <1>4

\* A token has been handled.
LEMMA TokenStep ==
  ASSUME System, NEW p \in Procs, d[p].State \in {"OP", "EVS"}, NEW k \in 0 .. Len(d[p].todo), NEW fits,
         NEW t, TokenTyped(t)
  PROVE  LET r == d[p]
             res == Prot_handle_token(Prot_new_message(r, k), pack[r.mid], t, fits)
             q == Forget(res.d)
         IN  /\ Step(r, q, pack[r.mid], res.P, pack[r.future]) /\ Quiet(r, q)
             /\ TokenTyped(res.sent) /\ \A x \in res.out : x.seq \in DOMAIN res.P
  <1>o. PICK o : o = d[p]
    OBVIOUS
  <1>r. PICK r : r = Prot_new_message(o, k)
    OBVIOUS
  <1>s. PICK S : S = pack[o.mid]
    OBVIOUS
  <1>R. PICK R : R = pack[o.future]
    OBVIOUS
  <1>res. PICK res : res = Prot_handle_token(r, S, t, fits)
    OBVIOUS
  <1>u. PICK u, P : u = res.d /\ P = res.P
    OBVIOUS
  <1>q. PICK q : q = Forget(u)
    OBVIOUS
  <1>1. /\ Sane(o, S) /\ o.mid \in Rings /\ o.future \in Rings /\ PackOK(S) /\ PackOK(R)
        /\ NoDup(Queue(o)) /\ Pending(o) \cap Contents(S) = {} /\ Pending(o) \cap Contents(R) = {}
        /\ Pending(o) \cap Told(o.log) = {}
        /\ o.State = "EVS" => /\ o.mid # o.future /\ Contents(R) \cap Told(o.log) = {}
    <2>1. /\ Sane(o, S) /\ o.mid \in Rings /\ o.future \in Rings /\ PackOK(S) /\ PackOK(R)
          /\ NoDup(Queue(o)) /\ Pending(o) \cap Contents(S) = {} /\ Pending(o) \cap Contents(R) = {}
          /\ Pending(o) \cap Told(o.log) = {}
      BY <1>o, <1>s, <1>R, SystemFacts
    <2>2. ASSUME o.State = "EVS" PROVE o.mid # o.future /\ Contents(R) \cap Told(o.log) = {}
      BY <1>o, <1>R, <2>1, <2>2, SystemFacts
    <2> QED BY <2>1, <2>2
  <1>2. o.State = "EVS" => Contents(S) \cap Contents(R) = {}
    BY <1>1, <1>s, <1>R DEF System, Data, Queues
  <1>3. Sane(r, S) /\ Differ(r, o, {"Down", "todo"}) /\ Queue(r) = Queue(o)
    BY <1>1, <1>o, <1>r, MessageDown
  <1>4. /\ r.State = o.State /\ r.State \in {"OP", "EVS"} /\ r.log = o.log /\ r.mid = o.mid /\ r.future = o.future
        /\ Pending(r) = Pending(o)
    BY <1>3, <1>o DEF Differ, Fields, Pending
  <1>5. Outcome(r, u, S, P) /\ TokenTyped(res.sent) /\ \A x \in res.out : x.seq \in DOMAIN res.P
    BY <1>1, <1>3, <1>4, <1>res, <1>u, TokenHandling
  <1>6. Installs(r, u, P) => r.State = "EVS" /\ u.mid = r.future /\ u.mid # r.mid
    BY <1>1, <1>4 DEF Installs
  <1>7. u.mid # r.mid => Contents(R) \cap Told(r.log) = {} /\ Contents(R) \cap Contents(P) = {}
    <2> SUFFICES ASSUME u.mid # r.mid PROVE Contents(R) \cap Told(r.log) = {} /\ Contents(R) \cap Contents(P) = {}
      OBVIOUS
    <2>1. r.State = "EVS"
      BY <1>5, <1>6 DEF Outcome, Stays
    <2>2. Contents(P) \subseteq Contents(S) \cup (Pending(r) \ Pending(u))
      BY <1>5, GrownContents DEF Outcome
    <2> QED BY <1>1, <1>2, <1>4, <2>1, <2>2
  <1>8. /\ Step(o, q, S, P, R) /\ q.State \in {"OP", "EVS", "EXIT"}
        /\ q.State = "EVS" => o.State = "EVS" /\ q.future = o.future
    BY <1>1, <1>3, <1>4, <1>5, <1>6, <1>7, <1>q, OutcomeStep
  <1>9. Quiet(o, q)
    BY <1>8 DEF Quiet
  <1> QED BY <1>5, <1>8, <1>9, <1>o, <1>r, <1>s, <1>R, <1>res, <1>u, <1>q

\* Prot_handle_token keeps the invariant.
LEMMA RecvTokenKeeps ==
  ASSUME System, NEW p \in Procs, Recv_token(p)
  PROVE  System'
  <1>t. PICK t : t = sent[Conf_previous(Active(d[p]), p)]
    OBVIOUS
  <1>1. /\ d[p].State \in {"OP", "EVS"} /\ ring' = ring /\ form' = form
    BY DEF Recv_token
  <1>2. PICK k \in 0 .. Len(d[p].todo), fits \in BOOLEAN, rtr \in {t.rtr, {}} :
          TokenHandled(p, Prot_handle_token(Prot_new_message(d[p], k), pack[d[p].mid], [t EXCEPT !.rtr = rtr], fits))
    BY <1>t DEF Recv_token
  <1>3. TokenTyped(t)
    <2>1. p \in Active(d[p]) /\ Active(d[p]) \subseteq Procs
      <3>1. d[p].mid \in Rings /\ d[p].future \in Rings
        BY SystemFacts
      <3>2. Members(d, form, ring)
        BY DEF System
      <3> QED BY <1>1, <3>1, <3>2 DEF Members, Active, ActiveId
    <2>2. Conf_previous(Active(d[p]), p) \in Procs
      BY <2>1, PreviousIs
    <2> QED BY <1>t, <2>2 DEF System, Tokens
  <1>u. PICK u : u = [t EXCEPT !.rtr = rtr]
    OBVIOUS
  <1>4. TokenTyped(u)
    <2>1. Bounded(t.rtr) /\ Bounded({})
      BY <1>3, FS_EmptySet DEF TokenTyped, Bounded
    <2>2. /\ DOMAIN u = DOMAIN t /\ u.seq = t.seq /\ u.aru = t.aru /\ u.fc = t.fc /\ u.rtr = rtr
      BY <1>3, <1>u DEF TokenTyped
    <2> QED BY <1>3, <2>1, <2>2 DEF TokenTyped
  <1>res. PICK res : res = Prot_handle_token(Prot_new_message(d[p], k), pack[d[p].mid], u, fits)
    OBVIOUS
  <1>q. PICK q : q = Forget(res.d)
    OBVIOUS
  <1>5. /\ Step(d[p], q, pack[d[p].mid], res.P, pack[d[p].future]) /\ Quiet(d[p], q)
        /\ TokenTyped(res.sent) /\ \A x \in res.out : x.seq \in DOMAIN res.P
    BY <1>1, <1>4, <1>res, <1>q, TokenStep
  <1>6. TokenHandled(p, res)
    BY <1>2, <1>u, <1>res
  <1>7. /\ d' = [d EXCEPT ![p] = q] /\ pack' = [pack EXCEPT ![d[p].mid] = res.P]
        /\ sent' = [sent EXCEPT ![p] = res.sent] /\ Broadcast(p, d[p].mid, res.out)
    BY <1>6, <1>q DEF TokenHandled
  <1>8. /\ DOMAIN net' = Procs
        /\ \A x \in Procs : \A y \in net'[x] : y \in net[x] \/ (y.mid = d[p].mid /\ y.seq \in DOMAIN res.P)
    BY ONLY <1>5, <1>7, p \in Procs, BroadcastNet
  <1>9. Tokens(sent')
    BY <1>5, <1>7 DEF System, Tokens
  <1>10. d[p].State # "DOWN"
    BY <1>1
  <1> QED BY ONLY System, p \in Procs, <1>1, <1>5, <1>7, <1>8, <1>9, <1>10, SystemStep

\* A step in the membership of the daemon, with no new packet.
LEMMA SystemWorks ==
  ASSUME System, NEW p \in Procs, NEW q, d[p].State # "DOWN", Works(d[p], q, pack[d[p].mid]), Quiet(d[p], q),
         d' = [d EXCEPT ![p] = q], UNCHANGED <<ring, pack, sent, form>>,
         DOMAIN net' = Procs, \A x \in Procs : net'[x] \subseteq net[x]
  PROVE  System'
  <1>P. PICK P : P = pack[d[p].mid]
    OBVIOUS
  <1>1. /\ PackOK(P) /\ NoDup(Queue(d[p])) /\ Pending(d[p]) \cap Contents(P) = {} /\ d[p].mid \in Rings
        /\ pack = [i \in Rings |-> pack[i]]
    BY <1>P, SystemFacts
  <1>2. Step(d[p], q, P, P, pack[d[p].future])
    BY <1>1, <1>P, WorksStep
  <1>3. pack' = [pack EXCEPT ![d[p].mid] = P]
    BY <1>1, <1>P
  <1>4. Tokens(sent')
    BY DEF System
  <1>5. \A x \in Procs : \A k \in net'[x] : k \in net[x] \/ (k.mid = d[p].mid /\ k.seq \in DOMAIN P)
    OBVIOUS
  <1> QED BY <1>P, <1>2, <1>3, <1>4, <1>5, SystemStep

\* Prot_handle_bcast keeps the invariant.
LEMMA RecvPacketKeeps ==
  ASSUME System, NEW p \in Procs, Recv_packet(p)
  PROVE  System'
  <1>1. PICK k \in net[p] :
          /\ k.mid = d[p].mid /\ d[p].State \notin {"EXIT", "DOWN"}
          /\ d' = [d EXCEPT ![p] = Prot_handle_bcast(d[p], pack[k.mid], k.seq)]
          /\ net' = [net EXCEPT ![p] = @ \ {k}]
          /\ UNCHANGED <<ring, pack, sent, form, left>>
    BY DEF Recv_packet
  <1>P. PICK P : P = pack[d[p].mid]
    OBVIOUS
  <1>q. PICK q : q = Prot_handle_bcast(d[p], P, k.seq)
    OBVIOUS
  <1>2. Sane(d[p], P) /\ PackOK(P)
    BY <1>P, SystemFacts
  <1>3. k.seq \in DOMAIN P
    BY <1>1, <1>P DEF System, Traffic
  <1>4. /\ Works(d[p], q, P) /\ q.State \in {d[p].State, "EXIT"}
        /\ q.future = d[p].future /\ q.attempt = d[p].attempt
        /\ d[p].State = "FORM" => \A x : Exist(q, x) = 2 => Exist(d[p], x) = 2
    BY <1>1, <1>2, <1>3, <1>q, BcastFacts
  <1>5. Quiet(d[p], q)
    BY <1>4 DEF Quiet, Works
  <1>6. d' = [d EXCEPT ![p] = q] /\ UNCHANGED <<ring, pack, sent, form>> /\ d[p].State # "DOWN"
    BY <1>1, <1>P, <1>q
  <1>7. DOMAIN net' = Procs /\ \A x \in Procs : net'[x] \subseteq net[x]
    BY <1>1 DEF System, Traffic
  <1> QED BY <1>P, <1>4, <1>5, <1>6, <1>7, SystemWorks

\* The end of the groups' work on a membership keeps the invariant.
LEMMA GroupsReadyKeeps ==
  ASSUME System, NEW p \in Procs, Groups_ready(p)
  PROVE  System'
  <1>1. /\ d[p].State = "OP" /\ d' = [d EXCEPT ![p] = DeliverAll(d[p], pack[d[p].mid])]
        /\ UNCHANGED <<ring, pack, net, sent, form, left>>
    BY DEF Groups_ready
  <1>q. PICK q : q = DeliverAll(d[p], pack[d[p].mid])
    OBVIOUS
  <1>2. Works(d[p], q, pack[d[p].mid]) /\ q.State \in {"OP", "EXIT"}
    <2>1. Sane(d[p], pack[d[p].mid]) /\ PackOK(pack[d[p].mid])
      BY SystemFacts
    <2> QED BY <1>1, <1>q, <2>1, DeliverAllFacts
  <1>3. Quiet(d[p], q)
    BY <1>2 DEF Quiet
  <1>4. DOMAIN net' = Procs /\ \A x \in Procs : net'[x] \subseteq net[x]
    BY <1>1 DEF System, Traffic
  <1> QED BY <1>1, <1>q, <1>2, <1>3, <1>4, SystemWorks

\* A token loss keeps the invariant.
LEMMA LoseTokenKeeps ==
  ASSUME System, NEW p \in Procs, Lose_token(p)
  PROVE  System'
  <1>1. /\ d[p].State \in {"OP", "FORM", "EVS"} /\ d' = [d EXCEPT ![p] = Forget(Memb_token_loss(d[p]))]
        /\ UNCHANGED <<ring, pack, net, sent, form>>
    BY DEF Lose_token
  <1>l. PICK l : l = Memb_token_loss(d[p])
    OBVIOUS
  <1>q. PICK q : q = Forget(l)
    OBVIOUS
  <1>2. Works(d[p], l, pack[d[p].mid]) /\ l.State = "LOST"
    <2>1. Sane(d[p], pack[d[p].mid])
      BY SystemFacts
    <2> QED BY <1>1, <1>l, <2>1, LossFacts
  <1>3. Works(d[p], q, pack[d[p].mid])
    BY <1>2, <1>q, WorksForget
  <1>4. q.State = "LOST"
    BY <1>2, <1>q, ForgetFacts DEF Works
  <1>5. Quiet(d[p], q)
    BY <1>4 DEF Quiet
  <1>6. DOMAIN net' = Procs /\ \A x \in Procs : net'[x] \subseteq net[x]
    BY <1>1 DEF System, Traffic
  <1>7. d' = [d EXCEPT ![p] = q] /\ d[p].State # "DOWN"
    BY <1>1, <1>l, <1>q
  <1> QED BY <1>1, <1>3, <1>5, <1>6, <1>7, SystemWorks

\* The network after a step that sends nothing.
LEMMA TrafficLess ==
  ASSUME Traffic(net, pack), DOMAIN net' = Procs, \A x \in Procs : net'[x] \subseteq net[x]
  PROVE  Traffic(net', pack)
  BY DEF Traffic

\* A daemon fills the form token t of attempt i.
LEMMA FillsKeeps ==
  ASSUME System, NEW p \in Procs, NEW i \in Rings \ {0}, NEW t, Fills(p, i, t), FormTyped(t), t.stage = 1,
         Fillable(form, p, i), form[i].stage = 0 \/ t = form[i],
         DOMAIN ring' = Rings, \A j \in Rings : j # i => ring'[j] = ring[j],
         ring'[i] \subseteq Procs, p \in ring'[i], t.wait \subseteq ring'[i],
         ring'[i] = ring[i] \/ form[i].stage = 0, UNCHANGED <<pack, sent>>
  PROVE  System'
  <1>r. PICK r : r = d[p]
    OBVIOUS
  <1>P. PICK P : P = pack[r.mid]
    OBVIOUS
  <1>res. PICK res : res = Fill_form1(r, i, t)
    OBVIOUS
  <1>v. PICK v : v = res.t
    OBVIOUS
  <1>q. PICK q : q = Forget(res.d)
    OBVIOUS
  <1>u. PICK u : u = IF v.wait = {} THEN [v EXCEPT !.stage = 2, !.wait = ring'[i]] ELSE v
    OBVIOUS
  <1>1. /\ r.State \in {"OP", "LOST"} /\ d' = [d EXCEPT ![p] = q] /\ form' = [form EXCEPT ![i] = u]
    BY <1>r, <1>res, <1>v, <1>q, <1>u DEF Fills
  <1>2. DOMAIN net' = Procs /\ \A x \in Procs : net'[x] \subseteq net[x]
    <2>1. DOMAIN net = Procs
      BY DEF System, Traffic
    <2>2. CASE LatePackets
      BY <2>1, <2>2 DEF Fills
    <2>3. CASE ~LatePackets
      <3>1. \E X : X \subseteq net[p] /\ net' = [net EXCEPT ![p] = X]
        BY <2>3 DEF Fills
      <3> QED BY <2>1, <3>1
    <2> QED BY <2>2, <2>3
  <1>3. /\ DOMAIN d = Procs /\ pack = [j \in Rings |-> pack[j]] /\ r.me = p /\ Sane(r, P) /\ r.mid \in Rings
        /\ IsSeq(r.log) /\ PackOK(P) /\ NoDup(Queue(r)) /\ Pending(r) \cap Contents(P) = {}
        /\ \A j \in Rings : Ahead(d, form, p, j) => r.mid # j
    BY <1>r, <1>P, SystemFacts
  <1>4. /\ Works(r, res.d, P) /\ res.d.State = "FORM" /\ res.d.attempt = i
        /\ FormTyped(v) /\ v.wait = t.wait \ {p} /\ v.stage = 1
        /\ HolesOf(res.d, v) /\ \A y : HolesOf(y, t) => HolesOf(y, v)
    <2>1. i \in Rings /\ Sane(r, P) /\ FormTyped(t) /\ r.State \in {"OP", "LOST"} /\ r.me = p
      BY <1>1, <1>3
    <2>2. /\ Works(r, res.d, P) /\ res.d.State = "FORM" /\ res.d.attempt = i
          /\ FormTyped(res.t) /\ res.t.wait = t.wait \ {r.me} /\ res.t.stage = t.stage
          /\ HolesOf(res.d, res.t) /\ \A y : HolesOf(y, t) => HolesOf(y, res.t)
      BY ONLY <1>res, <2>1, FillFacts
    <2> QED BY ONLY <1>v, <2>1, <2>2, t.stage = 1
  <1>5. Works(r, q, P)
    BY <1>4, <1>q, WorksForget
  <1>6. q.State = "FORM" /\ q.attempt = i /\ q.mid = r.mid /\ HolesOf(q, v)
    <2>1. q.State = res.d.State /\ q.attempt = res.d.attempt /\ q.mid = res.d.mid /\ q.Packets = res.d.Packets
      BY <1>4, <1>q, ForgetFacts DEF Works
    <2>2. HolesOf(q, v)
      BY <1>4, <2>1 DEF HolesOf, Exist
    <2> QED BY <1>4, <1>5, <2>1, <2>2 DEF Works
  <1>7. Events(r, q)
    BY <1>3, <1>5, ContinuesFacts DEF Works, Events
  <1>8. /\ FormTyped(u) /\ u.rings = v.rings /\ u.wait \subseteq ring'[i]
        /\ (u.stage = 1 /\ u.wait = t.wait \ {p}) \/ u.stage = 2
    <2>1. CASE v.wait = {}
      <3>1. u = [v EXCEPT !.stage = 2, !.wait = ring'[i]]
        BY <1>u, <2>1
      <3>2. DOMAIN u = DOMAIN v /\ u.stage = 2 /\ u.wait = ring'[i] /\ u.seq = v.seq /\ u.rings = v.rings
        BY <1>4, <3>1 DEF FormTyped
      <3>3. FormTyped(u)
        BY <1>4, <3>2 DEF FormTyped, RingTyped
      <3> QED BY <3>2, <3>3
    <2>2. CASE v.wait # {}
      BY <1>4, <1>u, <2>2
    <2> QED BY <2>1, <2>2
  <1>9. HolesOf(q, u) /\ Keeps(t, u)
    <2>1. \A y : HolesOf(y, v) => HolesOf(y, u)
      BY <1>8 DEF HolesOf
    <2> QED BY <1>4, <1>6, <2>1 DEF Keeps
  <1>10. Forms(d, form) /\ RingOrder(d) /\ Data(d, pack, form) /\ Members(d, form, ring) /\ Traffic(net, pack) /\ Tokens(sent)
    BY DEF System
  <1>11. /\ Forms([d EXCEPT ![p] = q], [form EXCEPT ![i] = u]) /\ RingOrder([d EXCEPT ![p] = q])
         /\ \A x \in Procs, j \in Rings :
              Ahead([d EXCEPT ![p] = q], [form EXCEPT ![i] = u], x, j) => Ahead(d, form, x, j)
    <2>1. Events(d[p], q) /\ q.mid = d[p].mid
      BY <1>6, <1>7, <1>r
    <2> QED BY ONLY <1>3, <1>6, <1>8, <1>9, <1>10, <2>1, p \in Procs, i \in Rings \ {0}, Fillable(form, p, i),
                    form[i].stage = 0 \/ t = form[i], FillForms
  <1>12. Data([d EXCEPT ![p] = q], pack, [form EXCEPT ![i] = u])
    <2>1. Step(d[p], q, pack[d[p].mid], P, pack[d[p].future])
      BY <1>3, <1>5, <1>P, <1>r, WorksStep
    <2>2. pack = [pack EXCEPT ![d[p].mid] = P]
      BY <1>3, <1>P, <1>r
    <2>3. d[p].State # "EVS"
      BY <1>1, <1>r
    <2>4. \A j \in Rings : Ahead(d, form, p, j) => d[p].mid # j
      BY <1>3, <1>r
    <2>5. Data([d EXCEPT ![p] = q], [pack EXCEPT ![d[p].mid] = P], [form EXCEPT ![i] = u])
      BY ONLY <1>10, <1>11, <2>1, <2>3, <2>4, p \in Procs, StepData
    <2> QED BY <2>2, <2>5
  <1>13. Members([d EXCEPT ![p] = q], [form EXCEPT ![i] = u], ring')
    <2>1. d[p].State # "DOWN" /\ q.mid = d[p].mid /\ DOMAIN form = Rings /\ d[p].mid # i
      <3>1. Ahead(d, form, p, i)
        BY DEF Ahead
      <3> QED BY <1>1, <1>3, <1>6, <1>10, <1>r, <3>1 DEF Forms, FormsTyped
    <2>2. \A x \in Procs : d[x].mid \in Rings /\ d[x].attempt \in Rings /\ d[x].future \in Rings
      BY SystemFacts
    <2>3. ASSUME form[i].stage = 0, NEW x \in Procs PROVE d[x].mid # i /\ ~Joining(d[x], i)
      <3>1. Fillable(form, x, i) /\ Passing(form, d[x], x)
        BY <1>10, <2>3 DEF Fillable, Forms
      <3> QED BY <3>1 DEF Passing
    <2>4. ring'[i] = ring[i] \/ \A x \in Procs : d[x].mid # i /\ ~Joining(d[x], i)
      BY <2>3
    <2>z. PICK Z : Z = ring'
      OBVIOUS
    <2>5. /\ DOMAIN Z = Rings /\ \A j \in Rings : j # i => Z[j] = ring[j]
          /\ Z[i] \subseteq Procs /\ p \in Z[i] /\ u.wait \subseteq Z[i]
          /\ Fresh(d, ring, Z, i)
      BY <1>8, <2>4, <2>z DEF Fresh
    <2>6. Members([d EXCEPT ![p] = q], [form EXCEPT ![i] = u], Z)
      <3>1. Joining(q, i) /\ i \in Rings /\ DOMAIN d = Procs /\ Members(d, form, ring)
        BY <1>3, <1>6, <1>10 DEF Joining
      <3> QED BY ONLY <2>1, <2>2, <2>5, <3>1, p \in Procs, JoinMembers
    <2> QED BY <2>6, <2>z
  <1>14. Traffic(net', pack)
    BY <1>2, <1>10, TrafficLess
  <1>15. /\ Data(d', pack', form') /\ Forms(d', form') /\ RingOrder(d') /\ Members(d', form', ring')
         /\ Tokens(sent') /\ Traffic(net', pack')
    BY <1>1, <1>10, <1>11, <1>12, <1>13, <1>14
  <1> QED BY ONLY <1>15 DEF System

\* Creating a form token keeps the invariant.
LEMMA CreateFormKeeps ==
  ASSUME System, NEW p \in Procs, Create_form1(p)
  PROVE  System'
  <1>1. PICK i \in Rings \ {0}, S \in SUBSET (ring[0] \ {p}) :
          /\ form[i] = NoForm /\ ring' = [ring EXCEPT ![i] = S \cup {p}]
          /\ Fills(p, i, [NoForm EXCEPT !.stage = 1, !.wait = S \cup {p}])
          /\ UNCHANGED <<pack, sent>>
    BY DEF Create_form1
  <1>t. PICK t : t = [NoForm EXCEPT !.stage = 1, !.wait = S \cup {p}]
    OBVIOUS
  <1>2. /\ DOMAIN t = {"wait", "stage", "seq", "rings"} /\ t.stage = 1 /\ t.wait = S \cup {p} /\ t.seq = 0 /\ t.rings = {}
    BY <1>t DEF NoForm
  <1>3. FormTyped(t)
    BY <1>2 DEF FormTyped, RingTyped
  <1>4. form[i].stage = 0 /\ Fillable(form, p, i)
    BY <1>1 DEF NoForm, Fillable
  <1>5. 0 \in Rings /\ DOMAIN ring = Rings /\ S \subseteq Procs
    <2>1. 0 \in Rings
      BY ProtocolAssumption DEF Rings
    <2> QED BY <2>1 DEF System, Members
  <1>6. /\ DOMAIN ring' = Rings /\ \A j \in Rings : j # i => ring'[j] = ring[j]
        /\ ring'[i] = S \cup {p}
    BY <1>1, <1>5
  <1>7. ring'[i] \subseteq Procs /\ p \in ring'[i] /\ t.wait \subseteq ring'[i]
    BY <1>2, <1>5, <1>6
  <1>8. Fills(p, i, t)
    BY <1>1, <1>t
  <1> QED BY ONLY <1>1, <1>2, <1>3, <1>4, <1>6, <1>7, <1>8, System, p \in Procs, FillsKeeps

\* Writing the holes of a daemon into the form token keeps the invariant.
LEMMA RecvForm1Keeps ==
  ASSUME System, NEW p \in Procs, Recv_form1(p)
  PROVE  System'
  <1>1. PICK i \in Rings \ {0} :
          /\ form[i].stage = 1 /\ IsNext(p, form[i])
          /\ UNCHANGED <<ring, pack, sent, left>> /\ Fills(p, i, form[i])
    BY DEF Recv_form1
  <1>t. PICK t : t = form[i]
    OBVIOUS
  <1>2. FormTyped(t) /\ t.stage = 1 /\ p \in t.wait
    BY <1>1, <1>t DEF IsNext, System, Forms, FormsTyped
  <1>3. Fillable(form, p, i)
    BY <1>1, <1>2, <1>t DEF Fillable
  <1>4. /\ DOMAIN ring' = Rings /\ \A j \in Rings : j # i => ring'[j] = ring[j]
        /\ ring'[i] \subseteq Procs /\ t.wait \subseteq ring'[i] /\ ring'[i] = ring[i]
    BY <1>1, <1>t DEF System, Members
  <1>5. p \in ring'[i] /\ Fills(p, i, t) /\ UNCHANGED <<pack, sent>>
    BY <1>1, <1>2, <1>4, <1>t
  <1> QED BY ONLY <1>2, <1>3, <1>4, <1>5, <1>t, i \in Rings \ {0}, System, p \in Procs, FillsKeeps

\* Reading the form token in its second round keeps the invariant.
LEMMA RecvForm2Keeps ==
  ASSUME System, NEW p \in Procs, Recv_form2(p)
  PROVE  System'
  <1>1. PICK i \in Rings \ {0} :
          /\ form[i].stage = 2 /\ IsNext(p, form[i])
          /\ d[p].State = "FORM" /\ d[p].attempt = i
          /\ d' = [d EXCEPT ![p] = Read_form2(d[p], pack[d[p].mid], i, form[i])]
          /\ form' = [form EXCEPT ![i] = IF @.wait = {p} THEN [NoForm EXCEPT !.stage = 3]
                                          ELSE [@ EXCEPT !.wait = form[i].wait \ {p}]]
          /\ sent' = IF form[i].wait = {p} THEN [sent EXCEPT ![p] = FirstToken(i)] ELSE sent
          /\ UNCHANGED <<ring, pack, net, left>>
    BY DEF Recv_form2
  <1>t. PICK t : t = form[i]
    OBVIOUS
  <1>r. PICK r : r = d[p]
    OBVIOUS
  <1>P. PICK P : P = pack[r.mid]
    OBVIOUS
  <1>q. PICK q : q = Read_form2(r, P, i, t)
    OBVIOUS
  <1>u. PICK u : u = IF t.wait = {p} THEN [NoForm EXCEPT !.stage = 3] ELSE [t EXCEPT !.wait = t.wait \ {p}]
    OBVIOUS
  <1>2. d' = [d EXCEPT ![p] = q] /\ form' = [form EXCEPT ![i] = u] /\ r.State = "FORM" /\ r.attempt = i /\ t.stage = 2
    <2>1. form' = [form EXCEPT ![i] = u]
      <3>1. CASE t.wait = {p}
        BY <1>1, <1>t, <1>u, <3>1
      <3>2. CASE t.wait # {p}
        BY <1>1, <1>t, <1>u, <3>2
      <3> QED BY <3>1, <3>2
    <2>2. d' = [d EXCEPT ![p] = q]
      BY <1>1, <1>t, <1>r, <1>P, <1>q
    <2> QED BY <1>1, <1>t, <1>r, <2>1, <2>2
  <1>3. /\ DOMAIN d = Procs /\ pack = [j \in Rings |-> pack[j]] /\ r.me = p /\ Sane(r, P) /\ r.mid \in Rings
        /\ IsSeq(r.log) /\ PackOK(P) /\ NoDup(Queue(r)) /\ Pending(r) \cap Contents(P) = {}
        /\ \A j \in Rings : Ahead(d, form, p, j) => r.mid # j
    BY <1>r, <1>P, SystemFacts
  <1>4. Forms(d, form) /\ RingOrder(d) /\ Data(d, pack, form) /\ Members(d, form, ring) /\ Traffic(net, pack) /\ Tokens(sent)
    BY DEF System
  <1>5. FormTyped(t) /\ HolesOf(r, t) /\ DOMAIN form = Rings
    BY <1>2, <1>4, <1>r, <1>t DEF Forms, FormsTyped, Waiting
  <1>6. Works(r, q, P) /\ (q.State = "EXIT" \/ (q.State = "EVS" /\ q.future = i))
    BY <1>2, <1>3, <1>5, <1>q, ReadFacts
  <1>7. Events(r, q) /\ q.mid = r.mid
    BY <1>3, <1>6, ContinuesFacts DEF Works, Events
  <1>8. FormTyped(u) /\ (u.stage = 3 \/ (u.stage = 2 /\ u.rings = t.rings)) /\ u.wait \subseteq t.wait
    <2>1. CASE t.wait = {p}
      <3>1. /\ DOMAIN u = {"wait", "stage", "seq", "rings"} /\ u.stage = 3 /\ u.wait = {} /\ u.seq = 0 /\ u.rings = {}
        BY <1>u, <2>1 DEF NoForm
      <3> QED BY <3>1 DEF FormTyped, RingTyped
    <2>2. CASE t.wait # {p}
      <3>1. u = [t EXCEPT !.wait = t.wait \ {p}]
        BY <1>u, <2>2
      <3>2. DOMAIN u = DOMAIN t /\ u.stage = t.stage /\ u.wait = t.wait \ {p} /\ u.seq = t.seq /\ u.rings = t.rings
        BY <1>5, <3>1 DEF FormTyped
      <3> QED BY <1>2, <1>5, <3>2 DEF FormTyped, RingTyped
    <2> QED BY <2>1, <2>2
  <1>9. /\ Forms([d EXCEPT ![p] = q], [form EXCEPT ![i] = u]) /\ RingOrder([d EXCEPT ![p] = q])
        /\ \A x \in Procs, j \in Rings :
             Ahead([d EXCEPT ![p] = q], [form EXCEPT ![i] = u], x, j) => Ahead(d, form, x, j)
    <2>1. /\ Events(d[p], q) /\ q.mid = d[p].mid /\ d[p].State = "FORM" /\ d[p].attempt = i /\ form[i].stage = 2
          /\ u.stage = 3 \/ (u.stage = 2 /\ u.rings = form[i].rings)
      BY <1>2, <1>7, <1>8, <1>r, <1>t
    <2>2. (q.State = "EXIT" \/ (q.State = "EVS" /\ q.future = i)) /\ FormTyped(u) /\ DOMAIN d = Procs
      BY ONLY <1>3, <1>6, <1>8
    <2>3. Forms(d, form) /\ RingOrder(d)
      BY ONLY <1>4
    <2> QED BY ONLY <2>1, <2>2, <2>3, p \in Procs, i \in Rings \ {0}, ReadForms
  <1>10. Data([d EXCEPT ![p] = q], pack, [form EXCEPT ![i] = u])
    <2>1. Step(d[p], q, pack[d[p].mid], P, pack[d[p].future])
      BY <1>3, <1>6, <1>P, <1>r, WorksStep
    <2>2. pack = [pack EXCEPT ![d[p].mid] = P]
      BY <1>3, <1>P, <1>r
    <2>3. d[p].State # "EVS"
      BY <1>2, <1>r
    <2>4. \A j \in Rings : Ahead(d, form, p, j) => d[p].mid # j
      BY <1>3, <1>r
    <2>5. Data([d EXCEPT ![p] = q], [pack EXCEPT ![d[p].mid] = P], [form EXCEPT ![i] = u])
      BY ONLY <1>4, <1>9, <2>1, <2>3, <2>4, p \in Procs, StepData
    <2> QED BY <2>2, <2>5
  <1>11. Members([d EXCEPT ![p] = q], [form EXCEPT ![i] = u], ring)
    <2>1. d[p].State # "DOWN" /\ q.mid = d[p].mid /\ d[p].mid # i
      <3>1. Joining(r, i)
        BY <1>2 DEF Joining
      <3>2. Ahead(d, form, p, i)
        BY <1>r, <3>1 DEF Ahead
      <3> QED BY <1>2, <1>3, <1>7, <1>r, <3>2
    <2>2. \A x \in Procs : d[x].mid \in Rings /\ d[x].attempt \in Rings /\ d[x].future \in Rings
      BY SystemFacts
    <2>3. /\ DOMAIN ring = Rings /\ ring[i] \subseteq Procs /\ t.wait \subseteq ring[i] /\ p \in ring[i]
      BY <1>2, <1>4, <1>r, <1>t DEF Members
    <2>4. u.wait \subseteq ring[i]
      BY <1>8, <2>3
    <2>5. Fresh(d, ring, ring, i)
      BY DEF Fresh
    <2>6. Joining(q, i) \/ q.State = "EXIT"
      BY <1>6 DEF Joining
    <2>7. i \in Rings /\ DOMAIN d = Procs /\ Members(d, form, ring) /\ DOMAIN form = Rings
      BY <1>3, <1>4, <1>5
    <2> QED BY ONLY <2>1, <2>2, <2>3, <2>4, <2>5, <2>6, <2>7, p \in Procs, JoinMembers
  <1>12. Tokens(sent')
    <2>f. PICK f : f = FirstToken(i)
      OBVIOUS
    <2>1. TokenTyped(f)
      <3>1. /\ DOMAIN f = {"mid", "seq", "aru", "last", "fc", "rtr", "arq"} /\ f.seq = 0 /\ f.aru = INT32_MAX
            /\ f.fc = 0 /\ f.rtr = {}
        BY <2>f DEF FirstToken, NoToken
      <3> QED BY <3>1, FS_EmptySet DEF TokenTyped, Bounded, INT32_MAX
    <2> QED BY <1>1, <1>4, <2>1, <2>f DEF Tokens
  <1>13. /\ Data(d', pack', form') /\ Forms(d', form') /\ RingOrder(d') /\ Members(d', form', ring')
         /\ Traffic(net', pack')
    BY <1>1, <1>2, <1>4, <1>9, <1>10, <1>11
  <1> QED BY ONLY <1>12, <1>13 DEF System

-----------------------------------------------------------------------------
(* The initial states, and the theorems *)

\* What Prot_init sets.
LEMMA StartRecord ==
  ASSUME NEW p \in Procs, NEW load, NEW o, o = Prot_init(p, load)
  PROVE  /\ DOMAIN o = Fields
         /\ o.me = p /\ o.State = "OP" /\ o.mid = 0 /\ o.future = 0 /\ o.attempt = 0
         /\ o.Packets = <<>> /\ o.Highest_seq = 0 /\ o.My_aru = 0 /\ o.Aru = 0 /\ o.Last_discarded = 0
         /\ o.Last_delivered = 0 /\ o.Last_seq = 0 /\ o.Last_num = 0
         /\ o.Last_token = [arq |-> 0, aru |-> 0, seq |-> 0]
         /\ o.todo = load /\ o.Down = <<>> /\ o.cur = 0 /\ o.log = <<>>
  <1>1. DOMAIN o = Fields
    BY DEF Prot_init, Fields
  <1>2. /\ o.me = p /\ o.State = "OP" /\ o.mid = 0 /\ o.future = 0 /\ o.attempt = 0
        /\ o.Packets = <<>> /\ o.Highest_seq = 0 /\ o.My_aru = 0 /\ o.Aru = 0 /\ o.Last_discarded = 0
    BY DEF Prot_init
  <1>3. /\ o.Last_delivered = 0 /\ o.Last_seq = 0 /\ o.Last_num = 0
        /\ o.todo = load /\ o.Down = <<>> /\ o.cur = 0 /\ o.log = <<>>
    BY DEF Prot_init
  <1>4. o.Last_token = [arq |-> 0, aru |-> 0, seq |-> 0]
    BY DEF Prot_init
  <1> QED BY <1>1, <1>2, <1>3, <1>4

\* A daemon that has just started, with its load, or that has not started.
LEMMA StartFacts ==
  ASSUME NEW p \in Procs, NEW load \in Seq(Messages), NEW o, NEW r, o = Prot_init(p, load),
         r = o \/ r = [o EXCEPT !.State = "DOWN"]
  PROVE  /\ r.me = p /\ r.mid = 0 /\ r.State \in {"OP", "DOWN"} /\ (r # o => r.State = "DOWN")
         /\ Sane(r, <<>>) /\ Queue(r) = load /\ r.log = <<>> /\ 0 \in Rings
  <1>o. /\ DOMAIN o = Fields
        /\ o.me = p /\ o.State = "OP" /\ o.mid = 0 /\ o.future = 0 /\ o.attempt = 0
        /\ o.Packets = <<>> /\ o.Highest_seq = 0 /\ o.My_aru = 0 /\ o.Aru = 0 /\ o.Last_discarded = 0
        /\ o.Last_delivered = 0 /\ o.Last_seq = 0 /\ o.Last_num = 0
        /\ o.Last_token = [arq |-> 0, aru |-> 0, seq |-> 0]
        /\ o.todo = load /\ o.Down = <<>> /\ o.cur = 0 /\ o.log = <<>>
    BY StartRecord
  <1>d. Differ(r, o, {"State"}) /\ r.State \in {"OP", "DOWN"} /\ (r # o => r.State = "DOWN")
    BY <1>o DEF Differ, Fields
  <1>1. /\ DOMAIN r = Fields /\ r.me = p /\ r.mid = 0 /\ r.future = 0 /\ r.attempt = 0
        /\ r.Packets = <<>> /\ r.Highest_seq = 0 /\ r.My_aru = 0 /\ r.Aru = 0 /\ r.Last_discarded = 0
        /\ r.Last_delivered = 0 /\ r.Last_seq = 0 /\ r.Last_num = 0
        /\ r.Last_token = [arq |-> 0, aru |-> 0, seq |-> 0]
        /\ r.todo = load /\ r.Down = <<>> /\ r.cur = 0 /\ r.log = <<>>
    BY ONLY <1>o, <1>d DEF Differ, Fields
  <1>2. 0 \in Rings
    BY ProtocolAssumption DEF Rings
  <1>3. \A f \in Counters : r[f] \in Int
    BY ONLY <1>1 DEF Counters
  <1>4. DOMAIN r.Last_token = {"arq", "aru", "seq"} /\ r.Last_token.aru \in Int /\ r.Last_token.seq \in Int
    BY ONLY <1>1
  <1>5. r.Down \in Seq(Messages) /\ r.todo \in Seq(Messages) /\ r.cur \in Nat
    <2>1. <<>> \in Seq(Messages)
      OBVIOUS
    <2> QED BY ONLY <1>1, <2>1, load \in Seq(Messages)
  <1>6. DaemonTyped(r)
    BY ONLY <1>1, <1>2, <1>3, <1>4, <1>5, <1>d, p \in Procs DEF DaemonTyped
  <1>7. \A s : Exist(r, s) = 0
    <2>1. DOMAIN <<>> = {}
      OBVIOUS
    <2> QED BY ONLY <1>1, <2>1 DEF Exist
  <1>8. IsSeq(r.log) /\ DOMAIN r.log = {} /\ Told(r.log) = {}
    <2>1. <<>> \in Seq({}) /\ DOMAIN <<>> = {}
      OBVIOUS
    <2>2. r.log \in Seq({}) /\ DOMAIN r.log = {}
      BY ONLY <2>1, <1>1
    <2> QED BY ONLY <2>2 DEF IsSeq, Told
  <1>9. Good(r.log, <<>>)
    BY <1>8 DEF Good, NoRepeat, Pairs, InOrder
  <1>10. Fit(r, <<>>)
    <2>1. DOMAIN <<>> = {}
      OBVIOUS
    <2>2. Unheard(r, <<>>, r.Last_discarded) /\ Upto(r.log, <<>>, r.Last_delivered)
      BY ONLY <2>1 DEF Unheard, Upto
    <2>3. Here(r, <<>>) /\ Known(r)
      BY ONLY <1>7 DEF Here, Known
    <2>4. Passed(r)
      BY ONLY <1>1 DEF Passed
    <2>5. r.Last_discarded <= r.Last_delivered
      BY ONLY <1>1
    <2> QED BY ONLY <2>2, <2>3, <2>4, <2>5 DEF Fit
  <1>11. Queue(r) = load
    <2>1. <<>> \o load = load
      OBVIOUS
    <2> QED BY ONLY <1>1, <2>1 DEF Queue
  <1>12. Sane(r, <<>>)
    BY ONLY <1>6, <1>9, <1>10 DEF Sane
  <1> QED BY ONLY <1>1, <1>2, <1>d, <1>11, <1>12

\* The daemons of a configuration that has just started satisfy the invariant.
LEMMA InitSystem ==
  ASSUME Init
  PROVE  System
  <1>1. PICK s \in Starts :
          /\ d = [p \in Procs |-> IF p \in s.ring THEN Prot_init(p, s.load[p])
                                 ELSE [Prot_init(p, <<>>) EXCEPT !.State = "DOWN"]]
          /\ ring = [i \in Rings |-> IF i = 0 THEN s.ring ELSE {}]
          /\ pack = [i \in Rings |-> <<>>]
          /\ net = [p \in Procs |-> {}]
          /\ sent = [p \in Procs |-> IF p = Conf_last(s.ring)
                                     THEN [NoToken EXCEPT !.mid = 0, !.last = Conf_leader(s.ring)]
                                     ELSE NoToken]
          /\ form = [i \in Rings |-> NoForm]
    BY DEF Init
  <1>l. PICK load : load = [p \in Procs |-> IF p \in s.ring THEN s.load[p] ELSE <<>>]
    OBVIOUS
  <1>2. /\ s.ring \subseteq Procs /\ s.load \in [s.ring -> Seq(Messages)]
        /\ \A p, q \in s.ring : \A i \in DOMAIN s.load[p], j \in DOMAIN s.load[q] :
             s.load[p][i] = s.load[q][j] => p = q /\ i = j
    BY ProtocolAssumption
  <1>3. /\ \A p \in Procs : load[p] \in Seq(Messages)
        /\ \A p, q \in Procs : \A i \in DOMAIN load[p], j \in DOMAIN load[q] :
             load[p][i] = load[q][j] => p = q /\ i = j
    <2>1. \A p \in Procs : p \in s.ring => load[p] = s.load[p] /\ load[p] \in Seq(Messages)
      BY <1>2, <1>l
    <2>2. \A p \in Procs : p \notin s.ring => load[p] = <<>> /\ DOMAIN load[p] = {} /\ load[p] \in Seq(Messages)
      BY <1>l
    <2> QED BY <1>2, <2>1, <2>2
  <1>4. ASSUME NEW p \in Procs
        PROVE  /\ d[p].me = p /\ d[p].mid = 0 /\ d[p].State \in {"OP", "DOWN"} /\ Sane(d[p], <<>>)
               /\ Queue(d[p]) = load[p] /\ d[p].log = <<>> /\ 0 \in Rings
               /\ d[p].State # "DOWN" => p \in s.ring
    <2>1. CASE p \in s.ring
      <3>1. d[p] = Prot_init(p, load[p])
        BY <1>1, <1>l, <2>1
      <3>2. load[p] \in Seq(Messages)
        BY <1>3
      <3> QED BY <2>1, <3>1, <3>2, StartFacts
    <2>2. CASE p \notin s.ring
      <3>1. PICK o : o = Prot_init(p, load[p])
        OBVIOUS
      <3>2. d[p] = [o EXCEPT !.State = "DOWN"]
        BY <1>1, <1>l, <2>2, <3>1
      <3>3. o.State = "OP" /\ DOMAIN o = Fields
        BY ONLY <3>1, StartRecord, p \in Procs
      <3>4. load[p] \in Seq(Messages)
        BY <1>3
      <3>5. d[p].State = "DOWN"
        BY ONLY <3>2, <3>3 DEF Fields
      <3> QED BY <3>1, <3>2, <3>4, <3>5, StartFacts
    <2> QED BY <2>1, <2>2
  <1>5. Contents(<<>>) = {} /\ Told(<<>>) = {} /\ IsSeq(<<>>) /\ Len(<<>>) = 0 /\ DOMAIN <<>> = {}
    <2>1. DOMAIN <<>> = {} /\ <<>> \in Seq({}) /\ Len(<<>>) = 0
      OBVIOUS
    <2> QED BY <2>1 DEF Contents, Told, IsSeq
  <1>6. \A i \in Rings : pack[i] = <<>> /\ form[i] = NoForm
    BY <1>1
  <1>7. Shape(d, pack)
    <2>1. PackOK(<<>>)
      BY <1>5 DEF PackOK
    <2>2. \A p \in Procs : d[p].me = p /\ d[p].mid \in Rings /\ Sane(d[p], pack[d[p].mid])
      BY <1>4, <1>6
    <2>3. DOMAIN d = Procs /\ DOMAIN pack = Rings /\ pack = [i \in Rings |-> pack[i]]
      BY <1>1
    <2> QED BY <1>6, <2>1, <2>2, <2>3 DEF Shape
  <1>8. Queues(d, pack)
    <2>1. \A p \in Procs : NoDup(Queue(d[p]))
      BY <1>3, <1>4 DEF NoDup
    <2>2. \A p, q \in Procs : p # q => Pending(d[p]) \cap Pending(d[q]) = {}
      BY <1>3, <1>4 DEF Pending, Elements
    <2>3. \A i \in Rings : Contents(pack[i]) = {}
      BY <1>5, <1>6
    <2> QED BY <2>1, <2>2, <2>3 DEF Queues
  <1>9. Untold(d, pack, form)
    BY <1>4, <1>5 DEF Untold
  <1>10. Logs(d, pack)
    <2> SUFFICES ASSUME NEW p \in Procs PROVE LogFine(d[p].log, d[p].mid, pack)
      BY DEF Logs
    <2>1. Within(<<>>, Len(<<>>) + 1, 0)
      BY <1>5 DEF Within
    <2>2. LogFine(<<>>, 0, pack)
      BY <1>5, <2>1 DEF LogFine, NoRepeat, Pairs, InOrder
    <2> QED BY <1>4, <2>2
  <1>11. Forms(d, form)
    <2>1. NoForm.stage = 0 /\ FormTyped(NoForm)
      BY DEF NoForm, FormTyped, RingTyped
    <2>2. FormsTyped(form)
      BY <1>1, <1>6, <2>1 DEF FormsTyped
    <2>3. \A p \in Procs : \A i : ~Entered(d[p].log, i) /\ ~Joining(d[p], i)
      BY <1>4, <1>5 DEF Entered, Joining
    <2>4. \A p \in Procs : Passing(form, d[p], p)
      BY <1>4, <2>3 DEF Passing
    <2>5. \A p \in Procs : Waiting(form, d[p])
      BY <1>4 DEF Waiting
    <2> QED BY <2>2, <2>4, <2>5 DEF Forms
  <1>12. RingOrder(d)
    <2>1. \A p \in Procs : \A i, j : ~Entered(d[p].log, i) /\ ~Joining(d[p], i) /\ ~Pre(d[p].log, i, j)
      BY <1>4, <1>5 DEF Entered, Joining, Pre
    <2> QED BY <2>1 DEF RingOrder
  <1>13. Members(d, form, ring)
    <2>1. \A i \in Rings : form[i].wait = {} /\ ring[i] \subseteq Procs
      BY <1>1, <1>2 DEF NoForm
    <2>2. \A p \in Procs : /\ d[p].State # "DOWN" => p \in ring[d[p].mid]
                           /\ d[p].State = "FORM" => p \in ring[d[p].attempt]
                           /\ d[p].State = "EVS" => p \in ring[d[p].future]
      <3>1. ring[0] = s.ring
        <4>1. 0 \in Rings
          BY ProtocolAssumption DEF Rings
        <4> QED BY <1>1, <4>1
      <3> QED BY <1>4, <3>1
    <2>3. DOMAIN ring = Rings
      BY <1>1
    <2> QED BY <2>1, <2>2, <2>3 DEF Members
  <1>14. Tokens(sent)
    <2> SUFFICES ASSUME NEW p \in Procs PROVE TokenTyped(sent[p])
      BY <1>1 DEF Tokens
    <2>t. PICK t : t = sent[p]
      OBVIOUS
    <2>1. \/ t = NoToken
          \/ t = [NoToken EXCEPT !.mid = 0, !.last = Conf_leader(s.ring)]
      BY <1>1, <2>t
    <2>2. DOMAIN t = {"mid", "seq", "aru", "last", "fc", "rtr", "arq"} /\ t.seq = 0 /\ t.aru = 0 /\ t.fc = 0 /\ t.rtr = {}
      <3>1. CASE t = NoToken
        BY ONLY <3>1 DEF NoToken
      <3>2. CASE t = [NoToken EXCEPT !.mid = 0, !.last = Conf_leader(s.ring)]
        BY ONLY <3>2 DEF NoToken
      <3> QED BY <2>1, <3>1, <3>2
    <2> QED BY <2>2, <2>t, FS_EmptySet DEF TokenTyped, Bounded
  <1>15. Traffic(net, pack)
    BY <1>1 DEF Traffic
  <1> QED BY <1>7, <1>8, <1>9, <1>10, <1>11, <1>12, <1>13, <1>14, <1>15 DEF System, Data

\* Every step keeps the invariant.
LEMMA NextSystem ==
  ASSUME System, [Next]_vars
  PROVE  System'
  <1>1. CASE UNCHANGED vars
    BY <1>1 DEF vars, System
  <1>2. ASSUME NEW p \in Procs, Recv_token(p) PROVE System'
    BY <1>2, RecvTokenKeeps
  <1>3. ASSUME NEW p \in Procs, Recv_packet(p) PROVE System'
    BY <1>3, RecvPacketKeeps
  <1>4. ASSUME NEW p \in Procs, Groups_ready(p) PROVE System'
    BY <1>4, GroupsReadyKeeps
  <1>5. ASSUME NEW p \in Procs, Lose_token(p) PROVE System'
    BY <1>5, LoseTokenKeeps
  <1>6. ASSUME NEW p \in Procs, Create_form1(p) PROVE System'
    BY <1>6, CreateFormKeeps
  <1>7. ASSUME NEW p \in Procs, Recv_form1(p) PROVE System'
    BY <1>7, RecvForm1Keeps
  <1>8. ASSUME NEW p \in Procs, Recv_form2(p) PROVE System'
    BY <1>8, RecvForm2Keeps
  <1> QED BY <1>1, <1>2, <1>3, <1>4, <1>5, <1>6, <1>7, <1>8 DEF Next

\* The inductive invariant of the ordering protocol: what every daemon has, told
\* and still has to send fits together, over all daemons and memberships.
THEOREM SystemInvariant == Spec => []System
  <1>1. Init => System
    BY InitSystem
  <1>2. System /\ [Next]_vars => System'
    BY NextSystem
  <1> QED BY <1>1, <1>2, PTL DEF Spec

\* No daemon delivers a message twice (Deliver_packet of protocol.c), however
\* often packets and tokens arrive, and over any sequence of membership changes.
THEOREM DeliveredOnceHolds == Spec => []DeliveredOnce
  <1>1. System => DeliveredOnce
    BY ToldOnce DEF System, Data
  <1> QED BY <1>1, SystemInvariant, PTL

\* Any two daemons deliver the AGREED and SAFE messages that both deliver in the
\* same order (Deliver_agreed_packets, Discard_packets of protocol.c), across
\* token losses, partitions and merges.
THEOREM AgreedOrderHolds == Spec => []AgreedOrder
  <1>1. System => AgreedOrder
    BY OneOrder DEF System, Data
  <1> QED BY <1>1, SystemInvariant, PTL

-----------------------------------------------------------------------------
(* Self delivery: what a daemon does with its own packets *)

\* The messages that p completed in the packets P have been told.
Heard(log, P, p) == \A s \in DOMAIN P : P[s].from = p /\ P[s].index < 0 => P[s].msg \in Told(log)
\* Unless it ended, a daemon has its own packets until it has told their messages.
Kept(r, P) ==
  r.State # "EXIT" => \A s \in DOMAIN P : P[s].from = r.me /\ P[s].index < 0
                        => P[s].msg \in Told(r.log) \/ Exist(r, s) = 1
\* It is one of the daemons whose packets it delivers past a hole.
Own(r, P) ==
  /\ DOMAIN r = Fields /\ IsSeq(r.log) /\ Here(r, P) /\ Kept(r, P)
  /\ r.me \in r.Commit_set.commit
  /\ r.State = "EVS" => r.me \in r.Future_commit_set.commit
\* q is r after work that sends nothing.
Cares(r, q, P) ==
  /\ Own(q, P) /\ Told(r.log) \subseteq Told(q.log) /\ q.State \in {r.State, "EXIT"}
  /\ q.me = r.me /\ q.mid = r.mid /\ q.future = r.future /\ q.Down = r.Down /\ q.cur = r.cur

\* Fields that have nothing to do with the own packets.
Minor == {"State", "Highest_seq", "My_aru", "Aru", "Last_discarded", "Last_delivered", "Last_seq",
          "threshold", "Just_Installed", "Last_token", "Last_num", "Commit_set", "Up"}
Marks == {"State", "Highest_seq", "My_aru", "Aru", "Last_discarded", "Last_delivered", "Last_seq",
          "threshold", "Just_Installed", "Last_token", "Last_num", "Up"}

\* Doing nothing.
LEMMA CaresSame ==
  ASSUME NEW r, NEW P, Own(r, P)
  PROVE  Cares(r, r, P)
  BY DEF Cares

\* Doing two things.
LEMMA CaresTwice ==
  ASSUME NEW r, NEW q, NEW u, NEW P, Cares(r, q, P), Cares(q, u, P)
  PROVE  Cares(r, u, P)
  BY DEF Cares

\* Counters change, or the daemon ends.
LEMMA CaresMinor ==
  ASSUME NEW r, NEW q, NEW P, NEW F, Own(r, P), Differ(q, r, F), F \subseteq Minor,
         q.State \in {r.State, "EXIT"}, q.me \in q.Commit_set.commit
  PROVE  Cares(r, q, P)
  <1>1. /\ DOMAIN q = Fields /\ q.log = r.log /\ q.Packets = r.Packets /\ q.me = r.me /\ q.mid = r.mid
        /\ q.future = r.future /\ q.Down = r.Down /\ q.cur = r.cur /\ q.Future_commit_set = r.Future_commit_set
    BY DEF Differ, Fields, Minor
  <1>2. \A s : Exist(q, s) = Exist(r, s)
    BY <1>1 DEF Exist
  <1>3. Here(q, P) /\ Kept(q, P)
    BY <1>1, <1>2 DEF Own, Here, Kept
  <1>4. Own(q, P)
    BY <1>1, <1>3 DEF Own
  <1> QED BY <1>1, <1>4 DEF Cares

\* Work goes on with counters that change.
LEMMA CaresCounters ==
  ASSUME NEW r, NEW u, NEW q, NEW P, Cares(r, u, P), Differ(q, u, Marks),
         q.State \in {u.State, "EXIT"}
  PROVE  Cares(r, q, P)
  <1>1. q.me = u.me /\ q.Commit_set = u.Commit_set
    BY DEF Differ, Fields, Marks
  <1>2. Own(u, P)
    BY DEF Cares
  <1>3. q.me \in q.Commit_set.commit /\ Marks \subseteq Minor
    BY <1>1, <1>2 DEF Own, Marks, Minor
  <1>4. Cares(u, q, P)
    BY <1>2, <1>3, CaresMinor
  <1> QED BY <1>4, CaresTwice

\* The daemon ends.
LEMMA CaresExit ==
  ASSUME NEW r, NEW P, Own(r, P)
  PROVE  Cares(r, Exit(r), P)
  <1>1. Differ(Exit(r), r, {"State"}) /\ Exit(r).State = "EXIT"
    BY ExitFacts DEF Own
  <1>2. Exit(r).Commit_set = r.Commit_set /\ Exit(r).me = r.me
    BY <1>1 DEF Differ, Fields
  <1>3. {"State"} \subseteq Minor
    BY DEF Minor
  <1> QED BY <1>1, <1>2, <1>3, CaresMinor DEF Own

\* One more entry in a log.
LEMMA AppendTold ==
  ASSUME NEW s, IsSeq(s), NEW e
  PROVE  /\ IsSeq(s \o <<e>>) /\ Told(s) \subseteq Told(s \o <<e>>)
         /\ e[1] = "msg" => e[2] \in Told(s \o <<e>>)
  <1> DEFINE t == s \o <<e>>
  <1>1. /\ IsSeq(t) /\ \A x \in DOMAIN s : t[x] = s[x]
        /\ t[Len(s) + 1] = e /\ DOMAIN t = DOMAIN s \cup {Len(s) + 1}
    BY AppendFacts
  <1> HIDE DEF t
  <1>2. Told(s) \subseteq Told(t)
    BY <1>1 DEF Told
  <1>3. e[1] = "msg" => e[2] \in Told(t)
    BY <1>1 DEF Told
  <1> QED BY <1>1, <1>2, <1>3 DEF t

\* What a packet that goes up adds to the log.
LEMMA PacketTold ==
  ASSUME NEW log, NEW k \in PacketSet, IsSeq(log)
  PROVE  LET new == log \o (IF k.index < 0 THEN <<<<"msg", k.msg>>>> ELSE <<>>) \o k.also
         IN  IsSeq(new) /\ Told(log) \subseteq Told(new) /\ (k.index < 0 => k.msg \in Told(new))
  <1> PICK e : e = <<"msg", k.msg>>
    OBVIOUS
  <1> PICK one : one = log \o (IF k.index < 0 THEN <<e>> ELSE <<>>)
    OBVIOUS
  <1> PICK new : new = one \o k.also
    OBVIOUS
  <1>1. IsSeq(one) /\ Told(log) \subseteq Told(one) /\ (k.index < 0 => k.msg \in Told(one))
    <2>1. CASE k.index < 0
      <3>1. one = log \o <<e>> /\ e[1] = "msg" /\ e[2] = k.msg
        BY <2>1
      <3> QED BY <3>1, AppendTold
    <2>2. CASE ~(k.index < 0)
      BY <2>2, EmptyConcat
    <2> QED BY <2>1, <2>2
  <1>2. IsSeq(new) /\ Told(one) \subseteq Told(new)
    <2>1. CASE k.also = <<>>
      <3>1. new = one
        BY ONLY <1>1, <2>1, new = one \o k.also, EmptyConcat
      <3> QED BY <1>1, <3>1
    <2>2. ASSUME NEW m, k.also = <<<<"msg", m>>>> PROVE IsSeq(new) /\ Told(one) \subseteq Told(new)
      <3>1. PICK f : f = <<"msg", m>>
        OBVIOUS
      <3>2. new = one \o <<f>>
        BY <2>2, <3>1
      <3> QED BY <1>1, <3>2, AppendTold
    <2>3. k.also = <<>> \/ \E m : k.also = <<<<"msg", m>>>>
      BY DEF PacketSet
    <2> QED BY <2>1, <2>2, <2>3
  <1> QED BY <1>1, <1>2

\* A packet goes up: its message is told then.
LEMMA OwnDeliver ==
  ASSUME NEW r, NEW P, NEW s \in DOMAIN P, PackOK(P), Own(r, P)
  PROVE  LET q == Deliver_packet(r, P, s)
         IN  /\ Cares(r, q, P)
             /\ q.State # "EXIT" /\ P[s].index < 0 => P[s].msg \in Told(q.log)
  <1> DEFINE new == r.log \o (IF P[s].index < 0 THEN <<<<"msg", P[s].msg>>>> ELSE <<>>) \o P[s].also
  <1> PICK q : q = Deliver_packet(r, P, s)
    OBVIOUS
  <1>1. P[s] \in PacketSet /\ DOMAIN r = Fields /\ IsSeq(r.log)
    BY DEF PackOK, Own
  <1>2. IsSeq(new) /\ Told(r.log) \subseteq Told(new) /\ (P[s].index < 0 => P[s].msg \in Told(new))
    BY <1>1, PacketTold
  <1>3. q = Exit(r) \/ \E U : q = SetExist([r EXCEPT !.Up = U, !.log = new], s, 2)
    BY <1>1 DEF Deliver_packet, Fields
  <1> HIDE DEF new
  <1>4. CASE q = Exit(r)
    <2>1. Cares(r, q, P) /\ q.State = "EXIT"
      BY <1>1, <1>4, CaresExit, ExitFacts
    <2> QED BY <2>1
  <1>5. CASE \E U : q = SetExist([r EXCEPT !.Up = U, !.log = new], s, 2)
    <2>1. PICK U : q = SetExist([r EXCEPT !.Up = U, !.log = new], s, 2)
      BY <1>5
    <2>2. PICK u : u = [r EXCEPT !.Up = U, !.log = new]
      OBVIOUS
    <2>3. Differ(u, r, {"Up", "log"}) /\ u.log = new /\ DOMAIN u = Fields /\ \A x : Exist(u, x) = Exist(r, x)
      BY <1>1, <2>2 DEF Differ, Fields, Exist
    <2>4. /\ Differ(q, u, {"Packets"}) /\ Exist(q, s) = 2
          /\ \A x : x # s => Exist(q, x) = Exist(u, x)
      <3>1. q = SetExist(u, s, 2)
        BY <2>1, <2>2
      <3> QED BY <2>3, <3>1, ExistSet
    <2>5. /\ q.log = new /\ q.State = r.State /\ q.me = r.me /\ q.mid = r.mid /\ q.future = r.future /\ DOMAIN q = Fields
          /\ q.Down = r.Down /\ q.cur = r.cur /\ q.Commit_set = r.Commit_set /\ q.Future_commit_set = r.Future_commit_set
      BY <2>3, <2>4 DEF Differ, Fields
    <2>6. \A x : Exist(q, x) = IF x = s THEN 2 ELSE Exist(r, x)
      BY <2>3, <2>4
    <2>7. Here(q, P)
      BY <2>6 DEF Own, Here
    <2>8. Kept(q, P)
      <3> SUFFICES ASSUME q.State # "EXIT", NEW t \in DOMAIN P, P[t].from = q.me, P[t].index < 0,
                          P[t].msg \notin Told(q.log)
                   PROVE  Exist(q, t) = 1
        BY DEF Kept
      <3>1. t # s /\ P[t].msg \notin Told(r.log)
        BY <1>2, <2>5
      <3>2. Exist(r, t) = 1
        BY <2>5, <3>1 DEF Own, Kept
      <3> QED BY <2>6, <3>1, <3>2
    <2>9. Own(q, P)
      BY <1>2, <2>5, <2>7, <2>8 DEF Own
    <2> QED BY <1>2, <2>5, <2>9 DEF Cares
  <1> QED BY <1>3, <1>4, <1>5

\* A packet leaves that is not the daemon's own, or whose message was told.
LEMMA OwnDrop ==
  ASSUME NEW r, NEW P, NEW s, Own(r, P),
         Exist(r, s) = 1 /\ P[s].from = r.me /\ P[s].index < 0 /\ r.State # "EXIT" => P[s].msg \in Told(r.log)
  PROVE  Cares(r, Drop(r, s), P)
  <1> PICK q : q = Drop(r, s)
    OBVIOUS
  <1>1. Differ(q, r, {"Packets"}) /\ Exist(q, s) = 0 /\ \A x : x # s => Exist(q, x) = Exist(r, x)
    BY ExistDrop DEF Own
  <1>2. /\ q.log = r.log /\ q.State = r.State /\ q.me = r.me /\ q.mid = r.mid /\ q.future = r.future /\ DOMAIN q = Fields
        /\ q.Down = r.Down /\ q.cur = r.cur /\ q.Commit_set = r.Commit_set /\ q.Future_commit_set = r.Future_commit_set
    BY <1>1 DEF Differ, Fields
  <1>3. Here(q, P)
    BY <1>1 DEF Own, Here
  <1>4. Kept(q, P)
    <2> SUFFICES ASSUME q.State # "EXIT", NEW t \in DOMAIN P, P[t].from = q.me, P[t].index < 0,
                        P[t].msg \notin Told(q.log)
                 PROVE  Exist(q, t) = 1
      BY DEF Kept
    <2>1. Exist(r, t) = 1
      BY <1>2 DEF Own, Kept
    <2>2. t # s
      BY <1>2, <2>1
    <2> QED BY <1>1, <2>1, <2>2
  <1>5. Own(q, P)
    BY <1>2, <1>3, <1>4 DEF Own
  <1> QED BY <1>2, <1>5 DEF Cares

\* Discard delivers a packet before it leaves, if it still has to be delivered.
LEMMA OwnDiscard ==
  ASSUME NEW r, NEW P, NEW s, PackOK(P), Own(r, P)
  PROVE  Cares(r, Discard(r, P, s), P)
  <1>1. CASE Exist(r, s) = 1
    <2>1. s \in DOMAIN P
      BY <1>1 DEF Own, Here
    <2>2. PICK q : q = Deliver_packet(r, P, s)
      OBVIOUS
    <2>3. /\ Cares(r, q, P)
          /\ q.State # "EXIT" /\ P[s].index < 0 => P[s].msg \in Told(q.log)
      BY <2>1, <2>2, OwnDeliver
    <2>4. Cares(q, Drop(q, s), P)
      <3>1. Own(q, P)
        BY <2>3 DEF Cares
      <3>2. Exist(q, s) = 1 /\ P[s].from = q.me /\ P[s].index < 0 /\ q.State # "EXIT" => P[s].msg \in Told(q.log)
        BY <2>3
      <3> QED BY ONLY <3>1, <3>2, OwnDrop
    <2>5. Discard(r, P, s) = Drop(q, s)
      BY <1>1, <2>2 DEF Discard
    <2> QED BY <2>3, <2>4, <2>5, CaresTwice
  <1>2. CASE Exist(r, s) # 1
    <2>1. Discard(r, P, s) = Drop(r, s)
      BY <1>2 DEF Discard
    <2> QED BY <1>2, <2>1, OwnDrop
  <1> QED BY <1>1, <1>2

\* The loops that deliver packets, and the daemon in what they hand on.
Deliveries == {"agreed", "reliable", "stable", "before", "after"}
Pairing == {"agreed", "before", "after"}
Hand(loop, x) == IF loop \in Pairing THEN x.r ELSE x
Handed(loop, x, P) == (loop \in Pairing => "r" \in DOMAIN x) /\ Own(Hand(loop, x), P)

\* Whatever turn a loop makes, the daemon cares for its own packets.
LEMMA OwnTurn ==
  ASSUME NEW loop \in Deliveries, NEW P, NEW x, NEW i, PackOK(P), Handed(loop, x, P)
  PROVE  LET y == Body(loop, P, x, i)
         IN  Handed(loop, y, P) /\ Cares(Hand(loop, x), Hand(loop, y), P)
  <1> PICK y : y = Body(loop, P, x, i)
    OBVIOUS
  <1> PICK r : r = Hand(loop, x)
    OBVIOUS
  <1> SUFFICES (loop \in Pairing => "r" \in DOMAIN y) /\ Cares(r, Hand(loop, y), P)
    BY DEF Handed, Cares
  <1>1. Own(r, P) /\ (Exist(r, i) = 1 => i \in DOMAIN P) /\ Cares(r, r, P) /\ Cares(r, Exit(r), P)
    BY CaresSame, CaresExit DEF Handed, Own, Here
  <1>2. Exist(r, i) = 1 => Cares(r, Deliver_packet(r, P, i), P)
    BY <1>1, OwnDeliver
  <1>3. Cares(r, Discard(r, P, i), P)
    BY <1>1, OwnDiscard
  <1>4. CASE loop = "agreed"
    <2>1. y = AgreedPacket(P, x, i) /\ r = x.r /\ "r" \in DOMAIN x /\ Hand(loop, y) = y.r
      BY <1>4 DEF Body, Hand, Pairing, Handed
    <2>2. ASSUME NEW u, NEW q, Cares(r, u, P), q = [u EXCEPT !.Last_delivered = @ + 1]
          PROVE  Cares(r, q, P)
      <3>1. Differ(q, u, {"Last_delivered"})
        BY <2>2 DEF Cares, Own, Differ, Fields
      <3>2. Differ(q, u, Marks) /\ q.State = u.State
        BY <3>1 DEF Differ, Fields, Marks
      <3> QED BY <2>2, <3>1, <3>2, CaresCounters
    <2>3. \/ y.r = r \/ y.r = Exit(r)
          \/ Exist(r, i) = 1 /\ y.r = [Deliver_packet(r, P, i) EXCEPT !.Last_delivered = @ + 1]
          \/ y.r = [r EXCEPT !.Last_delivered = @ + 1]
      BY <2>1 DEF AgreedPacket
    <2>4. "r" \in DOMAIN y
      BY <2>1 DEF AgreedPacket
    <2> QED BY <1>1, <1>2, <2>1, <2>2, <2>3, <2>4
  <1>5. CASE loop = "reliable"
    <2>1. y = ReliablePacket(P, x, i) /\ r = x /\ Hand(loop, y) = y /\ loop \notin Pairing
      BY <1>5 DEF Body, Hand, Pairing
    <2>2. y = r \/ (Exist(r, i) = 1 /\ y = Deliver_packet(r, P, i))
      BY <2>1 DEF ReliablePacket
    <2> QED BY <1>1, <1>2, <2>1, <2>2
  <1>6. CASE loop = "stable"
    <2>1. y = StablePacket(P, x, i) /\ r = x /\ Hand(loop, y) = y /\ loop \notin Pairing
      BY <1>6 DEF Body, Hand, Pairing
    <2>2. y = Exit(r) \/ y = Discard(r, P, i)
      BY <2>1 DEF StablePacket
    <2> QED BY <1>1, <1>3, <2>1, <2>2
  <1>7. CASE loop = "before"
    <2>1. y = PacketBefore(P, x, i) /\ r = x.r /\ "r" \in DOMAIN x /\ Hand(loop, y) = y.r
      BY <1>7 DEF Body, Hand, Pairing, Handed
    <2>2. \/ y.r = r \/ y.r = Exit(r)
          \/ y.r = [Discard(r, P, i) EXCEPT !.Last_discarded = i]
      BY <2>1 DEF PacketBefore
    <2>3. "r" \in DOMAIN y
      BY <2>1 DEF PacketBefore
    <2>4. ASSUME NEW q, q = [Discard(r, P, i) EXCEPT !.Last_discarded = i] PROVE Cares(r, q, P)
      <3>1. PICK u : u = Discard(r, P, i)
        OBVIOUS
      <3>2. Cares(r, u, P) /\ q = [u EXCEPT !.Last_discarded = i]
        BY <1>3, <2>4, <3>1
      <3>3. Differ(q, u, {"Last_discarded"})
        BY <3>2 DEF Cares, Own, Differ, Fields
      <3>4. Differ(q, u, Marks) /\ q.State = u.State
        BY <3>3 DEF Differ, Fields, Marks
      <3> QED BY <3>2, <3>3, <3>4, CaresCounters
    <2> QED BY <1>1, <2>1, <2>2, <2>3, <2>4
  <1>8. CASE loop = "after"
    <2>1. y = PacketAfter(P, x, i) /\ r = x.r /\ "r" \in DOMAIN x /\ Hand(loop, y) = y.r
      BY <1>8 DEF Body, Hand, Pairing, Handed
    <2>2. \/ y.r = Exit(r) \/ y.r = Discard(r, P, i)
          \/ y.r = Drop(r, i) /\ (Exist(r, i) = 3 \/ P[i].from \notin r.Commit_set.commit)
      BY <2>1 DEF PacketAfter
    <2>3. "r" \in DOMAIN y
      BY <2>1 DEF PacketAfter
    <2>4. Exist(r, i) = 3 \/ P[i].from \notin r.Commit_set.commit => Cares(r, Drop(r, i), P)
      BY <1>1, OwnDrop DEF Own
    <2> QED BY <1>1, <1>3, <2>1, <2>2, <2>3, <2>4
  <1> QED BY <1>4, <1>5, <1>6, <1>7, <1>8 DEF Deliveries

\* A daemon cares for its own packets over a whole loop.
LEMMA OwnLoop ==
  ASSUME NEW loop \in Deliveries, NEW P, NEW x, NEW a \in Int, NEW b \in Int, PackOK(P), Handed(loop, x, P)
  PROVE  Cares(Hand(loop, x), Hand(loop, Run(loop, P, x, a, b)), P)
  <1>1. PICK c : Chain(c, loop, P, x, a, b) /\ Run(loop, P, x, a, b) = c[Turns(a, b)]
    BY Loop
  <1> PICK n : n = Turns(a, b)
    OBVIOUS
  <1>2. n \in Nat
    BY TurnsNat
  <1> DEFINE S == {k \in Nat : k <= n => Handed(loop, c[k], P) /\ Cares(Hand(loop, x), Hand(loop, c[k]), P)}
  <1>3. 0 \in S
    BY <1>1, CaresSame DEF Chain, Handed
  <1>4. ASSUME NEW k \in Nat, k \in S PROVE k + 1 \in S
    <2> SUFFICES ASSUME k + 1 <= n
                 PROVE  Handed(loop, c[k + 1], P) /\ Cares(Hand(loop, x), Hand(loop, c[k + 1]), P)
      OBVIOUS
    <2>1. Handed(loop, c[k], P) /\ Cares(Hand(loop, x), Hand(loop, c[k]), P)
      BY <1>2, <1>4
    <2>2. c[k + 1] = Body(loop, P, c[k], a + k)
      <3>1. k + 1 \in 1 .. n /\ (k + 1) - 1 = k /\ a + (k + 1) - 1 = a + k
        BY <1>2
      <3> QED BY <1>1, <3>1 DEF Chain
    <2>3. Handed(loop, c[k + 1], P) /\ Cares(Hand(loop, c[k]), Hand(loop, c[k + 1]), P)
      BY <2>1, <2>2, OwnTurn
    <2> QED BY <2>1, <2>3, CaresTwice
  <1>5. n \in S
    <2> HIDE DEF S
    <2> QED BY <1>2, <1>3, <1>4, EveryNatural
  <1> QED BY <1>1, <1>2, <1>5

\* Deliver_agreed_packets
LEMMA OwnAgreed ==
  ASSUME NEW r, NEW P, PackOK(P), Own(r, P), DaemonTyped(r)
  PROVE  Cares(r, Deliver_agreed_packets(r, P), P)
  <1>1. CASE r.State \in {"EVS", "EXIT"} \/ r.threshold > Agreed
    BY <1>1, CaresSame DEF Deliver_agreed_packets
  <1>2. CASE ~(r.State \in {"EVS", "EXIT"} \/ r.threshold > Agreed)
    <2>1. PICK x : x = [r |-> r, stop |-> FALSE]
      OBVIOUS
    <2>2. PICK a, b : a = r.Last_delivered + 1 /\ b = r.My_aru
      OBVIOUS
    <2>3. a \in Int /\ b \in Int
      BY <2>2, TypedFacts
    <2>4. Deliver_agreed_packets(r, P) = AgreedFold(P, x, a, b).r
      BY <1>2, <2>1, <2>2 DEF Deliver_agreed_packets, AgreedFold
    <2>5. PICK loop : loop = "agreed"
      OBVIOUS
    <2>6. AgreedFold(P, x, a, b) = Run(loop, P, x, a, b)
      BY <2>5, AgreedRun
    <2>7. loop \in Deliveries /\ Handed(loop, x, P) /\ Hand(loop, x) = r /\ \A y : Hand(loop, y) = y.r
      BY <2>1, <2>5 DEF Deliveries, Pairing, Handed, Hand
    <2>8. Cares(Hand(loop, x), Hand(loop, Run(loop, P, x, a, b)), P)
      BY <2>3, <2>7, OwnLoop
    <2> QED BY <2>4, <2>6, <2>7, <2>8
  <1> QED BY <1>1, <1>2

\* Deliver_reliable_packets
LEMMA OwnReliable ==
  ASSUME NEW r, NEW P, PackOK(P), Own(r, P), DaemonTyped(r), NEW start \in Int, NEW num \in Int
  PROVE  Cares(r, Deliver_reliable_packets(r, P, start, num), P)
  <1>1. CASE r.State \in {"EVS", "EXIT"} \/ r.threshold > Reliable
    BY <1>1, CaresSame DEF Deliver_reliable_packets
  <1>2. CASE ~(r.State \in {"EVS", "EXIT"} \/ r.threshold > Reliable)
    <2>1. PICK a, b : a = Larger(start, r.Last_delivered + 1) /\ b = start + num - 1
      OBVIOUS
    <2>2. a \in Int /\ b \in Int
      BY <2>1, TypedFacts DEF Larger
    <2>3. Deliver_reliable_packets(r, P, start, num) = ReliableFold(P, r, a, b)
      BY <1>2, <2>1 DEF Deliver_reliable_packets, ReliableFold
    <2>4. PICK loop : loop = "reliable"
      OBVIOUS
    <2>5. ReliableFold(P, r, a, b) = Run(loop, P, r, a, b)
      BY <2>4, ReliableRun
    <2>6. loop \in Deliveries /\ Handed(loop, r, P) /\ \A y : Hand(loop, y) = y
      BY <2>4 DEF Deliveries, Pairing, Handed, Hand
    <2>7. Cares(Hand(loop, r), Hand(loop, Run(loop, P, r, a, b)), P)
      BY <2>2, <2>6, OwnLoop
    <2> QED BY <2>3, <2>5, <2>6, <2>7
  <1> QED BY <1>1, <1>2

\* Discard_packets outside of a recovery.
LEMMA OwnStable ==
  ASSUME NEW r, NEW P, PackOK(P), Own(r, P), DaemonTyped(r)
  PROVE  Cares(r, DiscardStable(r, P), P)
  <1>1. PICK a, b : a = r.Last_discarded + 1 /\ b = r.Aru
    OBVIOUS
  <1>2. a \in Int /\ b \in Int
    BY <1>1, TypedFacts
  <1>3. PICK f : f = StableFold(P, r, a, b)
    OBVIOUS
  <1>4. PICK q : q = DiscardStable(r, P)
    OBVIOUS
  <1>5. q = [f EXCEPT !.Last_discarded = r.Aru, !.Last_delivered = Larger(@, r.Aru)]
    BY <1>1, <1>3, <1>4 DEF DiscardStable, StableFold
  <1>6. Cares(r, f, P)
    <2>1. PICK loop : loop = "stable"
      OBVIOUS
    <2>2. StableFold(P, r, a, b) = Run(loop, P, r, a, b)
      BY <2>1, StableRun
    <2>3. loop \in Deliveries /\ Handed(loop, r, P) /\ \A y : Hand(loop, y) = y
      BY <2>1 DEF Deliveries, Pairing, Handed, Hand
    <2>4. Cares(Hand(loop, r), Hand(loop, Run(loop, P, r, a, b)), P)
      BY <1>2, <2>3, OwnLoop
    <2> QED BY <1>3, <2>2, <2>3, <2>4
  <1>7. Differ(q, f, {"Last_discarded", "Last_delivered"})
    BY <1>5, <1>6 DEF Cares, Own, Differ, Fields
  <1>8. Differ(q, f, Marks) /\ q.State = f.State
    BY <1>7 DEF Differ, Fields, Marks
  <1> QED BY <1>4, <1>6, <1>8, CaresCounters

\* r has delivered all of its packets in P, and installed its next membership.
Leaves(r, q, P) ==
  /\ r.State = "EVS" /\ q.State \in {"OP", "EXIT"} /\ q.mid = r.future
  /\ q.me = r.me /\ q.Down = r.Down /\ q.cur = 0
  /\ DOMAIN q = Fields /\ IsSeq(q.log) /\ \A s : Exist(q, s) = 0
  /\ Told(r.log) \subseteq Told(q.log) /\ Heard(q.log, P, q.me) /\ q.me \in q.Commit_set.commit

\* A daemon without packets installs its next membership.
LEMMA OwnInstall ==
  ASSUME NEW r, NEW u, NEW P, r.State = "EVS", Cares(r, u, P), u.State # "EXIT"
  PROVE  Cares(r, Install(u), P) \/ Leaves(r, Install(u), P)
  <1>1. CASE DOMAIN u.Packets # {}
    <2>1. Install(u) = Exit(u)
      BY <1>1 DEF Install
    <2>2. Cares(u, Exit(u), P)
      BY CaresExit DEF Cares
    <2> QED BY <2>1, <2>2, CaresTwice
  <1>2. CASE DOMAIN u.Packets = {}
    <2>1. PICK q : q = Install(u)
      OBVIOUS
    <2>2. PICK e : e = <<"reg", u.future>>
      OBVIOUS
    <2>3. DOMAIN u = Fields /\ IsSeq(u.log) /\ u.State = "EVS" /\ Kept(u, P)
      BY DEF Cares, Own
    <2>4. /\ DOMAIN q = Fields /\ q.State = "OP" /\ q.mid = u.future /\ q.me = u.me /\ q.Down = u.Down /\ q.cur = 0
          /\ q.Commit_set.commit = {u.me} /\ q.Packets = u.Packets /\ q.log = Append(u.log, e)
      BY <1>2, <2>1, <2>2, <2>3 DEF Install, Fields
    <2>5. \A s : Exist(u, s) = 0 /\ Exist(q, s) = 0
      BY <1>2, <2>4 DEF Exist
    <2>6. q.log = u.log \o <<e>> /\ IsSeq(q.log) /\ Told(u.log) \subseteq Told(q.log)
      <3>1. Append(u.log, e) = u.log \o <<e>>
        BY <2>3, AppendFacts
      <3>2. IsSeq(u.log \o <<e>>) /\ Told(u.log) \subseteq Told(u.log \o <<e>>)
        BY <2>3, AppendTold
      <3> QED BY <2>4, <3>1, <3>2
    <2>7. Heard(q.log, P, q.me)
      <3> SUFFICES ASSUME NEW s \in DOMAIN P, P[s].from = q.me, P[s].index < 0 PROVE P[s].msg \in Told(q.log)
        BY DEF Heard
      <3>1. P[s].msg \in Told(u.log) \/ Exist(u, s) = 1
        BY <2>3, <2>4 DEF Kept
      <3>2. P[s].msg \in Told(u.log)
        BY <2>5, <3>1
      <3> QED BY <2>6, <3>2
    <2>8. Leaves(r, q, P)
      BY <2>4, <2>5, <2>6, <2>7 DEF Leaves, Cares
    <2> QED BY <2>1, <2>8
  <1> QED BY <1>1, <1>2

\* Discard_packets
LEMMA OwnDiscarding ==
  ASSUME NEW r, NEW P, PackOK(P), Sane(r, P), Own(r, P)
  PROVE  Cares(r, Discard_packets(r, P), P) \/ Leaves(r, Discard_packets(r, P), P)
  <1>1. CASE \/ r.Aru <= r.Last_discarded \/ r.State = "EXIT"
             \/ r.State = "EVS" /\ r.Aru # r.Last_seq
    BY <1>1, CaresSame DEF Discard_packets
  <1>2. CASE ~(r.Aru <= r.Last_discarded) /\ r.State # "EXIT" /\ r.State # "EVS"
    <2>1. Discard_packets(r, P) = DiscardStable(r, P)
      BY <1>2 DEF Discard_packets
    <2> QED BY <2>1, OwnStable DEF Sane
  <1>3. CASE ~(r.Aru <= r.Last_discarded) /\ r.State = "EVS" /\ r.Aru = r.Last_seq
    <2> PICK before : before = DeliverBeforeTransitional(r, P)
      OBVIOUS
    <2> PICK e : e = <<"trans", r.Commit_set.trans>>
      OBVIOUS
    <2> PICK trans : trans = [before EXCEPT !.log = Append(@, e)]
      OBVIOUS
    <2> PICK after : after = DeliverAfterTransitional(trans, P)
      OBVIOUS
    <2>1. Discard_packets(r, P) = IF after.State = "EXIT" THEN after ELSE Install(after)
      BY <1>3 DEF Discard_packets
    <2>2. /\ r.Last_discarded + 1 \in Int /\ r.Highest_seq \in Int
          /\ before.Last_discarded + 1 \in Int /\ before.Highest_seq \in Int
      <3>1. r.Last_discarded \in Int /\ r.Highest_seq \in Int
        BY TypedFacts DEF Sane
      <3>2. Changes(r, before, P) /\ before.Last_discarded \in Int
        BY <1>3, BeforeLoop
      <3>3. before.Highest_seq = r.Highest_seq
        BY <3>2 DEF Changes, Differ, Fields, Handled
      <3> QED BY <3>1, <3>2, <3>3
    <2>3. Cares(r, before, P)
      <3>1. PICK x, a, b, loop : x = [r |-> r, stop |-> FALSE] /\ a = r.Last_discarded + 1 /\ b = r.Highest_seq /\ loop = "before"
        OBVIOUS
      <3>2. before = Run(loop, P, x, a, b).r
        <4>1. before = BeforeFold(P, x, a, b).r
          BY <3>1 DEF DeliverBeforeTransitional, BeforeFold
        <4> QED BY <3>1, <4>1, BeforeRun
      <3>3. loop \in Deliveries /\ Handed(loop, x, P) /\ Hand(loop, x) = r /\ \A y : Hand(loop, y) = y.r
        BY <3>1 DEF Deliveries, Pairing, Handed, Hand
      <3>4. a \in Int /\ b \in Int
        BY <2>2, <3>1
      <3>5. Cares(Hand(loop, x), Hand(loop, Run(loop, P, x, a, b)), P)
        BY <3>3, <3>4, OwnLoop
      <3> QED BY <3>2, <3>3, <3>5
    <2>4. Cares(before, trans, P)
      <3>1. DOMAIN before = Fields /\ IsSeq(before.log) /\ Own(before, P)
        BY <2>3 DEF Cares, Own
      <3>2. IsSeq(before.log \o <<e>>) /\ Told(before.log) \subseteq Told(before.log \o <<e>>)
        BY <3>1, AppendTold
      <3>3. Append(before.log, e) = before.log \o <<e>>
        BY <3>1, AppendFacts
      <3>4. Differ(trans, before, {"log"}) /\ trans.log = before.log \o <<e>> /\ \A s : Exist(trans, s) = Exist(before, s)
        BY <3>1, <3>3 DEF Differ, Fields, Exist
      <3>5. /\ trans.State = before.State /\ trans.me = before.me /\ trans.mid = before.mid /\ trans.future = before.future
            /\ trans.Down = before.Down /\ trans.cur = before.cur /\ trans.Commit_set = before.Commit_set
            /\ trans.Future_commit_set = before.Future_commit_set /\ DOMAIN trans = Fields
            /\ IsSeq(trans.log) /\ Told(before.log) \subseteq Told(trans.log)
        BY <3>2, <3>4 DEF Differ, Fields
      <3>6. Here(trans, P) /\ Kept(trans, P)
        <4>1. Here(before, P) /\ Kept(before, P)
          BY <3>1 DEF Own
        <4>2. \A s : Exist(trans, s) = Exist(before, s)
          BY <3>4
        <4>3. Here(trans, P)
          BY ONLY <4>1, <4>2 DEF Here
        <4>4. Kept(trans, P)
          BY ONLY <3>5, <4>1, <4>2 DEF Kept
        <4> QED BY <4>3, <4>4
      <3>7. Own(trans, P)
        BY <3>1, <3>5, <3>6 DEF Own
      <3> QED BY <3>5, <3>7 DEF Cares
    <2>5. trans.Last_discarded + 1 \in Int /\ trans.Highest_seq \in Int
      <3>1. DOMAIN before = Fields
        BY <2>3 DEF Cares, Own
      <3>2. trans.Last_discarded = before.Last_discarded /\ trans.Highest_seq = before.Highest_seq
        BY <3>1 DEF Fields
      <3> QED BY <2>2, <3>2
    <2>6. Cares(trans, after, P)
      <3>1. PICK x, a, b, loop : /\ x = [r |-> trans, hole |-> FALSE] /\ a = trans.Last_discarded + 1
                                 /\ b = trans.Highest_seq /\ loop = "after"
        OBVIOUS
      <3>2. after = Run(loop, P, x, a, b).r
        <4>1. after = AfterFold(P, x, a, b).r
          BY <3>1 DEF DeliverAfterTransitional, AfterFold
        <4> QED BY <3>1, <4>1, AfterRun
      <3>3. loop \in Deliveries /\ Handed(loop, x, P) /\ Hand(loop, x) = trans /\ \A y : Hand(loop, y) = y.r
        BY <2>4, <3>1 DEF Deliveries, Pairing, Handed, Hand, Cares
      <3>4. a \in Int /\ b \in Int
        BY <2>5, <3>1
      <3>5. Cares(Hand(loop, x), Hand(loop, Run(loop, P, x, a, b)), P)
        BY <3>3, <3>4, OwnLoop
      <3> QED BY <3>2, <3>3, <3>5
    <2>7. Cares(r, after, P)
      BY <2>3, <2>4, <2>6, CaresTwice
    <2>8. CASE after.State = "EXIT"
      BY <2>1, <2>7, <2>8
    <2>9. CASE after.State # "EXIT"
      <3>1. Cares(r, Install(after), P) \/ Leaves(r, Install(after), P)
        BY <1>3, <2>7, <2>9, OwnInstall
      <3> QED BY <2>1, <2>9, <3>1
    <2> QED BY <2>8, <2>9
  <1> QED BY <1>1, <1>2, <1>3

-----------------------------------------------------------------------------
(* A message of two packets *)

\* p completed m in the packets P.
Whole(P, p, m) == \E s \in DOMAIN P : P[s].from = p /\ P[s].msg = m /\ P[s].index < 0
\* Only a message of two packets is sent in part, and it is the first one.
CurFine(r) == r.cur = 0 \/ (r.cur = 1 /\ r.Down # <<>> /\ NumElements[r.Down[1]] = 2)
\* What packet k sends in part waits in the queue D, or p completed it in Q.
Partial(k, p, D, Q) ==
  k.index >= 0 => NumElements[k.msg] = 2 /\ (k.msg \in Elements(D) \/ Whole(Q, p, k.msg))
\* The daemon r has sent packets: the packets were P; it is x now, and they are Q.
Adds(r, x, P, Q) ==
  /\ x.me = r.me
  /\ DOMAIN P \subseteq DOMAIN Q /\ \A s \in DOMAIN P : Q[s] = P[s]
  /\ \A s \in DOMAIN Q \ DOMAIN P : Q[s].from = r.me /\ Partial(Q[s], r.me, x.Down, Q)
  /\ \A m \in Elements(r.Down) : NumElements[m] = 2 => m \in Elements(x.Down) \/ Whole(Q, r.me, m)

\* Nothing is sent.
LEMMA AddsSame ==
  ASSUME NEW r, NEW x, NEW P, x.me = r.me, Elements(r.Down) \subseteq Elements(x.Down)
  PROVE  Adds(r, x, P, P)
  BY DEF Adds

\* What is sent twice is sent.
LEMMA AddsTwice ==
  ASSUME NEW r, NEW x, NEW y, NEW P, NEW Q, NEW R, Adds(r, x, P, Q), Adds(x, y, Q, R)
  PROVE  Adds(r, y, P, R)
  <1>1. \A m : Whole(Q, r.me, m) => Whole(R, r.me, m)
    BY DEF Adds, Whole
  <1>2. \A m \in Elements(r.Down) : NumElements[m] = 2 => m \in Elements(y.Down) \/ Whole(R, r.me, m)
    BY <1>1 DEF Adds
  <1>3. ASSUME NEW s \in DOMAIN R \ DOMAIN P PROVE R[s].from = r.me /\ Partial(R[s], r.me, y.Down, R)
    <2>1. CASE s \in DOMAIN Q
      <3>1. R[s] = Q[s] /\ Q[s].from = r.me /\ Partial(Q[s], r.me, x.Down, Q)
        BY <2>1 DEF Adds
      <3> QED BY <1>1, <3>1 DEF Partial, Adds
    <2>2. CASE s \notin DOMAIN Q
      BY <2>2 DEF Adds
    <2> QED BY <2>1, <2>2
  <1> QED BY <1>2, <1>3 DEF Adds

\* What is behind the first message of a queue.
LEMMA RestFacts ==
  ASSUME NEW S, NEW q \in Seq(S), q # <<>>
  PROVE  \A m \in Elements(q) : m = q[1] \/ m \in Elements(Tail(q))
  <1> DEFINE t == Tail(q)
  <1>1. /\ Len(q) \in Nat /\ DOMAIN q = 1 .. Len(q) /\ DOMAIN t = 1 .. Len(q) - 1
        /\ \A x \in 1 .. Len(q) - 1 : t[x] = q[x + 1]
    OBVIOUS
  <1> HIDE DEF t
  <1> SUFFICES ASSUME NEW x \in DOMAIN q, x # 1 PROVE q[x] \in Elements(t)
    BY DEF Elements, t
  <1>2. x - 1 \in 1 .. Len(q) - 1 /\ (x - 1) + 1 = x
    BY <1>1
  <1>3. t[x - 1] = q[x] /\ x - 1 \in DOMAIN t
    BY <1>1, <1>2
  <1> QED BY <1>3 DEF Elements

\* The packet that Send_new_packets builds continues, or completes, the first message.
LEMMA NewOneParts ==
  ASSUME NEW x, NEW fits, DaemonTyped(x), x.Down # <<>>, CurFine(x)
  PROVE  LET n == NewOne(x, fits)
         IN  /\ n.k.from = x.me /\ n.k.msg = x.Down[1] /\ n.k.index \in Int
             /\ \/ n.k.index >= 0 /\ NumElements[n.k.msg] = 2 /\ n.Down = x.Down /\ n.cur = 1
                \/ /\ n.k.index < 0 /\ n.cur = 0
                   /\ \A m \in Elements(x.Down) : m = n.k.msg \/ NumElements[m] = 1 \/ m \in Elements(n.Down)
  <1> PICK D : D = x.Down
    OBVIOUS
  <1> PICK m : m = D[1]
    OBVIOUS
  <1> PICK n : n = NewOne(x, fits)
    OBVIOUS
  <1>1. D \in Seq(Messages) /\ D # <<>> /\ x.cur \in Nat
    BY DEF DaemonTyped
  <1>2. m \in Messages /\ Head(D) = m /\ Tail(D) \in Seq(Messages)
    <2>1. Head(D) = D[1] /\ Head(D) \in Messages /\ Tail(D) \in Seq(Messages)
      BY ONLY <1>1, TailFacts
    <2> QED BY <2>1
  <1>3. NumElements[m] \in 1 .. 2
    BY <1>2, ProtocolAssumption
  <1>4. \A z \in Elements(D) : z = m \/ z \in Elements(Tail(D))
    <2>1. \A z \in Elements(D) : z = D[1] \/ z \in Elements(Tail(D))
      BY ONLY <1>1, RestFacts
    <2> QED BY <2>1
  <1>5. CASE x.cur + 1 # NumElements[m]
    <2>1. n.k = [from |-> x.me, msg |-> m, index |-> x.cur + 1, also |-> <<>>] /\ n.Down = D /\ n.cur = x.cur + 1
      BY <1>5 DEF NewOne
    <2>2. x.cur = 0 /\ NumElements[m] = 2
      BY <1>1, <1>3, <1>5 DEF CurFine
    <2> QED BY <2>1, <2>2
  <1>6. CASE /\ x.cur + 1 = NumElements[m]
             /\ ~(/\ fits /\ Tail(D) # <<>>
                  /\ NumElements[Head(Tail(D))] = 1 /\ TypeOf[Head(Tail(D))] = TypeOf[m])
    <2>1. n.k = [from |-> x.me, msg |-> m, index |-> -NumElements[m], also |-> <<>>] /\ n.Down = Tail(D) /\ n.cur = 0
      BY <1>6 DEF NewOne
    <2> QED BY <1>3, <1>4, <2>1
  <1>7. CASE /\ x.cur + 1 = NumElements[m]
             /\ fits /\ Tail(D) # <<>>
             /\ NumElements[Head(Tail(D))] = 1 /\ TypeOf[Head(Tail(D))] = TypeOf[m]
    <2> PICK R, h : R = Tail(D) /\ h = Head(Tail(D))
      OBVIOUS
    <2> PICK e : e = <<"msg", h>>
      OBVIOUS
    <2>1. /\ n.k = [from |-> x.me, msg |-> m, index |-> -NumElements[m], also |-> <<e>>]
          /\ n.Down = Tail(R) /\ n.cur = 0
      BY <1>7 DEF NewOne
    <2>2. R \in Seq(Messages) /\ R # <<>> /\ h = Head(R) /\ NumElements[h] = 1
      BY <1>2, <1>7
    <2>3. h = R[1] /\ \A z \in Elements(R) : z = R[1] \/ z \in Elements(Tail(R))
      <3>1. Head(R) = R[1]
        BY ONLY <2>2, TailFacts
      <3>2. \A z \in Elements(R) : z = R[1] \/ z \in Elements(Tail(R))
        BY ONLY <2>2, RestFacts
      <3> QED BY <2>2, <3>1, <3>2
    <2>4. n.k.from = x.me /\ n.k.msg = m /\ n.k.index = -NumElements[m]
      BY ONLY <2>1
    <2> QED BY <1>3, <1>4, <2>1, <2>2, <2>3, <2>4
  <1> QED BY <1>5, <1>6, <1>7

\* One new packet leaves the daemon.
LEMMA AddsOne ==
  ASSUME NEW x, NEW Q, NEW fits, NEW k, NEW y, NEW n, DaemonTyped(x), PackOK(Q), x.Down # <<>>, CurFine(x),
         n = NewOne(x, fits), k = n.k, k \in PacketSet, y.me = x.me, y.Down = n.Down, y.cur = n.cur
  PROVE  Adds(x, y, Q, Append(Q, k)) /\ CurFine(y)
  <1> PICK R : R = Append(Q, k)
    OBVIOUS
  <1> PICK s : s = Len(Q) + 1
    OBVIOUS
  <1>1. /\ R[s] = k /\ DOMAIN R = DOMAIN Q \cup {s} /\ s \notin DOMAIN Q /\ \A t \in DOMAIN Q : R[t] = Q[t]
    BY DEF PackOK
  <1>2. /\ k.from = x.me /\ k.msg = x.Down[1] /\ k.index \in Int
        /\ \/ k.index >= 0 /\ NumElements[k.msg] = 2 /\ n.Down = x.Down /\ n.cur = 1
           \/ /\ k.index < 0 /\ n.cur = 0
              /\ \A m \in Elements(x.Down) : m = k.msg \/ NumElements[m] = 1 \/ m \in Elements(n.Down)
    BY NewOneParts
  <1>3. k.index < 0 => Whole(R, x.me, k.msg)
    BY <1>1, <1>2 DEF Whole
  <1>4. x.Down[1] \in Elements(x.Down)
    BY DEF DaemonTyped, Elements
  <1>5. Partial(k, x.me, y.Down, R)
    BY <1>2, <1>4 DEF Partial
  <1>6. \A m \in Elements(x.Down) : NumElements[m] = 2 => m \in Elements(y.Down) \/ Whole(R, x.me, m)
    BY <1>2, <1>3
  <1>7. CurFine(y)
    BY <1>2 DEF CurFine
  <1> QED BY <1>1, <1>2, <1>5, <1>6, <1>7 DEF Adds

\* A daemon that sends has the packets it sends.
LEMMA OwnSent ==
  ASSUME NEW x, NEW Q, NEW n, Own(x, Q), PackOK(Q)
  PROVE  LET y == Sent(x, Len(Q) + 1, n)
         IN  Own(y, Append(Q, n.k)) /\ y.me = x.me /\ y.Down = n.Down /\ y.cur = n.cur
  <1> PICK s : s = Len(Q) + 1
    OBVIOUS
  <1> PICK y, R : y = Sent(x, s, n) /\ R = Append(Q, n.k)
    OBVIOUS
  <1>1. DOMAIN x = Fields /\ IsSeq(x.log) /\ Here(x, Q) /\ Kept(x, Q)
    BY DEF Own
  <1>2. /\ R[s] = n.k /\ DOMAIN R = DOMAIN Q \cup {s} /\ s \notin DOMAIN Q /\ \A t \in DOMAIN Q : R[t] = Q[t]
    BY DEF PackOK
  <1>3. /\ Differ(y, x, {"Packets", "Highest_seq", "Down", "cur"})
        /\ y.Down = n.Down /\ y.cur = n.cur
        /\ Exist(y, s) = 1 /\ \A t : t # s => Exist(y, t) = Exist(x, t)
    BY <1>1 DEF Sent, SetExist, Exist, Differ, Fields
  <1>4. /\ DOMAIN y = Fields /\ y.log = x.log /\ y.me = x.me /\ y.State = x.State
        /\ y.Commit_set = x.Commit_set /\ y.Future_commit_set = x.Future_commit_set
    BY <1>3 DEF Differ, Fields
  <1>5. Here(y, R)
    BY <1>1, <1>2, <1>3 DEF Here
  <1>6. Kept(y, R)
    <2> SUFFICES ASSUME y.State # "EXIT", NEW t \in DOMAIN R, R[t].from = y.me, R[t].index < 0,
                        R[t].msg \notin Told(y.log)
                 PROVE  Exist(y, t) = 1
      BY DEF Kept
    <2>1. CASE t = s
      BY <1>3, <2>1
    <2>2. CASE t # s
      <3>1. t \in DOMAIN Q /\ Q[t] = R[t]
        BY <1>2, <2>2
      <3>2. Exist(x, t) = 1
        BY <1>1, <1>4, <3>1 DEF Kept
      <3> QED BY <1>3, <2>2, <3>2
    <2> QED BY <2>1, <2>2
  <1>7. x.me \in x.Commit_set.commit /\ (x.State = "EVS" => x.me \in x.Future_commit_set.commit)
    BY DEF Own
  <1>8. Own(y, R)
    BY <1>1, <1>4, <1>5, <1>6, <1>7 DEF Own
  <1> QED BY <1>3, <1>4, <1>8

\* What the loop of Send_new_packets maintains, of its own packets too.
SendOwn(r, P, x, Q) ==
  SendInv(r, P, x, Q) /\ Own(x, Q) /\ CurFine(x) /\ Adds(r, x, P, Q)

\* One turn of the loop.
LEMMA SendOwnTurn ==
  ASSUME NEW r, NEW P, NEW a, NEW fits, NEW i, SendOwn(r, P, a.r, a.P), a = [r |-> a.r, P |-> a.P],
         Pending(r) \cap Told(r.log) = {}
  PROVE  LET b == SendNext(fits, a, i)
         IN  SendOwn(r, P, b.r, b.P) /\ b = [r |-> b.r, P |-> b.P]
  <1> PICK x, Q : x = a.r /\ Q = a.P
    OBVIOUS
  <1> PICK b : b = SendNext(fits, a, i)
    OBVIOUS
  <1>1. SendInv(r, P, x, Q) /\ Own(x, Q) /\ CurFine(x) /\ Adds(r, x, P, Q) /\ PackOK(Q) /\ DaemonTyped(x)
    BY DEF SendOwn, SendInv, Sane
  <1>2. SendInv(r, P, b.r, b.P) /\ b = [r |-> b.r, P |-> b.P]
    BY <1>1, SendTurn
  <1>3. CASE x.Down = <<>> \/ Len(Q) # x.Highest_seq
    <2>1. b = a
      BY <1>3 DEF SendNext
    <2> QED BY <2>1
  <1>4. CASE x.Down # <<>> /\ Len(Q) = x.Highest_seq /\ Exist(x, Len(Q) + 1) # 0
    <2>1. b = [a EXCEPT !.r = Exit(a.r)]
      BY <1>4 DEF SendNext, NewPacket
    <2>2. b.r = Exit(x) /\ b.P = Q
      BY <2>1
    <2> PICK y : y = Exit(x)
      OBVIOUS
    <2>3. Cares(x, y, Q)
      BY <1>1, CaresExit
    <2>4. Own(y, Q) /\ y.me = x.me /\ y.Down = x.Down /\ y.cur = x.cur
      BY <2>3 DEF Cares
    <2>5. CurFine(y)
      BY <1>1, <2>4 DEF CurFine
    <2>6. Adds(r, y, P, Q)
      BY <1>1, <2>4 DEF Adds
    <2> QED BY <1>2, <2>2, <2>4, <2>5, <2>6 DEF SendOwn
  <1>5. CASE x.Down # <<>> /\ Len(Q) = x.Highest_seq /\ Exist(x, Len(Q) + 1) = 0
    <2> PICK s : s = Len(Q) + 1
      OBVIOUS
    <2> PICK n : n = NewOne(x, fits)
      OBVIOUS
    <2> PICK k : k = n.k
      OBVIOUS
    <2> PICK y, R : y = Sent(x, s, n) /\ R = Append(Q, k)
      OBVIOUS
    <2>1. b = [r |-> y, P |-> R]
      <3> PICK u : u = SetExist(x, s, 1)
        OBVIOUS
      <3>1. u.cur = x.cur /\ DOMAIN x = Fields
        BY <1>1 DEF DaemonTyped, SetExist, Fields
      <3> QED BY <1>5, <3>1 DEF SendNext, NewPacket, NewOne, Sent
    <2>2. Own(y, R) /\ y.me = x.me /\ y.Down = n.Down /\ y.cur = n.cur
      <3>1. LET z == Sent(x, Len(Q) + 1, n)
            IN  Own(z, Append(Q, n.k)) /\ z.me = x.me /\ z.Down = n.Down /\ z.cur = n.cur
        BY <1>1, OwnSent
      <3> QED BY <3>1
    <2>3. k \in PacketSet
      <3>1. NoDup(Queue(x))
        BY <1>1 DEF SendInv
      <3>2. LET m == NewOne(x, fits) IN m.k \in PacketSet
        BY <1>1, <1>5, <3>1, NewOneFacts
      <3> QED BY <3>2
    <2>4. Adds(x, y, Q, R) /\ CurFine(y)
      BY <1>1, <1>5, <2>2, <2>3, AddsOne
    <2>5. Adds(r, y, P, R)
      BY <1>1, <2>4, AddsTwice
    <2> QED BY <1>2, <2>1, <2>2, <2>4, <2>5 DEF SendOwn
  <1> QED BY <1>3, <1>4, <1>5

\* Send_new_packets
LEMMA OwnSending ==
  ASSUME NEW r, NEW P, NEW fits, NEW allowed \in Int, PackOK(P), Sane(r, P), NoDup(Queue(r)), Own(r, P), CurFine(r),
         Pending(r) \cap Contents(P) = {}, Pending(r) \cap Told(r.log) = {}
  PROVE  LET a == Send_new_packets(r, P, allowed, fits)
         IN  SendOwn(r, P, a.r, a.P)
  <1> DEFINE n == Turns(1, allowed)
             base == [r |-> r, P |-> P]
             f == SendFold(fits, base, 1, allowed)
  <1>1. n \in Nat
    BY TurnsNat DEF Turns
  <1>2. PICK c : Chain(c, "send", fits, base, 1, allowed) /\ Run("send", fits, base, 1, allowed) = c[n]
    BY Loop
  <1>3. /\ c[0] = base /\ f = c[n]
        /\ \A k \in 1 .. n : c[k] = SendNext(fits, c[k - 1], 1 + k - 1)
    BY <1>2, SendRun DEF Chain, Body
  <1> DEFINE S == {k \in Nat : k <= n => SendOwn(r, P, c[k].r, c[k].P) /\ c[k] = [r |-> c[k].r, P |-> c[k].P]}
  <1> HIDE DEF n, f
  <1>4. 0 \in S
    <2>1. Grown(P, P, Pending(r) \ Pending(r))
      BY DEF Grown
    <2>2. Differ(r, r, Sends)
      BY DEF Differ, Sane, DaemonTyped
    <2>3. SendInv(r, P, r, P)
      BY <2>1, <2>2 DEF SendInv
    <2>4. Adds(r, r, P, P)
      BY AddsSame
    <2>5. SendOwn(r, P, r, P)
      BY <2>3, <2>4 DEF SendOwn
    <2>6. base.r = r /\ base.P = P /\ base = [r |-> base.r, P |-> base.P]
      OBVIOUS
    <2> HIDE DEF base
    <2> QED BY <1>3, <2>5, <2>6
  <1>5. ASSUME NEW k \in Nat, k \in S PROVE k + 1 \in S
    <2> SUFFICES ASSUME k + 1 <= n
                 PROVE  SendOwn(r, P, c[k + 1].r, c[k + 1].P) /\ c[k + 1] = [r |-> c[k + 1].r, P |-> c[k + 1].P]
      OBVIOUS
    <2> PICK a : a = c[k]
      OBVIOUS
    <2>1. SendOwn(r, P, a.r, a.P) /\ a = [r |-> a.r, P |-> a.P]
      BY <1>1, <1>5
    <2>2. c[k + 1] = SendNext(fits, a, k + 1)
      BY <1>1, <1>3
    <2> PICK b : b = SendNext(fits, a, k + 1)
      OBVIOUS
    <2>3. SendOwn(r, P, b.r, b.P) /\ b = [r |-> b.r, P |-> b.P]
      BY <2>1, SendOwnTurn
    <2> QED BY <2>2, <2>3
  <1>6. n \in S
    <2> HIDE DEF S
    <2> QED BY <1>1, <1>4, <1>5, EveryNatural
  <1>7. SendOwn(r, P, f.r, f.P)
    BY <1>1, <1>3, <1>6
  <1>8. Send_new_packets(r, P, allowed, fits) = f
    BY DEF Send_new_packets, SendFold, f
  <1> QED BY <1>7, <1>8

-----------------------------------------------------------------------------
(* The token, and a daemon's own packets *)

\* The token has raised Highest_seq.
LEMMA SeenToken ==
  ASSUME NEW r, NEW P, NEW l, NEW h, Sane(r, P), DOMAIN l = {"arq", "aru", "seq"}, l.aru \in Int, l.seq \in Int,
         h \in Int, r.Highest_seq <= h
  PROVE  LET a == [r EXCEPT !.Last_token = l, !.Just_Installed = FALSE, !.Highest_seq = h]
         IN  /\ Differ(a, r, {"Last_token", "Just_Installed", "Highest_seq"})
             /\ Sane(a, P) /\ Moves(r, a, P)
  <1> PICK a : a = [r EXCEPT !.Last_token = l, !.Just_Installed = FALSE, !.Highest_seq = h]
    OBVIOUS
  <1>1. DOMAIN r = Fields /\ r.My_aru \in Int /\ r.Aru \in Int /\ r.Last_num \in Int
    BY TypedFacts DEF Sane
  <1>2. Differ(a, r, {"Last_token", "Just_Installed", "Highest_seq"}) /\ a.Last_token = l /\ a.Highest_seq = h
    BY <1>1 DEF Differ, Fields
  <1>3. Differ(a, r, Tuned) /\ a.State = r.State /\ a.My_aru = r.My_aru /\ a.Aru = r.Aru /\ a.Last_num = r.Last_num
    BY <1>2 DEF Differ, Fields, Tuned
  <1> QED BY <1>1, <1>2, <1>3, Tune

\* My_aru has moved over the packets without a gap.
LEMMA AdvanceSane ==
  ASSUME NEW x, NEW P, Sane(x, P)
  PROVE  Sane(Advance(x), P) /\ Moves(x, Advance(x), P)
  <1> PICK b : b = Advance(x)
    OBVIOUS
  <1>1. Differ(b, x, {"My_aru"}) /\ b.My_aru \in Int
    BY AdvanceFacts DEF Sane
  <1>2. /\ Differ(b, x, Tuned) /\ b.State = x.State /\ b.Highest_seq = x.Highest_seq /\ b.Aru = x.Aru
        /\ b.Last_num = x.Last_num /\ b.Last_token = x.Last_token
    BY <1>1 DEF Differ, Fields, Tuned
  <1>3. /\ x.Highest_seq \in Int /\ x.Aru \in Int /\ x.Last_num \in Int
        /\ DOMAIN x.Last_token = {"arq", "aru", "seq"} /\ x.Last_token.aru \in Int /\ x.Last_token.seq \in Int
    BY TypedFacts DEF Sane, DaemonTyped
  <1>4. x.Highest_seq <= b.Highest_seq /\ b.State \in {x.State, "EXIT"}
    BY <1>2, <1>3
  <1> QED BY ONLY Sane(x, P), b = Advance(x), <1>1, <1>2, <1>3, <1>4, Tune

\* A daemon has recovered everything.
LEMMA RecoveredSane ==
  ASSUME NEW b, NEW P, Sane(b, P)
  PROVE  Sane(Recovered(b), P) /\ Moves(b, Recovered(b), P)
  <1> PICK c : c = Recovered(b)
    OBVIOUS
  <1>1. Differ(c, b, {"My_aru", "Commit_set"}) /\ c.My_aru \in Int
    BY RecoveredFacts DEF Sane
  <1>2. /\ Differ(c, b, Tuned) /\ c.State = b.State /\ c.Highest_seq = b.Highest_seq /\ c.Aru = b.Aru
        /\ c.Last_num = b.Last_num /\ c.Last_token = b.Last_token
    BY <1>1 DEF Differ, Fields, Tuned
  <1>3. /\ b.Highest_seq \in Int /\ b.Aru \in Int /\ b.Last_num \in Int
        /\ DOMAIN b.Last_token = {"arq", "aru", "seq"} /\ b.Last_token.aru \in Int /\ b.Last_token.seq \in Int
    BY TypedFacts DEF Sane, DaemonTyped
  <1>4. b.Highest_seq <= c.Highest_seq /\ c.State \in {b.State, "EXIT"}
    BY <1>2, <1>3
  <1> QED BY ONLY Sane(b, P), c = Recovered(b), <1>1, <1>2, <1>3, <1>4, Tune

\* Advance, Recovered, Noting and the session change counters, or the daemon ends.
LEMMA OwnAdvance ==
  ASSUME NEW x, NEW P, Own(x, P), DaemonTyped(x)
  PROVE  Cares(x, Advance(x), P)
  <1> PICK b : b = Advance(x)
    OBVIOUS
  <1>1. Differ(b, x, {"My_aru"})
    BY AdvanceFacts
  <1>2. Differ(b, x, Marks) /\ b.State \in {x.State, "EXIT"}
    BY <1>1 DEF Differ, Fields, Marks
  <1>3. Cares(x, x, P)
    BY CaresSame
  <1> QED BY <1>2, <1>3, CaresCounters

\* The daemons committed to the next membership are still in the commit set.
LEMMA OwnRecovered ==
  ASSUME NEW b, NEW P, Own(b, P), DaemonTyped(b)
  PROVE  Cares(b, Recovered(b), P)
  <1> PICK c : c = Recovered(b)
    OBVIOUS
  <1>1. Differ(c, b, {"My_aru", "Commit_set"})
    BY RecoveredFacts
  <1>2. Differ(c, b, Minor) /\ c.State \in {b.State, "EXIT"} /\ c.me = b.me
    BY <1>1 DEF Differ, Fields, Minor
  <1>3. DOMAIN b = Fields /\ b.me \in b.Commit_set.commit /\ (b.State = "EVS" => b.me \in b.Future_commit_set.commit)
    BY DEF Own
  <1>4. c.Commit_set = b.Commit_set \/ (b.State = "EVS" /\ c.Commit_set = b.Future_commit_set)
    BY <1>3 DEF Recovered, Fields
  <1>5. c.me \in c.Commit_set.commit
    BY <1>2, <1>3, <1>4
  <1> PICK F : F = Minor
    OBVIOUS
  <1> QED BY <1>2, <1>5, CaresMinor

\* Noting the token.
LEMMA OwnNoting ==
  ASSUME NEW c, NEW P, NEW token, NEW num, Own(c, P)
  PROVE  Cares(c, Noting(c, token, num), P)
  <1> PICK e : e = Noting(c, token, num)
    OBVIOUS
  <1> PICK u : u = NewAru(c, token.aru)
    OBVIOUS
  <1> PICK l : l = [arq |-> token.arq, aru |-> token.aru, seq |-> token.seq]
    OBVIOUS
  <1>1. DOMAIN c = Fields
    BY DEF Own
  <1>2. Differ(u, c, {"State", "Aru"}) /\ u.State \in {c.State, "EXIT"}
    BY <1>1 DEF NewAru, Exit, Differ, Fields
  <1>3. e = [u EXCEPT !.Last_num = num, !.Last_token = l]
    BY DEF Noting
  <1>4. Differ(e, u, {"Last_num", "Last_token"})
    BY <1>2, <1>3 DEF Differ, Fields
  <1>5. Differ(e, c, Marks) /\ e.State \in {c.State, "EXIT"}
    BY <1>2, <1>4 DEF Differ, Fields, Marks
  <1>6. Cares(c, c, P)
    BY CaresSame
  <1> QED BY <1>5, <1>6, CaresCounters

\* A daemon that ends after it installed its membership.
LEMMA LeavesExit ==
  ASSUME NEW r, NEW q, NEW P, Leaves(r, q, P)
  PROVE  Leaves(r, Exit(q), P)
  <1> PICK u : u = Exit(q)
    OBVIOUS
  <1>1. DOMAIN q = Fields
    BY DEF Leaves
  <1>2. Differ(u, q, {"State"}) /\ u.State = "EXIT" /\ \A x : Exist(u, x) = Exist(q, x)
    BY <1>1, ExitFacts
  <1>3. /\ DOMAIN u = Fields /\ u.me = q.me /\ u.mid = q.mid /\ u.Down = q.Down /\ u.cur = q.cur /\ u.log = q.log
        /\ u.Commit_set = q.Commit_set
    BY <1>2 DEF Differ, Fields
  <1> QED BY <1>2, <1>3 DEF Leaves

\* Work after work, the last of which may install the next membership.
LEMMA CaresLeaves ==
  ASSUME NEW r, NEW e, NEW q, NEW P, Cares(r, e, P), Leaves(e, q, P)
  PROVE  Leaves(r, q, P)
  BY DEF Cares, Leaves

\* Deliveries after the token is sent.
LEMMA OwnDelivering ==
  ASSUME NEW e, NEW P, NEW num \in Int, NEW bad, PackOK(P), Sane(e, P), Own(e, P), e.State # "DOWN"
  PROVE  Cares(e, Delivering(e, P, num, bad), P) \/ Leaves(e, Delivering(e, P, num, bad), P)
  <1> PICK g : g = Discard_packets(e, P)
    OBVIOUS
  <1> PICK f : f = Deliver_agreed_packets(g, P)
    OBVIOUS
  <1> PICK a : a = f.Highest_seq - num + 1
    OBVIOUS
  <1> PICK q : q = Delivering(e, P, num, bad)
    OBVIOUS
  <1>1. q = Exit(f) \/ q = Deliver_reliable_packets(f, P, a, num)
    BY DEF Delivering, DeliverOwn
  <1>2. (Sane(g, P) /\ Changes(e, g, P)) \/ Installs(e, g, P)
    BY Discarding
  <1>3. Cares(e, g, P) \/ Leaves(e, g, P)
    BY OwnDiscarding
  <1>4. CASE f = g /\ Deliver_reliable_packets(f, P, a, num) = f
    <2>1. CASE Cares(e, g, P)
      <3>1. Cares(g, Exit(g), P)
        BY <2>1, CaresExit DEF Cares
      <3> QED BY <1>1, <1>4, <2>1, <3>1, CaresTwice
    <2>2. CASE Leaves(e, g, P)
      BY <1>1, <1>4, <2>2, LeavesExit
    <2> QED BY <1>3, <2>1, <2>2
  <1>5. CASE Installs(e, g, P)
    <2>1. f = g
      <3>1. Deliver_agreed_packets(g, P) = g
        BY <1>5, InstalledQuiet
      <3> QED BY <3>1
    <2>2. Deliver_reliable_packets(f, P, a, num) = f
      <3>1. Installs(e, f, P)
        BY <1>5, <2>1
      <3>2. Deliver_reliable_packets(f, P, a, num) = f /\ Installs(e, Exit(f), P)
        BY ONLY <3>1, InstalledQuiet
      <3> QED BY <3>2
    <2> QED BY <1>4, <2>1, <2>2
  <1>6. CASE Sane(g, P) /\ Changes(e, g, P) /\ Leaves(e, g, P)
    <2>1. g.State = "EXIT"
      BY <1>6 DEF Changes, Leaves
    <2>2. f = g
      BY <2>1 DEF Deliver_agreed_packets
    <2>3. Deliver_reliable_packets(f, P, a, num) = f
      BY <2>1, <2>2 DEF Deliver_reliable_packets
    <2> QED BY <1>4, <2>2, <2>3
  <1>7. CASE Sane(g, P) /\ Changes(e, g, P) /\ Cares(e, g, P)
    <2>1. Own(g, P) /\ DaemonTyped(g) /\ g.State # "DOWN"
      BY <1>7 DEF Cares, Sane, Changes
    <2>2. Cares(g, f, P)
      BY <2>1, OwnAgreed
    <2>3. Sane(f, P)
      BY <1>7, <2>1, AgreedDelivery
    <2>4. DaemonTyped(f) /\ Own(f, P) /\ a \in Int
      <3>1. DaemonTyped(f)
        BY <2>3 DEF Sane
      <3>2. f.Highest_seq \in Int
        BY <3>1, TypedFacts
      <3> QED BY <2>2, <3>1, <3>2 DEF Cares
    <2>5. Cares(f, q, P)
      <3>1. Cares(f, Exit(f), P)
        BY <2>4, CaresExit
      <3>2. Cares(f, Deliver_reliable_packets(f, P, a, num), P)
        BY <2>4, OwnReliable
      <3> QED BY <1>1, <3>1, <3>2
    <2>6. Cares(e, q, P)
      BY <1>7, <2>2, <2>5, CaresTwice
    <2> QED BY <2>6
  <1> QED BY <1>2, <1>3, <1>5, <1>6, <1>7

\* What becomes of the daemon r, that sends packets or not: the packets of its
\* membership were P, and are Q.
Minds(r, q, P, Q) ==
  /\ Adds(r, q, P, Q) /\ CurFine(q) /\ Told(r.log) \subseteq Told(q.log)
  /\ \/ Own(q, Q) /\ q.mid = r.mid
     \/ /\ r.State = "EVS" /\ q.mid = r.future /\ DOMAIN q = Fields /\ IsSeq(q.log) /\ q.State \in {"OP", "EXIT"}
        /\ (\A s : Exist(q, s) = 0) /\ Heard(q.log, Q, q.me) /\ q.me \in q.Commit_set.commit

\* Work that sends nothing.
LEMMA CaresMinds ==
  ASSUME NEW r, NEW q, NEW P, CurFine(r), Cares(r, q, P) \/ Leaves(r, q, P)
  PROVE  Minds(r, q, P, P)
  <1>1. q.me = r.me /\ q.Down = r.Down /\ Told(r.log) \subseteq Told(q.log)
    BY DEF Cares, Leaves
  <1>2. Adds(r, q, P, P)
    BY <1>1, AddsSame
  <1>3. CurFine(q)
    BY <1>1 DEF CurFine, Cares, Leaves
  <1> QED BY <1>1, <1>2, <1>3 DEF Minds, Cares, Leaves

\* Prot_handle_token
LEMMA OwnToken ==
  ASSUME NEW r, NEW P, NEW t, NEW fits, PackOK(P), Sane(r, P), r.State \in {"OP", "EVS"}, TokenTyped(t),
         NoDup(Queue(r)), Pending(r) \cap Contents(P) = {}, Pending(r) \cap Told(r.log) = {},
         Own(r, P), CurFine(r)
  PROVE  LET res == Prot_handle_token(r, P, t, fits)
         IN  Minds(r, res.d, P, res.P)
  <1>l. PICK l : l = [r.Last_token EXCEPT !.aru = IF r.Just_Installed THEN 0 ELSE @]
    OBVIOUS
  <1>h. PICK h : h = Larger(r.Highest_seq, t.seq)
    OBVIOUS
  <1>a. PICK a : a = [r EXCEPT !.Last_token = l, !.Just_Installed = FALSE, !.Highest_seq = h]
    OBVIOUS
  <1>ans. PICK ans : ans = Answer_retrans(a, t.rtr)
    OBVIOUS
  <1>allowed. PICK allowed : allowed = FC_allowed(a, t.fc)
    OBVIOUS
  <1>new. PICK new : new = Send_new_packets(a, P, allowed, fits)
    OBVIOUS
  <1>x. PICK x, Q : x = new.r /\ Q = new.P
    OBVIOUS
  <1>b. PICK b : b = Advance(x)
    OBVIOUS
  <1>c. PICK c : c = Recovered(b)
    OBVIOUS
  <1>n. PICK n : n = Len(Q) - Len(P)
    OBVIOUS
  <1>token. PICK token : token = PassedOn(c, t, TokenAru(c, t), ans.num + n, ans.rtr \cup Requests(b, ans))
    OBVIOUS
  <1>e. PICK e : e = Noting(c, token, ans.num + n)
    OBVIOUS
  <1>q. PICK q : q = Delivering(e, Q, n, ans.bad)
    OBVIOUS
  <1>res. PICK res : res = Prot_handle_token(r, P, t, fits)
    OBVIOUS
  <1>1. /\ DOMAIN r = Fields /\ r.Highest_seq \in Int /\ DOMAIN r.Last_token = {"arq", "aru", "seq"}
        /\ r.Last_token.aru \in Int /\ r.Last_token.seq \in Int /\ IsSeq(r.log)
    BY TypedFacts DEF Sane, Good, DaemonTyped
  <1>2. t.seq \in Int /\ t.fc \in Int /\ Bounded(t.rtr)
    BY DEF TokenTyped
  <1>3. DOMAIN l = {"arq", "aru", "seq"} /\ l.aru \in Int /\ l.seq \in Int
    BY <1>1, <1>l
  <1>4. h \in Int /\ r.Highest_seq <= h
    BY <1>1, <1>2, <1>h DEF Larger
  <1>5. /\ Differ(a, r, {"Last_token", "Just_Installed", "Highest_seq"})
        /\ Sane(a, P) /\ Moves(r, a, P)
    BY ONLY Sane(r, P), <1>3, <1>4, <1>a, SeenToken
  <1>6. Differ(a, r, Marks) /\ a.State = r.State /\ Queue(a) = Queue(r) /\ a.log = r.log
    BY <1>5 DEF Differ, Fields, Marks, Queue
  <1>7. Cares(r, a, P)
    <2>1. Cares(r, r, P) /\ a.State \in {r.State, "EXIT"}
      BY <1>6, CaresSame
    <2> QED BY <1>6, <2>1, CaresCounters
  <1>8. Own(a, P) /\ CurFine(a) /\ a.me = r.me /\ a.mid = r.mid /\ a.future = r.future /\ a.Down = r.Down
    BY <1>7 DEF Cares, CurFine
  <1>9. allowed \in Int /\ (a.State = "EVS" => allowed = 0) /\ ans.num \in Nat /\ Bounded(ans.rtr)
    BY <1>2, <1>allowed, <1>ans, AllowedFacts, AnswerFacts
  <1>10. SendOwn(a, P, x, Q) /\ (allowed <= 0 => x = a /\ Q = P)
    <2>1. NoDup(Queue(a)) /\ Pending(a) \cap Contents(P) = {} /\ Pending(a) \cap Told(a.log) = {}
      BY <1>6 DEF Pending
    <2>2. LET y == Send_new_packets(a, P, allowed, fits)
          IN  allowed <= 0 => y.r = a /\ y.P = P
      BY <1>5, <1>9, <2>1, Sending
    <2>3. LET y == Send_new_packets(a, P, allowed, fits)
          IN  SendOwn(a, P, y.r, y.P)
      BY <1>5, <1>8, <1>9, <2>1, OwnSending
    <2> QED BY <1>new, <1>x, <2>2, <2>3
  <1>11. /\ PackOK(Q) /\ Sane(x, Q) /\ x.State \in {r.State, "EXIT"} /\ n \in Int /\ Own(x, Q) /\ CurFine(x)
         /\ Adds(a, x, P, Q) /\ Differ(x, a, Sends)
    BY <1>6, <1>10, <1>n DEF SendOwn, SendInv, PackOK
  <1>12. x.log = r.log /\ x.me = r.me /\ x.mid = r.mid /\ x.future = r.future
    BY <1>6, <1>8, <1>11 DEF Differ, Fields, Sends
  <1>13. Sane(b, Q) /\ Cares(x, b, Q)
    <2>1. DaemonTyped(x)
      BY <1>11 DEF Sane
    <2> QED BY <1>11, <1>b, <2>1, AdvanceSane, OwnAdvance
  <1>14. Sane(c, Q) /\ Cares(b, c, Q)
    <2>1. DaemonTyped(b) /\ Own(b, Q)
      BY <1>13 DEF Sane, Cares
    <2> QED BY <1>13, <1>c, <2>1, RecoveredSane, OwnRecovered
  <1>15. TokenTyped(token)
    <2> PICK num : num = ans.num + n
      OBVIOUS
    <2>1. num \in Int /\ DaemonTyped(b) /\ DaemonTyped(c)
      BY <1>9, <1>11, <1>13, <1>14 DEF Sane
    <2>2. LET v == TokenAru(c, t)
          IN  TokenTyped(PassedOn(c, t, v, num, ans.rtr \cup Requests(b, ans)))
      BY <1>9, <2>1, PassedOnTyped
    <2> QED BY <1>token, <2>2
  <1>16. Sane(e, Q) /\ Cares(c, e, Q)
    <2> PICK num : num = ans.num + n
      OBVIOUS
    <2>1. num \in Int /\ token.aru \in Int /\ token.seq \in Int /\ e = Noting(c, token, num)
      BY <1>9, <1>11, <1>15, <1>e DEF TokenTyped
    <2>2. Sane(e, Q)
      BY ONLY <1>14, <2>1, NotingFacts
    <2>3. Own(c, Q)
      BY <1>14 DEF Cares
    <2> QED BY <2>1, <2>2, <2>3, OwnNoting
  <1>17. Cares(x, e, Q)
    BY <1>13, <1>14, <1>16, CaresTwice
  <1>18. e.State # "DOWN" /\ Own(e, Q)
    BY <1>11, <1>17 DEF Cares
  <1>19. Cares(e, q, Q) \/ Leaves(e, q, Q)
    BY <1>q, <1>11, <1>16, <1>18, OwnDelivering
  <1>20. Cares(x, q, Q) \/ Leaves(x, q, Q)
    BY <1>17, <1>19, CaresTwice, CaresLeaves
  <1>21. Minds(x, q, Q, Q)
    BY <1>11, <1>20, CaresMinds
  <1>22. Adds(r, q, P, Q)
    <2>1. Adds(r, a, P, P)
      BY <1>8, AddsSame
    <2>2. Adds(r, x, P, Q)
      BY <1>11, <2>1, AddsTwice
    <2>3. Adds(x, q, Q, Q)
      BY <1>21 DEF Minds
    <2> QED BY <2>2, <2>3, AddsTwice
  <1>23. Minds(r, q, P, Q)
    BY <1>11, <1>12, <1>21, <1>22 DEF Minds
  <1>24. res.d = q /\ res.P = Q
    <2>1. a = [r EXCEPT !.Last_token.aru = IF r.Just_Installed THEN 0 ELSE @,
                       !.Just_Installed = FALSE, !.Highest_seq = Larger(@, t.seq)]
      BY <1>l, <1>h, <1>a
    <2>2. res = Turn(P, t, ans, new)
      BY <1>res, <1>ans, <1>allowed, <1>new, <2>1 DEF Prot_handle_token
    <2> QED BY <1>x, <1>b, <1>c, <1>n, <1>token, <1>e, <1>q, <2>2 DEF Turn, TurnEnd, Finish
  <1> QED BY <1>res, <1>23, <1>24

-----------------------------------------------------------------------------
(* The other operations, and a daemon's own packets *)

\* q has the packets of r, except some of others or that r has delivered.
Remarks(r, q, P) ==
  /\ DOMAIN q = Fields /\ q.log = r.log /\ q.me = r.me /\ q.mid = r.mid /\ q.Down = r.Down /\ q.cur = r.cur
  /\ q.Commit_set = r.Commit_set /\ (r.State = "EXIT" => q.State = "EXIT")
  /\ q.State = "EVS" => q.me \in q.Future_commit_set.commit
  /\ \A s : \/ Exist(q, s) = Exist(r, s)
            \/ Exist(r, s) # 1 /\ Exist(q, s) = 1 /\ s \in DOMAIN P
            \/ Exist(q, s) \notin {1, 2} /\ (Exist(r, s) # 1 \/ P[s].from # r.me)

\* Such a daemon still has its own packets.
LEMMA OwnRemarks ==
  ASSUME NEW r, NEW q, NEW P, Own(r, P), Remarks(r, q, P)
  PROVE  Own(q, P) /\ (CurFine(r) => Minds(r, q, P, P))
  <1>1. Here(q, P)
    BY DEF Own, Here, Remarks
  <1>2. Kept(q, P)
    <2> SUFFICES ASSUME q.State # "EXIT", NEW s \in DOMAIN P, P[s].from = q.me, P[s].index < 0,
                        P[s].msg \notin Told(q.log)
                 PROVE  Exist(q, s) = 1
      BY DEF Kept
    <2>1. P[s].from = r.me /\ Exist(r, s) = 1
      BY DEF Own, Kept, Remarks
    <2> QED BY <2>1 DEF Remarks
  <1>3. Own(q, P)
    <2>1. IsSeq(r.log) /\ r.me \in r.Commit_set.commit
      BY DEF Own
    <2>2. /\ DOMAIN q = Fields /\ q.log = r.log /\ q.me = r.me /\ q.Commit_set = r.Commit_set
          /\ q.State = "EVS" => q.me \in q.Future_commit_set.commit
      BY DEF Remarks
    <2> QED BY <1>1, <1>2, <2>1, <2>2 DEF Own
  <1>4. Adds(r, q, P, P)
    BY AddsSame DEF Remarks
  <1>5. CurFine(r) => CurFine(q)
    BY DEF CurFine, Remarks
  <1>6. Told(r.log) \subseteq Told(q.log) /\ q.mid = r.mid
    BY DEF Remarks
  <1> QED BY <1>3, <1>4, <1>5, <1>6 DEF Minds

\* Work after work.
LEMMA MindsTwice ==
  ASSUME NEW r, NEW u, NEW q, NEW P, NEW Q, NEW R, Minds(r, u, P, Q), Minds(u, q, Q, R), u.mid = r.mid,
         u.future = r.future, u.State = "EVS" => r.State = "EVS"
  PROVE  Minds(r, q, P, R)
  <1>1. Adds(r, q, P, R)
    BY AddsTwice DEF Minds
  <1> QED BY <1>1 DEF Minds

\* Values that nobody reads are forgotten.
LEMMA MindsForget ==
  ASSUME NEW r, NEW u, NEW P, NEW Q, Minds(r, u, P, Q)
  PROVE  Minds(r, Forget(u), P, Q)
  <1> PICK q : q = Forget(u)
    OBVIOUS
  <1>1. DOMAIN u = Fields
    BY DEF Minds, Own
  <1>2. Differ(q, u, {"future", "attempt", "Last_seq", "Future_commit_set", "Last_num", "Last_token"})
    <2>1. CASE u.State = "OP"
      BY <1>1, <2>1 DEF Forget, Differ, Fields
    <2>2. CASE u.State = "LOST"
      BY <1>1, <2>2 DEF Forget, Differ, Fields
    <2>3. CASE u.State = "FORM"
      BY <1>1, <2>3 DEF Forget, Differ, Fields
    <2>4. CASE u.State \notin {"OP", "LOST", "FORM"}
      <3>1. q = u
        BY <2>4 DEF Forget
      <3> QED BY <1>1, <3>1 DEF Differ
    <2> QED BY <2>1, <2>2, <2>3, <2>4
  <1>3. u.State = "EVS" => q = u
    BY DEF Forget
  <1>4. /\ DOMAIN q = Fields /\ q.me = u.me /\ q.State = u.State /\ q.mid = u.mid /\ q.Packets = u.Packets
        /\ q.Down = u.Down /\ q.cur = u.cur /\ q.log = u.log /\ q.Commit_set = u.Commit_set
    BY <1>2 DEF Differ, Fields
  <1>5. \A s : Exist(q, s) = Exist(u, s)
    BY <1>4 DEF Exist
  <1>6. Own(u, Q) => Own(q, Q)
    <2> HAVE Own(u, Q)
    <2>1. u.State = "EVS" => u.me \in u.Future_commit_set.commit
      BY DEF Own
    <2>2. Remarks(u, q, Q)
      BY <1>3, <1>4, <1>5, <2>1 DEF Remarks
    <2> QED BY <2>2, OwnRemarks
  <1>7. Adds(r, q, P, Q) /\ CurFine(q) /\ Told(r.log) \subseteq Told(q.log)
    BY <1>4 DEF Minds, Adds, CurFine
  <1>8. Heard(u.log, Q, u.me) => Heard(q.log, Q, q.me)
    BY <1>4
  <1> QED BY <1>4, <1>5, <1>6, <1>7, <1>8 DEF Minds

\* The session hands messages down.
LEMMA OwnDown ==
  ASSUME NEW r, NEW P, Sane(r, P), Own(r, P), CurFine(r), NEW k \in 0 .. Len(r.todo)
  PROVE  LET q == Prot_new_message(r, k)
         IN  /\ Own(q, P) /\ Minds(r, q, P, P)
             /\ q.mid = r.mid /\ q.future = r.future /\ q.State = r.State
  <1> PICK q : q = Prot_new_message(r, k)
    OBVIOUS
  <1> PICK e : e = SubSeq(r.todo, 1, k)
    OBVIOUS
  <1>1. DOMAIN r = Fields /\ r.Down \in Seq(Messages) /\ r.todo \in Seq(Messages)
    BY DEF Sane, DaemonTyped
  <1>2. Differ(q, r, {"Down", "todo"}) /\ q.Down = r.Down \o e
    BY <1>1 DEF Prot_new_message, Differ, Fields
  <1>3. /\ DOMAIN q = Fields /\ q.me = r.me /\ q.State = r.State /\ q.mid = r.mid /\ q.future = r.future
        /\ q.Packets = r.Packets /\ q.cur = r.cur /\ q.log = r.log /\ q.Commit_set = r.Commit_set
        /\ q.Future_commit_set = r.Future_commit_set
    BY <1>2 DEF Differ, Fields
  <1>4. \A s : Exist(q, s) = Exist(r, s)
    BY <1>3 DEF Exist
  <1>5. Own(q, P)
    <2>1. Here(q, P) /\ Kept(q, P)
      BY <1>3, <1>4 DEF Own, Here, Kept
    <2> QED BY <1>3, <2>1 DEF Own
  <1>6. e \in Seq(Messages)
    <2> PICK T : T = r.todo
      OBVIOUS
    <2>1. T \in Seq(Messages) /\ k \in 0 .. Len(T) /\ e = SubSeq(T, 1, k)
      BY <1>1
    <2>2. Len(T) \in Nat /\ \A x \in 1 .. Len(T) : T[x] \in Messages
      BY <2>1
    <2>3. \A x \in 1 .. k : T[x] \in Messages
      BY <2>1, <2>2
    <2> QED BY ONLY <2>1, <2>3
  <1>7. \A x \in DOMAIN r.Down : x \in DOMAIN q.Down /\ q.Down[x] = r.Down[x]
    <2> PICK D : D = r.Down
      OBVIOUS
    <2>1. \A x \in DOMAIN D : x \in DOMAIN (D \o e) /\ (D \o e)[x] = D[x]
      BY <1>1, <1>6
    <2> QED BY <1>2, <2>1
  <1>8. Elements(r.Down) \subseteq Elements(q.Down)
    BY <1>7 DEF Elements
  <1>9. CurFine(q)
    <2>1. CASE r.cur = 0
      BY <1>3, <2>1 DEF CurFine
    <2>2. CASE r.cur = 1 /\ r.Down # <<>> /\ NumElements[r.Down[1]] = 2
      <3>1. 1 \in DOMAIN r.Down
        BY <1>1, <2>2
      <3>2. 1 \in DOMAIN q.Down /\ q.Down[1] = r.Down[1] /\ q.Down # <<>>
        BY <1>7, <3>1
      <3> QED BY <1>3, <2>2, <3>2 DEF CurFine
    <2> QED BY <2>1, <2>2 DEF CurFine
  <1>10. Adds(r, q, P, P)
    BY <1>3, <1>8, AddsSame
  <1> QED BY <1>3, <1>5, <1>9, <1>10 DEF Minds

\* A daemon whose counters change is typed if they are numbers.
LEMMA TypedCounters ==
  ASSUME NEW r, NEW q, DaemonTyped(r), Differ(q, r, {"Packets", "Highest_seq", "My_aru", "Aru", "threshold"}),
         q.Highest_seq \in Int, q.My_aru \in Int, q.Aru \in Int, r.State \notin {"LOST", "FORM"} \/ q.threshold = r.threshold
  PROVE  DaemonTyped(q)
  <1>1. /\ DOMAIN q = Fields /\ q.me = r.me /\ q.State = r.State /\ q.mid = r.mid /\ q.future = r.future
        /\ q.attempt = r.attempt /\ q.Last_token = r.Last_token /\ q.cur = r.cur /\ q.Down = r.Down /\ q.todo = r.todo
        /\ q.Last_discarded = r.Last_discarded /\ q.Last_delivered = r.Last_delivered /\ q.Last_seq = r.Last_seq
        /\ q.Last_num = r.Last_num
    BY DEF Differ, Fields
  <1>2. \A f \in Counters : q[f] \in Int
    BY <1>1, TypedFacts DEF Counters
  <1> QED BY <1>1, <1>2 DEF DaemonTyped

\* Prot_handle_bcast
LEMMA OwnPacket ==
  ASSUME NEW r, NEW P, NEW s \in DOMAIN P, PackOK(P), Sane(r, P), Own(r, P), CurFine(r), r.State \notin {"EXIT", "DOWN"}
  PROVE  Minds(r, Prot_handle_bcast(r, P, s), P, P)
  <1> PICK q : q = Prot_handle_bcast(r, P, s)
    OBVIOUS
  <1>1. DOMAIN r = Fields /\ DaemonTyped(r) /\ r.Highest_seq \in Int /\ r.My_aru \in Int /\ r.Aru \in Int /\ s \in Int
    BY TypedFacts DEF Sane, PackOK, DaemonTyped
  <1>2. CASE s <= r.Last_discarded \/ Exist(r, s) # 0
    <2>1. q = r
      BY <1>2 DEF Prot_handle_bcast
    <2> QED BY <2>1, CaresSame, CaresMinds
  <1>3. CASE ~(s <= r.Last_discarded) /\ Exist(r, s) = 0
    <2> PICK h : h = Larger(r.Highest_seq, s)
      OBVIOUS
    <2>n. PICK n : n = [SetExist(r, s, 1) EXCEPT !.Highest_seq = h]
      OBVIOUS
    <2>1. h \in Int
      BY <1>1 DEF Larger
    <2>2. /\ Differ(n, r, {"Packets", "Highest_seq"}) /\ n.Highest_seq = h
          /\ Exist(n, s) = 1 /\ \A x : x # s => Exist(n, x) = Exist(r, x)
      BY <1>1, <2>n DEF SetExist, Exist, Differ, Fields
    <2>3. /\ DOMAIN n = Fields /\ n.me = r.me /\ n.State = r.State /\ n.mid = r.mid /\ n.future = r.future
          /\ n.cur = r.cur /\ n.log = r.log /\ n.Down = r.Down /\ n.Commit_set = r.Commit_set
          /\ n.Future_commit_set = r.Future_commit_set /\ n.threshold = r.threshold /\ n.My_aru = r.My_aru /\ n.Aru = r.Aru
      BY <2>2 DEF Differ, Fields
    <2>4. DaemonTyped(n)
      <3>1. Differ(n, r, {"Packets", "Highest_seq", "My_aru", "Aru", "threshold"})
        BY <2>2 DEF Differ
      <3> QED BY <1>1, <2>1, <2>2, <2>3, <3>1, TypedCounters
    <2>5. Remarks(r, n, P)
      <3>1. r.State = "EVS" => r.me \in r.Future_commit_set.commit
        BY DEF Own
      <3> QED BY <1>3, <2>2, <2>3, <3>1 DEF Remarks
    <2>6. Own(n, P) /\ Minds(r, n, P, P) /\ CurFine(n)
      BY <2>3, <2>5, OwnRemarks DEF CurFine
    <2>7. q = Deliver_agreed_packets(Advance(n), P) \/ q = Deliver_reliable_packets(n, P, s, 1)
      <3>1. SetExist(r, s, 1).Highest_seq = r.Highest_seq
        BY <1>1, ExistSet DEF Differ, Fields
      <3>2. n = [SetExist(r, s, 1) EXCEPT !.Highest_seq = Larger(@, s)]
        BY <2>n, <3>1
      <3> QED BY <1>3, <3>2 DEF Prot_handle_bcast
    <2>8. Cares(n, q, P)
      <3>1. Cares(n, Deliver_reliable_packets(n, P, s, 1), P)
        BY <1>1, <2>4, <2>6, OwnReliable
      <3>2. Cares(n, Deliver_agreed_packets(Advance(n), P), P)
        <4> PICK m : m = Advance(n)
          OBVIOUS
        <4>1. Differ(m, n, {"My_aru"}) /\ m.My_aru \in Int /\ Cares(n, m, P)
          BY <2>4, <2>6, AdvanceFacts, OwnAdvance
        <4>2. m.Highest_seq = n.Highest_seq /\ m.Aru = n.Aru /\ m.threshold = n.threshold
          BY <4>1 DEF Differ, Fields
        <4>3. Differ(m, n, {"Packets", "Highest_seq", "My_aru", "Aru", "threshold"})
          BY <4>1 DEF Differ
        <4>4. DaemonTyped(m)
          BY <1>1, <2>1, <2>2, <2>3, <2>4, <4>1, <4>2, <4>3, TypedCounters
        <4>5. Cares(m, Deliver_agreed_packets(m, P), P)
          BY <4>1, <4>4, OwnAgreed DEF Cares
        <4>6. Cares(n, Deliver_agreed_packets(m, P), P)
          BY <4>1, <4>5, CaresTwice
        <4> QED BY <4>6
      <3> QED BY <2>7, <3>1, <3>2
    <2>9. Minds(n, q, P, P)
      BY <2>6, <2>8, CaresMinds
    <2>10. Minds(r, q, P, P)
      BY <2>3, <2>6, <2>9, MindsTwice
    <2> QED BY <2>10
  <1> QED BY <1>2, <1>3

\* The group layer is ready.
LEMMA OwnDeliverAll ==
  ASSUME NEW r, NEW P, PackOK(P), DaemonTyped(r), Sane(r, P), Own(r, P), CurFine(r), r.State = "OP"
  PROVE  Minds(r, DeliverAll(r, P), P, P)
  <1> PICK t : t = [r EXCEPT !.threshold = Unreliable]
    OBVIOUS
  <1> PICK h : h = t.Highest_seq
    OBVIOUS
  <1> PICK u : u = Deliver_reliable_packets(t, P, 1, h)
    OBVIOUS
  <1> PICK q : q = Deliver_agreed_packets(u, P)
    OBVIOUS
  <1>1. DOMAIN r = Fields /\ r.Highest_seq \in Int /\ r.My_aru \in Int /\ r.Aru \in Int
    BY TypedFacts
  <1>2. Differ(t, r, {"threshold"})
    BY <1>1 DEF Differ, Fields
  <1>3. /\ Differ(t, r, Marks) /\ t.State = r.State /\ t.Highest_seq = r.Highest_seq /\ t.My_aru = r.My_aru
        /\ t.Aru = r.Aru
    BY <1>2 DEF Differ, Fields, Marks
  <1>4. Cares(r, t, P) /\ DaemonTyped(t)
    <2>1. Cares(r, r, P) /\ t.State \in {r.State, "EXIT"}
      BY <1>3, CaresSame
    <2>2. Differ(t, r, {"Packets", "Highest_seq", "My_aru", "Aru", "threshold"})
      BY <1>2 DEF Differ
    <2> QED BY <1>1, <1>3, <2>1, <2>2, CaresCounters, TypedCounters
  <1>5. t.Highest_seq \in Int /\ Own(t, P) /\ 1 \in Int
    BY <1>1, <1>3, <1>4 DEF Cares
  <1>6. Cares(t, u, P)
    BY <1>4, <1>5, OwnReliable
  <1>7. DaemonTyped(u)
    <2>1. t.State # "EXIT" => Fit(t, P)
      <3>1. t.State = r.State /\ t.Packets = r.Packets /\ t.log = r.log /\ t.Last_discarded = r.Last_discarded
            /\ t.Last_delivered = r.Last_delivered /\ t.Highest_seq = r.Highest_seq
        BY <1>2 DEF Differ, Fields
      <3> QED BY <3>1 DEF Sane, Fit, Unheard, Upto, Here, Passed, Known, Exist
    <2>2. Sane(t, P) /\ t.State # "DOWN"
      <3>1. t.log = r.log /\ t.State = r.State
        BY <1>2 DEF Differ, Fields
      <3> QED BY <1>4, <2>1, <3>1 DEF Sane
    <2>3. Sane(u, P)
      BY <1>5, <2>2, ReliableDelivery
    <2> QED BY <2>3 DEF Sane
  <1>8. Cares(u, q, P)
    BY <1>6, <1>7, OwnAgreed DEF Cares
  <1>9. Cares(r, q, P)
    BY <1>4, <1>6, <1>8, CaresTwice
  <1>10. q = DeliverAll(r, P)
    BY DEF DeliverAll
  <1> QED BY <1>9, <1>10, CaresMinds

\* Memb_token_loss
LEMMA OwnLoss ==
  ASSUME NEW r, NEW P, Sane(r, P), r.State \in {"OP", "FORM", "EVS"}
  PROVE  Remarks(r, Memb_token_loss(r), P)
  <1>k. PICK K : K = [i \in {j \in DOMAIN r.Packets : r.Packets[j] # 3} |-> r.Packets[i]]
    OBVIOUS
  <1>c. PICK c : c = [r EXCEPT !.Packets = K, !.Aru = r.Last_discarded, !.My_aru = r.Last_discarded]
    OBVIOUS
  <1>b. PICK b : b = IF r.State = "EVS" THEN Advance(c) ELSE r
    OBVIOUS
  <1>l. PICK l : l = [arq |-> 0, aru |-> 0, seq |-> 0]
    OBVIOUS
  <1>q. PICK q : q = [b EXCEPT !.State = "LOST", !.threshold = Block, !.Just_Installed = FALSE, !.Last_token = l]
    OBVIOUS
  <1>1. DOMAIN r = Fields
    BY DEF Sane, DaemonTyped
  <1>2. Differ(c, r, {"Packets", "Aru", "My_aru"}) /\ c.Packets = K
    BY <1>1, <1>c DEF Differ, Fields
  <1>3. \A s : Exist(c, s) = Exist(r, s) \/ (Exist(r, s) = 3 /\ Exist(c, s) = 0)
    <2>1. \A s : /\ s \in DOMAIN K <=> s \in DOMAIN r.Packets /\ r.Packets[s] # 3
                 /\ s \in DOMAIN K => K[s] = r.Packets[s]
      BY <1>k
    <2> QED BY <1>2, <2>1 DEF Exist
  <1>4. /\ Differ(b, r, {"Packets", "Aru", "My_aru"})
        /\ \A s : Exist(b, s) = Exist(r, s) \/ (Exist(r, s) = 3 /\ Exist(b, s) = 0)
    <2>1. CASE r.State = "EVS"
      <3>1. b = Advance(c)
        BY <1>b, <2>1
      <3>2. Differ(b, c, {"My_aru"})
        BY <1>2, <3>1 DEF Advance, Differ, Fields
      <3>3. b.Packets = c.Packets /\ Differ(b, r, {"Packets", "Aru", "My_aru"})
        BY <1>2, <3>2 DEF Differ, Fields
      <3>4. \A s : Exist(b, s) = Exist(c, s)
        BY <3>3 DEF Exist
      <3> QED BY <1>3, <3>3, <3>4
    <2>2. CASE r.State # "EVS"
      BY <1>1, <1>b, <2>2 DEF Differ
    <2> QED BY <2>1, <2>2
  <1>5. Differ(q, b, {"State", "threshold", "Just_Installed", "Last_token"}) /\ q.State = "LOST"
    BY <1>4, <1>q DEF Differ, Fields
  <1>6. /\ DOMAIN q = Fields /\ q.log = r.log /\ q.me = r.me /\ q.mid = r.mid /\ q.Down = r.Down /\ q.cur = r.cur
        /\ q.Commit_set = r.Commit_set /\ q.Packets = b.Packets
    BY <1>4, <1>5 DEF Differ, Fields
  <1>7. \A s : Exist(q, s) = Exist(b, s)
    BY <1>6 DEF Exist
  <1>8. Remarks(r, q, P)
    BY <1>4, <1>5, <1>6, <1>7 DEF Remarks
  <1>9. q = Memb_token_loss(r)
    <2>1. c = [r EXCEPT !.Packets = [i \in {j \in DOMAIN @ : @[j] # 3} |-> @[i]],
                       !.Aru = r.Last_discarded, !.My_aru = r.Last_discarded]
      BY <1>k, <1>c
    <2>2. Backoff_membership(r) = Advance(c)
      BY <2>1 DEF Backoff_membership
    <2>3. b = IF r.State = "EVS" THEN Backoff_membership(r) ELSE r
      BY <1>b, <2>2
    <2> QED BY <1>l, <1>q, <2>3 DEF Memb_token_loss
  <1> QED BY <1>8, <1>9

\* What the ring of r on the form token t says: r is one of the daemons that deliver on.
Committed(r, t) == \A g \in t.rings : g.mid = r.mid => r.me \in g.commit

\* Create_form1 and Fill_form1
LEMMA OwnFill ==
  ASSUME NEW r, NEW P, NEW i, NEW t, Sane(r, P), r.State \in {"OP", "LOST"}
  PROVE  Remarks(r, Fill_form1(r, i, t).d, P)
  <1>q. PICK q : q = [r EXCEPT !.State = "FORM", !.threshold = Block, !.attempt = i]
    OBVIOUS
  <1>1. DOMAIN r = Fields
    BY DEF Sane, DaemonTyped
  <1>2. Differ(q, r, {"State", "threshold", "attempt"}) /\ q.State = "FORM"
    BY <1>1, <1>q DEF Differ, Fields
  <1>3. /\ DOMAIN q = Fields /\ q.log = r.log /\ q.me = r.me /\ q.mid = r.mid /\ q.Down = r.Down /\ q.cur = r.cur
        /\ q.Commit_set = r.Commit_set /\ q.Packets = r.Packets
    BY <1>2 DEF Differ, Fields
  <1>4. \A s : Exist(q, s) = Exist(r, s)
    BY <1>3 DEF Exist
  <1>5. Remarks(r, q, P)
    BY <1>2, <1>3, <1>4 DEF Remarks
  <1>6. Fill_form1(r, i, t).d = q
    BY <1>q DEF Fill_form1
  <1> QED BY <1>5, <1>6

\* What a daemon writes in the form token keeps its own and the others' commitments.
LEMMA FillCommits ==
  ASSUME NEW r, NEW t, NEW v, v.rings = FillRing(r, t.rings)
  PROVE  /\ Committed(r, v)
         /\ \A u : Committed(u, t) /\ (\E g \in t.rings : g.mid = u.mid) => Committed(u, v)
  <1> DEFINE old == {g \in t.rings : g.mid = r.mid}
             Missing(set) == {i \in set : Exist(r, i) = 0}
             mine == [mid |-> r.mid, aru |-> r.Aru, highest |-> r.Highest_seq,
                      holes |-> Missing(r.Last_discarded + 1 .. r.Highest_seq),
                      trans |-> {r.me}, commit |-> {r.me} \cup r.Commit_set.commit]
             Both(g) == [mid |-> r.mid, aru |-> Larger(g.aru, r.Aru),
                         highest |-> Larger(g.highest, r.Highest_seq),
                         holes |-> Missing(g.holes \cup (g.highest + 1 .. r.Highest_seq)),
                         trans |-> g.trans \cup {r.me},
                         commit |-> g.commit \cup mine.commit]
  <1>1. v.rings = (t.rings \ old) \cup (IF old = {} THEN {mine} ELSE {Both(g) : g \in old})
    BY DEF FillRing
  <1>2. mine.mid = r.mid /\ r.me \in mine.commit
    OBVIOUS
  <1>3. \A g : Both(g).mid = r.mid /\ Both(g).commit = g.commit \cup mine.commit
    OBVIOUS
  <1>4. \A h \in v.rings : \/ h \in t.rings /\ h.mid # r.mid
                           \/ old = {} /\ h = mine
                           \/ \E g \in old : h = Both(g)
    <2> HIDE DEF mine, Both
    <2> QED BY <1>1
  <1>5. \A g : g \in old <=> g \in t.rings /\ g.mid = r.mid
    OBVIOUS
  <1> HIDE DEF old, mine, Both, Missing
  <1>6. Committed(r, v)
    <2> SUFFICES ASSUME NEW h \in v.rings, h.mid = r.mid PROVE r.me \in h.commit
      BY DEF Committed
    <2>1. h = mine \/ \E g \in old : h = Both(g)
      BY <1>4
    <2> QED BY <1>2, <1>3, <2>1
  <1>7. ASSUME NEW u, Committed(u, t), NEW w \in t.rings, w.mid = u.mid PROVE Committed(u, v)
    <2> SUFFICES ASSUME NEW h \in v.rings, h.mid = u.mid PROVE u.me \in h.commit
      BY DEF Committed
    <2>1. CASE h \in t.rings
      BY <1>7, <2>1 DEF Committed
    <2>2. CASE old = {} /\ h = mine
      <3>1. u.mid = r.mid
        BY <1>2, <2>2
      <3> QED BY <1>5, <1>7, <2>2, <3>1
    <2>3. ASSUME NEW g \in old, h = Both(g) PROVE u.me \in h.commit
      <3>1. g \in t.rings /\ g.mid = u.mid
        BY <1>3, <1>5, <2>3
      <3>2. u.me \in g.commit
        BY <1>7, <3>1 DEF Committed
      <3> QED BY <1>3, <2>3, <3>2
    <2> QED BY <1>4, <2>1, <2>2, <2>3
  <1> QED BY <1>6, <1>7

\* Read_form2
LEMMA OwnRead ==
  ASSUME NEW r, NEW P, NEW i, NEW t, PackOK(P), Sane(r, P), r.State = "FORM", FormTyped(t), HolesOf(r, t),
         Committed(r, t), r.me \in ring[i], Own(r, P), CurFine(r)
  PROVE  Minds(r, Read_form2(r, P, i, t), P, P)
  <1>g. PICK g : g = CHOOSE h \in t.rings : h.mid = r.mid
    OBVIOUS
  <1>e. PICK e : e = [r EXCEPT !.Highest_seq = g.highest, !.Aru = g.aru]
    OBVIOUS
  <1>a. PICK a : a = Discard_packets(e, P)
    OBVIOUS
  <1>m. PICK m : m = MarkHoles(a, g.holes)
    OBVIOUS
  <1>f. PICK f : f = [trans |-> g.trans, commit |-> g.commit]
    OBVIOUS
  <1>l. PICK l : l = [arq |-> 0, aru |-> 0, seq |-> 0]
    OBVIOUS
  <1>n. PICK n : n = [m EXCEPT !.State = "EVS", !.future = i, !.Last_seq = t.seq, !.Aru = 0,
                       !.Future_commit_set = f, !.Last_num = 0, !.Last_token = l]
    OBVIOUS
  <1>q. PICK q : q = Read_form2(r, P, i, t)
    OBVIOUS
  <1>1. /\ DOMAIN r = Fields /\ DaemonTyped(r) /\ Fit(r, P) /\ r.My_aru \in Int /\ r.Last_num \in Int
        /\ DOMAIN r.Last_token = {"arq", "aru", "seq"} /\ r.Last_token.aru \in Int /\ r.Last_token.seq \in Int
    BY TypedFacts DEF Sane, DaemonTyped
  <1>2. g \in t.rings /\ g.mid = r.mid
    BY <1>g DEF HolesOf
  <1>3. /\ g.aru \in Int /\ g.highest \in Int /\ \A s \in Int : Exist(r, s) = 2 => s <= g.highest
    BY <1>2 DEF HolesOf, FormTyped, RingTyped
  <1>4. r.me \in g.commit
    BY <1>2 DEF Committed
  <1>5. Differ(e, r, {"Highest_seq", "Aru"}) /\ e.Highest_seq = g.highest /\ e.Aru = g.aru
    BY <1>1, <1>e DEF Differ, Fields
  <1>6. /\ Differ(e, r, Tuned) /\ Differ(e, r, Marks) /\ e.State = "FORM" /\ e.My_aru = r.My_aru
        /\ e.Last_num = r.Last_num /\ e.Last_token = r.Last_token /\ e.Packets = r.Packets
    BY <1>5 DEF Differ, Fields, Tuned, Marks
  <1>7. \A s : Exist(e, s) = Exist(r, s)
    BY <1>6 DEF Exist
  <1>8. Sane(e, P)
    <2>1. Known(e)
      BY <1>3, <1>5, <1>6, <1>7 DEF Known
    <2>2. /\ e.State \in {r.State, "EXIT"} /\ e.Highest_seq \in Int /\ e.My_aru \in Int /\ e.Aru \in Int
          /\ e.Last_num \in Int /\ DOMAIN e.Last_token = {"arq", "aru", "seq"} /\ e.Last_token.aru \in Int
          /\ e.Last_token.seq \in Int
      BY <1>1, <1>3, <1>5, <1>6
    <2> QED BY ONLY Sane(r, P), <1>6, <2>1, <2>2, TuneKnown
  <1>9. Cares(r, e, P)
    <2>1. Cares(r, r, P)
      BY CaresSame
    <2>2. e.State \in {r.State, "EXIT"}
      BY <1>6
    <2> QED BY ONLY <1>6, <2>1, <2>2, CaresCounters
  <1>10. Cares(r, a, P)
    <2>1. Own(e, P)
      BY <1>9 DEF Cares
    <2>2. Cares(e, a, P) \/ Leaves(e, a, P)
      BY <1>8, <1>a, <2>1, OwnDiscarding
    <2>3. ~Leaves(e, a, P)
      BY <1>6 DEF Leaves
    <2> QED BY <1>9, <2>2, <2>3, CaresTwice
  <1>11. Minds(r, a, P, P)
    BY <1>10, CaresMinds
  <1>12. a.me = r.me /\ a.mid = r.mid /\ a.future = r.future /\ a.State \in {"FORM", "EXIT"} /\ Own(a, P) /\ DOMAIN a = Fields
    BY <1>10 DEF Cares, Own
  <1>13. \/ q = Exit(a)
         \/ q = n /\ a.State # "EXIT" /\ \A h \in g.holes : Exist(a, h) = 0 \/ P[h].from \notin ring[i]
    BY <1>g, <1>e, <1>a, <1>m, <1>f, <1>l, <1>n, <1>q DEF Read_form2
  <1>14. CASE q = Exit(a)
    <2>1. Cares(a, q, P)
      BY <1>12, <1>14, CaresExit
    <2>2. Cares(r, q, P)
      BY <1>10, <2>1, CaresTwice
    <2> QED BY <1>q, <2>2, CaresMinds
  <1>15. CASE q = n /\ a.State # "EXIT" /\ \A h \in g.holes : Exist(a, h) = 0 \/ P[h].from \notin ring[i]
    <2>1. /\ Differ(m, a, {"Packets"})
          /\ \A s : Exist(m, s) = IF s \in g.holes THEN 3 ELSE Exist(a, s)
      BY <1>12, <1>m, MarkFacts
    <2>2. /\ Differ(n, m, {"State", "future", "Last_seq", "Aru", "Future_commit_set", "Last_num", "Last_token"})
          /\ n.State = "EVS" /\ n.Future_commit_set = f
      BY <1>n, <2>1 DEF Differ, Fields
    <2>3. /\ DOMAIN n = Fields /\ n.log = a.log /\ n.me = a.me /\ n.mid = a.mid /\ n.Down = a.Down /\ n.cur = a.cur
          /\ n.Commit_set = a.Commit_set /\ n.Packets = m.Packets
      BY <2>1, <2>2 DEF Differ, Fields
    <2>4. \A s : Exist(n, s) = IF s \in g.holes THEN 3 ELSE Exist(a, s)
      BY <2>1, <2>3 DEF Exist
    <2>5. n.me \in n.Future_commit_set.commit
      BY <1>4, <1>12, <1>f, <2>2, <2>3
    <2>6. \A s : Exist(n, s) = Exist(a, s) \/ (Exist(n, s) \notin {1, 2} /\ (Exist(a, s) # 1 \/ P[s].from # a.me))
      BY <1>12, <1>15, <2>4
    <2>7. Remarks(a, n, P)
      BY <1>15, <2>3, <2>5, <2>6 DEF Remarks
    <2>8. CurFine(a)
      BY <1>11 DEF Minds
    <2>9. Minds(a, n, P, P)
      BY <1>12, <2>7, <2>8, OwnRemarks
    <2>10. a.State = "EVS" => r.State = "EVS"
      BY <1>12
    <2>11. Minds(r, n, P, P)
      BY ONLY <1>11, <1>12, <2>9, <2>10, MindsTwice
    <2> QED BY <1>15, <1>q, <2>11
  <1> QED BY <1>13, <1>14, <1>15

-----------------------------------------------------------------------------
(* Every daemon has told, or will tell, the messages of its own packets *)

\* What p has sent in part waits in the queue D, or p completed it in one of the packets K.
Started(K, D, p) ==
  \A i \in Rings : \A s \in DOMAIN K[i] : K[i][s].from = p /\ K[i][s].index >= 0 =>
    /\ NumElements[K[i][s].msg] = 2
    /\ K[i][s].msg \in Elements(D) \/ \E h \in Rings : Whole(K[h], p, K[i][s].msg)
\* p has its packets of the membership it is in, has told the messages it
\* completed elsewhere, and has sent nothing in a membership it may still install.
Faithful(D, K, F, p) ==
  /\ Own(D[p], K[D[p].mid]) /\ CurFine(D[p]) /\ Started(K, D[p].Down, p)
  /\ \A i \in Rings : i # D[p].mid => Heard(D[p].log, K[i], p)
  /\ \A i \in Rings : Ahead(D, F, p, i) => \A s \in DOMAIN K[i] : K[i][s].from # p
\* Whoever waits for a form token delivers the packets past the holes it lists.
Pledged(D, F) ==
  \A p \in Procs : D[p].State = "FORM" /\ F[D[p].attempt].stage \in {1, 2} => Committed(D[p], F[D[p].attempt])

\* Packets are added to those of membership j, all of them from daemon p.
Posts(K, L, j, p) ==
  /\ DOMAIN K[j] \subseteq DOMAIN L[j] /\ \A s \in DOMAIN K[j] : L[j][s] = K[j][s]
  /\ \A s \in DOMAIN L[j] \ DOMAIN K[j] : L[j][s].from = p
  /\ \A i \in Rings : i # j => L[i] = K[i]

\* A daemon that does nothing while another one sends.
LEMMA OthersFaithful ==
  ASSUME NEW D, NEW K, NEW F, NEW E, NEW L, NEW G, NEW j \in Rings, NEW p, NEW x \in Procs, x # p, Posts(K, L, j, p),
         Faithful(D, K, F, x), E[x] = D[x], D[x].me = x, D[x].mid \in Rings,
         \A i \in Rings : Ahead(E, G, x, i) => Ahead(D, F, x, i)
  PROVE  Faithful(E, L, G, x)
  <1>1. ASSUME NEW i \in Rings
        PROVE  /\ DOMAIN K[i] \subseteq DOMAIN L[i] /\ \A s \in DOMAIN K[i] : L[i][s] = K[i][s]
               /\ \A s \in DOMAIN L[i] : L[i][s].from = x => s \in DOMAIN K[i]
    BY DEF Posts
  <1> PICK r, S, P : r = D[x] /\ S = K[r.mid] /\ P = L[r.mid]
    OBVIOUS
  <1>2. Own(r, P) /\ CurFine(r)
    <2>1. /\ DOMAIN S \subseteq DOMAIN P /\ \A s \in DOMAIN S : P[s] = S[s]
          /\ \A s \in DOMAIN P : P[s].from = x => s \in DOMAIN S
      BY <1>1
    <2>2. Own(r, S) /\ CurFine(r) /\ r.me = x
      BY DEF Faithful
    <2>3. Here(r, S) /\ Kept(r, S)
      BY <2>2 DEF Own
    <2>4. Here(r, P) /\ Kept(r, P)
      BY ONLY <2>1, <2>2, <2>3 DEF Here, Kept
    <2> QED BY <2>2, <2>4 DEF Own
  <1>3. \A m, h : h \in Rings /\ Whole(K[h], x, m) => Whole(L[h], x, m)
    BY <1>1 DEF Whole
  <1>4. Started(L, r.Down, x)
    <2>1. Started(K, r.Down, x)
      BY DEF Faithful
    <2> SUFFICES ASSUME NEW i \in Rings, NEW s \in DOMAIN L[i], L[i][s].from = x, L[i][s].index >= 0
                 PROVE  /\ NumElements[L[i][s].msg] = 2
                        /\ L[i][s].msg \in Elements(r.Down) \/ \E h \in Rings : Whole(L[h], x, L[i][s].msg)
      BY DEF Started
    <2>2. s \in DOMAIN K[i] /\ K[i][s] = L[i][s]
      BY <1>1
    <2> QED BY <1>3, <2>1, <2>2 DEF Started
  <1>5. ASSUME NEW i \in Rings, i # r.mid PROVE Heard(r.log, L[i], x)
    <2>1. Heard(r.log, K[i], x)
      BY <1>5 DEF Faithful
    <2> QED BY <1>1, <2>1 DEF Heard
  <1>6. ASSUME NEW i \in Rings, Ahead(E, G, x, i), NEW s \in DOMAIN L[i] PROVE L[i][s].from # x
    <2>1. \A z \in DOMAIN K[i] : K[i][z].from # x
      BY <1>6 DEF Faithful
    <2> QED BY <1>1, <2>1
  <1> QED BY <1>2, <1>4, <1>5, <1>6 DEF Faithful

\* A daemon that sends, delivers, and perhaps installs its next membership.
LEMMA SelfFaithful ==
  ASSUME NEW D, NEW K, NEW F, NEW E, NEW L, NEW G, NEW j \in Rings, NEW p \in Procs, NEW q,
         Faithful(D, K, F, p), E[p] = q, D[p].me = p, D[p].mid = j, D[p].future \in Rings,
         \A i \in Rings : i # j => L[i] = K[i],
         Minds(D[p], q, K[j], L[j]),
         D[p].State = "EVS" => Ahead(D, F, p, D[p].future),
         \A i \in Rings : Ahead(D, F, p, i) => i # j,
         \A i \in Rings : Ahead(E, G, p, i) => Ahead(D, F, p, i)
  PROVE  Faithful(E, L, G, p)
  <1> PICK r, S, P : r = D[p] /\ S = K[j] /\ P = L[j]
    OBVIOUS
  <1>1. /\ Adds(r, q, S, P) /\ CurFine(q) /\ Told(r.log) \subseteq Told(q.log)
        /\ \/ Own(q, P) /\ q.mid = j
           \/ /\ r.State = "EVS" /\ q.mid = r.future /\ DOMAIN q = Fields /\ IsSeq(q.log) /\ q.State \in {"OP", "EXIT"}
              /\ (\A s : Exist(q, s) = 0) /\ Heard(q.log, P, q.me) /\ q.me \in q.Commit_set.commit
    BY DEF Minds
  <1>2. q.me = p /\ DOMAIN S \subseteq DOMAIN P /\ \A s \in DOMAIN S : P[s] = S[s]
    BY <1>1 DEF Adds
  <1>3. \A m, h : h \in Rings /\ Whole(K[h], p, m) => Whole(L[h], p, m)
    <2> SUFFICES ASSUME NEW m, NEW h \in Rings, Whole(K[h], p, m) PROVE Whole(L[h], p, m)
      OBVIOUS
    <2>1. CASE h = j
      BY <1>2, <2>1 DEF Whole
    <2>2. CASE h # j
      BY <2>2
    <2> QED BY <2>1, <2>2
  <1>4. Started(L, q.Down, p)
    <2>1. Started(K, r.Down, p)
      BY DEF Faithful
    <2> SUFFICES ASSUME NEW i \in Rings, NEW s \in DOMAIN L[i], L[i][s].from = p, L[i][s].index >= 0
                 PROVE  /\ NumElements[L[i][s].msg] = 2
                        /\ L[i][s].msg \in Elements(q.Down) \/ \E h \in Rings : Whole(L[h], p, L[i][s].msg)
      BY DEF Started
    <2>2. CASE s \in DOMAIN K[i]
      <3>1. K[i][s] = L[i][s]
        BY <1>2, <2>2
      <3> PICK m : m = L[i][s].msg
        OBVIOUS
      <3>2. NumElements[m] = 2 /\ (m \in Elements(r.Down) \/ \E h \in Rings : Whole(K[h], p, m))
        BY <2>1, <2>2, <3>1 DEF Started
      <3>3. m \in Elements(r.Down) => m \in Elements(q.Down) \/ Whole(P, p, m)
        BY <1>1, <3>2 DEF Adds
      <3> QED BY <1>3, <3>2, <3>3
    <2>3. CASE s \notin DOMAIN K[i]
      <3>1. i = j
        BY <2>3
      <3>2. s \in DOMAIN P \ DOMAIN S /\ L[i][s] = P[s]
        BY <2>3, <3>1
      <3>3. Partial(P[s], p, q.Down, P)
        BY <1>1, <3>2 DEF Adds
      <3> QED BY <3>1, <3>2, <3>3 DEF Partial
    <2> QED BY <2>2, <2>3
  <1>5. \A i \in Rings : i # j /\ Heard(r.log, K[i], p) => Heard(q.log, L[i], p)
    BY <1>1 DEF Heard
  <1>6. ASSUME NEW i \in Rings, Ahead(E, G, p, i), NEW s \in DOMAIN L[i] PROVE L[i][s].from # p
    <2>1. Ahead(D, F, p, i) /\ L[i] = K[i]
      BY <1>6
    <2> QED BY <2>1 DEF Faithful
  <1>7. \A i \in Rings : i # j => Heard(r.log, K[i], p)
    BY DEF Faithful
  <1>8. CASE Own(q, P) /\ q.mid = j
    BY <1>1, <1>4, <1>5, <1>6, <1>7, <1>8 DEF Faithful
  <1>9. CASE /\ r.State = "EVS" /\ q.mid = r.future /\ DOMAIN q = Fields /\ IsSeq(q.log) /\ q.State \in {"OP", "EXIT"}
             /\ (\A s : Exist(q, s) = 0) /\ Heard(q.log, P, q.me) /\ q.me \in q.Commit_set.commit
    <2> PICK k : k = r.future
      OBVIOUS
    <2>1. k \in Rings /\ Ahead(D, F, p, k) /\ k # j /\ L[k] = K[k]
      BY <1>9
    <2>2. \A s \in DOMAIN K[k] : K[k][s].from # p
      BY <2>1 DEF Faithful
    <2>3. Here(q, K[k]) /\ Kept(q, K[k])
      BY <1>2, <1>9, <2>2 DEF Here, Kept
    <2>4. Own(q, L[k])
      BY <1>9, <2>1, <2>3 DEF Own
    <2>5. \A i \in Rings : i # k => Heard(q.log, L[i], p)
      BY <1>2, <1>5, <1>7, <1>9
    <2> QED BY <1>1, <1>4, <1>6, <1>9, <2>4, <2>5 DEF Faithful
  <1> QED BY <1>1, <1>8, <1>9

\* The invariant of the protocol, and what it takes to tell the own messages.
SelfSystem == System /\ (\A p \in Procs : Faithful(d, pack, form, p)) /\ Pledged(d, form)

\* One daemon makes a step.
LEMMA FaithfulStep ==
  ASSUME SelfSystem, NEW p \in Procs, NEW q, NEW P, Minds(d[p], q, pack[d[p].mid], P),
         d' = [d EXCEPT ![p] = q], pack' = [pack EXCEPT ![d[p].mid] = P],
         \A x \in Procs, i \in Rings : Ahead(d', form', x, i) => Ahead(d, form, x, i)
  PROVE  \A x \in Procs : Faithful(d', pack', form', x)
  <1>j. PICK j : j = d[p].mid
    OBVIOUS
  <1>1. /\ DOMAIN d = Procs /\ DOMAIN pack = Rings /\ j \in Rings /\ d[p].future \in Rings
        /\ \A x \in Procs : d[x].me = x /\ d[x].mid \in Rings
        /\ \A i \in Rings : Ahead(d, form, p, i) => i # j
        /\ d[p].State = "EVS" => Ahead(d, form, p, d[p].future)
    BY <1>j, SystemFacts DEF SelfSystem
  <1>2. d'[p] = q /\ pack'[j] = P /\ \A i \in Rings : i # j => pack'[i] = pack[i]
    BY <1>1, <1>j
  <1>3. \A x \in Procs : Faithful(d, pack, form, x)
    BY DEF SelfSystem
  <1>4. Minds(d[p], q, pack[j], pack'[j])
    BY <1>2, <1>j
  <1>5. Faithful(d', pack', form', p)
    <2>1. /\ p \in Procs /\ j \in Rings /\ Faithful(d, pack, form, p) /\ d'[p] = q /\ d[p].me = p /\ d[p].mid = j
          /\ d[p].future \in Rings /\ \A i \in Rings : i # j => pack'[i] = pack[i]
          /\ d[p].State = "EVS" => Ahead(d, form, p, d[p].future)
          /\ \A i \in Rings : Ahead(d, form, p, i) => i # j
          /\ \A i \in Rings : Ahead(d', form', p, i) => Ahead(d, form, p, i)
      BY <1>1, <1>2, <1>3, <1>j
    <2> QED BY ONLY <1>4, <2>1, SelfFaithful
  <1>6. Posts(pack, pack', j, p)
    <2>1. Adds(d[p], q, pack[j], pack'[j]) /\ d[p].me = p
      BY <1>1, <1>4 DEF Minds
    <2> QED BY ONLY <1>2, <2>1 DEF Adds, Posts
  <1>7. ASSUME NEW x \in Procs, x # p PROVE Faithful(d', pack', form', x)
    <2>1. /\ j \in Rings /\ Faithful(d, pack, form, x) /\ d'[x] = d[x] /\ d[x].me = x /\ d[x].mid \in Rings
          /\ \A i \in Rings : Ahead(d', form', x, i) => Ahead(d, form, x, i)
      BY <1>1, <1>3, <1>7
    <2> QED BY ONLY <1>6, <1>7, <2>1, OthersFaithful
  <1> QED BY <1>5, <1>7

\* Nobody waits for a form token who did not wait for it before.
LEMMA PledgedQuiet ==
  ASSUME SelfSystem, NEW p \in Procs, NEW q, Quiet(d[p], q), q.me = p, d' = [d EXCEPT ![p] = q], form' = form
  PROVE  Pledged(d', form')
  <1>1. DOMAIN d = Procs /\ d[p].me = p
    BY SystemFacts DEF SelfSystem
  <1>2. \A x \in Procs : d'[x].State = "FORM" =>
          d[x].State = "FORM" /\ d'[x].attempt = d[x].attempt /\ d'[x].mid = d[x].mid /\ d'[x].me = d[x].me
    BY <1>1 DEF Quiet
  <1>3. Pledged(d, form)
    BY DEF SelfSystem
  <1> QED BY <1>2, <1>3 DEF Pledged, Committed

\* A step of one daemon that leaves the form tokens alone.
LEMMA SelfStep ==
  ASSUME SelfSystem, System', NEW p \in Procs, NEW q, NEW P,
         Step(d[p], q, pack[d[p].mid], P, pack[d[p].future]), Quiet(d[p], q),
         Minds(d[p], q, pack[d[p].mid], P),
         d' = [d EXCEPT ![p] = q], pack' = [pack EXCEPT ![d[p].mid] = P], form' = form
  PROVE  SelfSystem'
  <1>1. /\ DOMAIN d = Procs /\ IsSeq(d[p].log) /\ d[p].future \in Rings /\ d[p].me = p
        /\ Forms(d, form) /\ RingOrder(d)
    BY SystemFacts DEF SelfSystem, System
  <1>2. \A x \in Procs, i \in Rings : Ahead(d', form, x, i) => Ahead(d, form, x, i)
    BY <1>1, QuietForms
  <1>3. \A x \in Procs : Faithful(d', pack', form', x)
    BY <1>2, FaithfulStep
  <1>4. q.me = p
    BY <1>1 DEF Step, Packs
  <1>5. Pledged(d', form')
    BY <1>4, PledgedQuiet
  <1> QED BY <1>3, <1>5 DEF SelfSystem

\* The same, when no packet is sent.
LEMMA SelfWorks ==
  ASSUME SelfSystem, System', NEW p \in Procs, NEW q, Works(d[p], q, pack[d[p].mid]), Quiet(d[p], q),
         Minds(d[p], q, pack[d[p].mid], pack[d[p].mid]), d' = [d EXCEPT ![p] = q], UNCHANGED <<pack, form>>
  PROVE  SelfSystem'
  <1>P. PICK P : P = pack[d[p].mid]
    OBVIOUS
  <1>1. /\ PackOK(P) /\ NoDup(Queue(d[p])) /\ Pending(d[p]) \cap Contents(P) = {} /\ d[p].mid \in Rings
        /\ pack = [i \in Rings |-> pack[i]]
    BY <1>P, SystemFacts DEF SelfSystem
  <1>2. Step(d[p], q, P, P, pack[d[p].future])
    BY <1>1, <1>P, WorksStep
  <1>3. pack' = [pack EXCEPT ![d[p].mid] = P]
    BY <1>1, <1>P
  <1> QED BY <1>P, <1>2, <1>3, SelfStep

\* A token has been handled.
LEMMA TokenMinds ==
  ASSUME SelfSystem, NEW p \in Procs, d[p].State \in {"OP", "EVS"}, NEW k \in 0 .. Len(d[p].todo), NEW fits,
         NEW t, TokenTyped(t)
  PROVE  LET res == Prot_handle_token(Prot_new_message(d[p], k), pack[d[p].mid], t, fits)
         IN  Minds(d[p], Forget(res.d), pack[d[p].mid], res.P)
  <1>o. PICK o, S : o = d[p] /\ S = pack[o.mid]
    OBVIOUS
  <1>r. PICK r : r = Prot_new_message(o, k)
    OBVIOUS
  <1>res. PICK res : res = Prot_handle_token(r, S, t, fits)
    OBVIOUS
  <1>u. PICK u, P : u = res.d /\ P = res.P
    OBVIOUS
  <1>1. /\ Sane(o, S) /\ PackOK(S) /\ NoDup(Queue(o)) /\ Pending(o) \cap Contents(S) = {}
        /\ Pending(o) \cap Told(o.log) = {} /\ o.mid \in Rings
    BY <1>o, SystemFacts DEF SelfSystem
  <1>2. Own(o, S) /\ CurFine(o)
    BY <1>o DEF SelfSystem, Faithful
  <1>3. Sane(r, S) /\ Differ(r, o, {"Down", "todo"}) /\ Queue(r) = Queue(o)
    BY <1>1, <1>o, <1>r, MessageDown
  <1>4. Own(r, S) /\ Minds(o, r, S, S) /\ r.mid = o.mid /\ r.future = o.future /\ r.State = o.State
    <2>1. k \in 0 .. Len(o.todo)
      BY <1>o
    <2> QED BY ONLY <1>1, <1>2, <1>r, <2>1, OwnDown
  <1>5. CurFine(r)
    BY <1>4 DEF Minds
  <1>6. Pending(r) = Pending(o) /\ r.log = o.log
    BY <1>3 DEF Pending, Differ, Fields
  <1>7. Minds(r, u, S, P)
    <2>1. r.State \in {"OP", "EVS"} /\ NoDup(Queue(r)) /\ Pending(r) \cap Contents(S) = {} /\ Pending(r) \cap Told(r.log) = {}
      BY <1>1, <1>3, <1>4, <1>6, <1>o
    <2> QED BY ONLY <1>1, <1>3, <1>4, <1>5, <1>res, <1>u, <2>1, TokenTyped(t), OwnToken
  <1>8. Minds(o, u, S, P)
    BY ONLY <1>4, <1>7, MindsTwice
  <1>9. Minds(o, Forget(u), S, P)
    BY <1>8, MindsForget
  <1> QED BY <1>9, <1>o, <1>r, <1>res, <1>u

\* Prot_handle_token keeps the invariant.
LEMMA RecvTokenSelf ==
  ASSUME SelfSystem, NEW p \in Procs, Recv_token(p)
  PROVE  SelfSystem'
  <1>t. PICK t : t = sent[Conf_previous(Active(d[p]), p)]
    OBVIOUS
  <1>1. /\ d[p].State \in {"OP", "EVS"} /\ form' = form
    BY DEF Recv_token
  <1>2. PICK k \in 0 .. Len(d[p].todo), fits \in BOOLEAN, rtr \in {t.rtr, {}} :
          TokenHandled(p, Prot_handle_token(Prot_new_message(d[p], k), pack[d[p].mid], [t EXCEPT !.rtr = rtr], fits))
    BY <1>t DEF Recv_token
  <1>s. System
    BY DEF SelfSystem
  <1>3. TokenTyped(t)
    <2>1. p \in Active(d[p]) /\ Active(d[p]) \subseteq Procs
      <3>1. d[p].mid \in Rings /\ d[p].future \in Rings
        BY <1>s, SystemFacts
      <3>2. Members(d, form, ring)
        BY <1>s DEF System
      <3> QED BY <1>1, <3>1, <3>2 DEF Members, Active, ActiveId
    <2>2. Conf_previous(Active(d[p]), p) \in Procs
      BY <2>1, PreviousIs
    <2> QED BY <1>s, <1>t, <2>2 DEF System, Tokens
  <1>u. PICK u : u = [t EXCEPT !.rtr = rtr]
    OBVIOUS
  <1>4. TokenTyped(u)
    <2>1. Bounded(t.rtr) /\ Bounded({})
      BY <1>3, FS_EmptySet DEF TokenTyped, Bounded
    <2>2. /\ DOMAIN u = DOMAIN t /\ u.seq = t.seq /\ u.aru = t.aru /\ u.fc = t.fc /\ u.rtr = rtr
      BY <1>3, <1>u DEF TokenTyped
    <2> QED BY <1>3, <2>1, <2>2 DEF TokenTyped
  <1>res. PICK res : res = Prot_handle_token(Prot_new_message(d[p], k), pack[d[p].mid], u, fits)
    OBVIOUS
  <1>q. PICK q : q = Forget(res.d)
    OBVIOUS
  <1>5. Step(d[p], q, pack[d[p].mid], res.P, pack[d[p].future]) /\ Quiet(d[p], q)
    BY <1>1, <1>4, <1>res, <1>q, <1>s, TokenStep
  <1>6. Minds(d[p], q, pack[d[p].mid], res.P)
    BY <1>1, <1>4, <1>res, <1>q, TokenMinds
  <1>7. d' = [d EXCEPT ![p] = q] /\ pack' = [pack EXCEPT ![d[p].mid] = res.P]
    <2>1. TokenHandled(p, res)
      BY <1>2, <1>u, <1>res
    <2> QED BY <1>q, <2>1 DEF TokenHandled
  <1>8. System'
    BY <1>s, RecvTokenKeeps
  <1> QED BY ONLY SelfSystem, p \in Procs, <1>1, <1>5, <1>6, <1>7, <1>8, SelfStep

\* Prot_handle_bcast keeps the invariant.
LEMMA RecvPacketSelf ==
  ASSUME SelfSystem, NEW p \in Procs, Recv_packet(p)
  PROVE  SelfSystem'
  <1>1. PICK k \in net[p] :
          /\ k.mid = d[p].mid /\ d[p].State \notin {"EXIT", "DOWN"}
          /\ d' = [d EXCEPT ![p] = Prot_handle_bcast(d[p], pack[k.mid], k.seq)]
          /\ UNCHANGED <<ring, pack, sent, form, left>>
    BY DEF Recv_packet
  <1>P. PICK P : P = pack[d[p].mid]
    OBVIOUS
  <1>q. PICK q : q = Prot_handle_bcast(d[p], P, k.seq)
    OBVIOUS
  <1>s. System
    BY DEF SelfSystem
  <1>2. Sane(d[p], P) /\ PackOK(P)
    BY <1>P, <1>s, SystemFacts
  <1>3. k.seq \in DOMAIN P
    BY <1>1, <1>P, <1>s DEF System, Traffic
  <1>4. Quiet(d[p], q) /\ Works(d[p], q, P)
    <2>1. /\ Works(d[p], q, P) /\ q.State \in {d[p].State, "EXIT"}
          /\ q.future = d[p].future /\ q.attempt = d[p].attempt
          /\ d[p].State = "FORM" => \A x : Exist(q, x) = 2 => Exist(d[p], x) = 2
      BY <1>1, <1>2, <1>3, <1>q, BcastFacts
    <2> QED BY <2>1 DEF Quiet, Works
  <1>5. Minds(d[p], q, P, P)
    <2>1. Own(d[p], P) /\ CurFine(d[p])
      BY <1>P DEF SelfSystem, Faithful
    <2> QED BY <1>1, <1>2, <1>3, <1>q, <2>1, OwnPacket
  <1>6. d' = [d EXCEPT ![p] = q] /\ UNCHANGED <<pack, form>>
    BY <1>1, <1>P, <1>q
  <1>7. System'
    BY <1>s, RecvPacketKeeps
  <1> QED BY <1>P, <1>4, <1>5, <1>6, <1>7, SelfWorks

\* The end of the groups' work on a membership keeps the invariant.
LEMMA GroupsReadySelf ==
  ASSUME SelfSystem, NEW p \in Procs, Groups_ready(p)
  PROVE  SelfSystem'
  <1>1. /\ d[p].State = "OP" /\ d' = [d EXCEPT ![p] = DeliverAll(d[p], pack[d[p].mid])] /\ UNCHANGED <<pack, form>>
    BY DEF Groups_ready
  <1>P. PICK P : P = pack[d[p].mid]
    OBVIOUS
  <1>q. PICK q : q = DeliverAll(d[p], P)
    OBVIOUS
  <1>2. System /\ System'
    BY GroupsReadyKeeps DEF SelfSystem
  <1>3. Sane(d[p], P) /\ PackOK(P)
    BY <1>2, <1>P, SystemFacts
  <1>4. Works(d[p], q, P) /\ Quiet(d[p], q)
    <2>1. Works(d[p], q, P) /\ q.State \in {"OP", "EXIT"}
      BY <1>1, <1>3, <1>q, DeliverAllFacts
    <2> QED BY <2>1 DEF Quiet
  <1>5. Minds(d[p], q, P, P)
    <2>1. Own(d[p], P) /\ CurFine(d[p]) /\ DaemonTyped(d[p])
      BY <1>3, <1>P DEF SelfSystem, Faithful, Sane
    <2> QED BY <1>1, <1>3, <1>q, <2>1, OwnDeliverAll
  <1> QED BY <1>1, <1>P, <1>q, <1>2, <1>4, <1>5, SelfWorks

\* A token loss keeps the invariant.
LEMMA LoseTokenSelf ==
  ASSUME SelfSystem, NEW p \in Procs, Lose_token(p)
  PROVE  SelfSystem'
  <1>1. /\ d[p].State \in {"OP", "FORM", "EVS"} /\ d' = [d EXCEPT ![p] = Forget(Memb_token_loss(d[p]))]
        /\ UNCHANGED <<pack, form>>
    BY DEF Lose_token
  <1>P. PICK P : P = pack[d[p].mid]
    OBVIOUS
  <1>l. PICK l : l = Memb_token_loss(d[p])
    OBVIOUS
  <1>q. PICK q : q = Forget(l)
    OBVIOUS
  <1>2. System /\ System'
    BY LoseTokenKeeps DEF SelfSystem
  <1>3. Sane(d[p], P)
    BY <1>2, <1>P, SystemFacts
  <1>4. Works(d[p], l, P) /\ l.State = "LOST"
    BY <1>1, <1>3, <1>l, LossFacts
  <1>5. Works(d[p], q, P)
    BY <1>4, <1>q, WorksForget
  <1>6. Quiet(d[p], q)
    <2>1. q.State = "LOST"
      BY <1>4, <1>q, ForgetFacts DEF Works
    <2> QED BY <2>1 DEF Quiet
  <1>7. Minds(d[p], q, P, P)
    <2>1. Own(d[p], P) /\ CurFine(d[p])
      BY <1>P DEF SelfSystem, Faithful
    <2>2. Remarks(d[p], l, P)
      BY <1>1, <1>3, <1>l, OwnLoss
    <2>3. Minds(d[p], l, P, P)
      BY <2>1, <2>2, OwnRemarks
    <2> QED BY <1>q, <2>3, MindsForget
  <1>8. d' = [d EXCEPT ![p] = q]
    BY <1>1, <1>l, <1>q
  <1> QED BY <1>1, <1>P, <1>2, <1>5, <1>6, <1>7, <1>8, SelfWorks

\* A daemon fills the form token t of attempt i.
LEMMA FillsSelf ==
  ASSUME SelfSystem, System', NEW p \in Procs, NEW i \in Rings \ {0}, NEW t, Fills(p, i, t), FormTyped(t), t.stage = 1,
         Fillable(form, p, i), form[i].stage = 0 \/ t = form[i], UNCHANGED pack
  PROVE  SelfSystem'
  <1>r. PICK r : r = d[p]
    OBVIOUS
  <1>P. PICK P : P = pack[r.mid]
    OBVIOUS
  <1>res. PICK res : res = Fill_form1(r, i, t)
    OBVIOUS
  <1>v. PICK v : v = res.t
    OBVIOUS
  <1>q. PICK q : q = Forget(res.d)
    OBVIOUS
  <1>u. PICK u : u = IF v.wait = {} THEN [v EXCEPT !.stage = 2, !.wait = ring'[i]] ELSE v
    OBVIOUS
  <1>1. /\ r.State \in {"OP", "LOST"} /\ d' = [d EXCEPT ![p] = q] /\ form' = [form EXCEPT ![i] = u]
    BY <1>r, <1>res, <1>v, <1>q, <1>u DEF Fills
  <1>2. /\ DOMAIN d = Procs /\ pack = [j \in Rings |-> pack[j]] /\ r.me = p /\ Sane(r, P)
    BY <1>r, <1>P, SystemFacts DEF SelfSystem
  <1>3. Forms(d, form) /\ DOMAIN form = Rings
    BY DEF SelfSystem, System, Forms, FormsTyped
  <1>4. /\ Works(r, res.d, P) /\ res.d.State = "FORM" /\ res.d.attempt = i
        /\ FormTyped(v) /\ v.wait = t.wait \ {p} /\ v.stage = 1
    <2>1. i \in Rings /\ Sane(r, P) /\ FormTyped(t) /\ r.State \in {"OP", "LOST"} /\ r.me = p
      BY <1>1, <1>2
    <2>2. /\ Works(r, res.d, P) /\ res.d.State = "FORM" /\ res.d.attempt = i
          /\ FormTyped(res.t) /\ res.t.wait = t.wait \ {r.me} /\ res.t.stage = t.stage
          /\ HolesOf(res.d, res.t) /\ \A y : HolesOf(y, t) => HolesOf(y, res.t)
      BY ONLY <1>res, <2>1, FillFacts
    <2> QED BY ONLY <1>v, <2>1, <2>2, t.stage = 1
  <1>5. q.State = "FORM" /\ q.attempt = i /\ q.mid = r.mid /\ q.me = p
    BY <1>2, <1>4, <1>q, ForgetFacts DEF Works
  <1>6. v.rings = FillRing(r, t.rings)
    <2>1. DOMAIN t = {"wait", "stage", "seq", "rings"}
      BY DEF FormTyped
    <2> QED BY <1>res, <1>v, <2>1 DEF Fill_form1
  <1>7. u.rings = v.rings /\ ((u.stage = 1 /\ u.wait = t.wait \ {p}) \/ u.stage = 2)
    <2>1. CASE v.wait = {}
      <3>1. u = [v EXCEPT !.stage = 2, !.wait = ring'[i]]
        BY <1>u, <2>1
      <3> QED BY <1>4, <3>1 DEF FormTyped
    <2>2. CASE v.wait # {}
      BY <1>4, <1>u, <2>2
    <2> QED BY <2>1, <2>2
  <1>8. \A x \in Procs, j \in Rings : Ahead(d', form', x, j) => Ahead(d, form, x, j)
    <2>1. d'[p] = q /\ (\A x \in Procs : x # p => d'[x] = d[x]) /\ form'[i] = u /\ \A j \in Rings : j # i => form'[j] = form[j]
      BY <1>1, <1>2, <1>3
    <2>2. \A x \in Procs : \A j \in Rings : Fillable(form', x, j) => Fillable(form, x, j)
      BY <1>7, <2>1 DEF Fillable
    <2>3. \A x \in Procs : \A j \in Rings : Joining(d'[x], j) => Joining(d[x], j) \/ (x = p /\ j = i)
      BY <1>5, <2>1 DEF Joining
    <2> QED BY <2>2, <2>3 DEF Ahead
  <1>9. Minds(d[p], q, P, P)
    <2>1. Own(r, P) /\ CurFine(r)
      BY <1>r, <1>P DEF SelfSystem, Faithful
    <2>2. Remarks(r, res.d, P)
      BY <1>1, <1>2, <1>res, OwnFill
    <2>3. Minds(r, res.d, P, P)
      BY <2>1, <2>2, OwnRemarks
    <2> QED BY <1>q, <1>r, <2>3, MindsForget
  <1>10. \A x \in Procs : Faithful(d', pack', form', x)
    <2>1. pack' = [pack EXCEPT ![d[p].mid] = P]
      BY <1>2, <1>P, <1>r
    <2>2. Minds(d[p], q, pack[d[p].mid], P)
      BY <1>9, <1>P, <1>r
    <2> QED BY ONLY SelfSystem, p \in Procs, <1>1, <1>8, <2>1, <2>2, FaithfulStep
  <1>11. Pledged(d', form')
    <2>1. Committed(r, u) /\ \A y : Committed(y, t) /\ (\E g \in t.rings : g.mid = y.mid) => Committed(y, u)
      <3>1. u.rings = FillRing(r, t.rings)
        BY <1>6, <1>7
      <3> QED BY ONLY <3>1, FillCommits
    <2>2. Committed(q, u)
      BY <1>2, <1>5, <2>1 DEF Committed
    <2>3. ASSUME NEW x \in Procs, x # p, d[x].State = "FORM", d[x].attempt = i PROVE Committed(d[x], u)
      <3>1. Passing(form, d[x], x) /\ Waiting(form, d[x])
        BY <1>3 DEF Forms
      <3>2. ~Fillable(form, x, i)
        BY <2>3, <3>1 DEF Passing, Joining
      <3>3. t = form[i]
        BY <3>2 DEF Fillable
      <3>4. \E g \in t.rings : g.mid = d[x].mid
        BY <2>3, <3>1, <3>3 DEF Waiting, HolesOf
      <3>5. Committed(d[x], t)
        BY <2>3, <3>3 DEF SelfSystem, Pledged
      <3> QED BY <2>1, <3>4, <3>5
    <2> SUFFICES ASSUME NEW x \in Procs, d'[x].State = "FORM", form'[d'[x].attempt].stage \in {1, 2}
                 PROVE  Committed(d'[x], form'[d'[x].attempt])
      BY DEF Pledged
    <2>4. CASE x = p
      <3>1. d'[x] = q /\ form'[i] = u
        BY <1>1, <1>2, <1>3, <2>4
      <3> QED BY <1>5, <2>2, <3>1
    <2>5. CASE x # p
      <3>1. d'[x] = d[x] /\ form'[i] = u
        BY <1>1, <1>2, <1>3, <2>5
      <3>2. CASE d[x].attempt = i
        BY <2>3, <2>5, <3>1, <3>2
      <3>3. CASE d[x].attempt # i
        <4>1. d[x].attempt \in Rings
          BY SystemFacts DEF SelfSystem
        <4>2. form'[d[x].attempt] = form[d[x].attempt]
          BY <1>1, <1>3, <3>3, <4>1
        <4> QED BY <3>1, <4>2 DEF SelfSystem, Pledged
      <3> QED BY <3>2, <3>3
    <2> QED BY <2>4, <2>5
  <1> QED BY <1>10, <1>11 DEF SelfSystem

\* Creating a form token keeps the invariant.
LEMMA CreateFormSelf ==
  ASSUME SelfSystem, NEW p \in Procs, Create_form1(p)
  PROVE  SelfSystem'
  <1>1. PICK i \in Rings \ {0}, S \in SUBSET (ring[0] \ {p}) :
          /\ form[i] = NoForm /\ Fills(p, i, [NoForm EXCEPT !.stage = 1, !.wait = S \cup {p}])
          /\ UNCHANGED <<pack, sent>>
    BY DEF Create_form1
  <1>t. PICK t : t = [NoForm EXCEPT !.stage = 1, !.wait = S \cup {p}]
    OBVIOUS
  <1>2. DOMAIN t = {"wait", "stage", "seq", "rings"} /\ t.stage = 1 /\ t.seq = 0 /\ t.rings = {}
    BY <1>t DEF NoForm
  <1>3. FormTyped(t)
    BY <1>2 DEF FormTyped, RingTyped
  <1>4. form[i].stage = 0 /\ Fillable(form, p, i)
    BY <1>1 DEF NoForm, Fillable
  <1>5. Fills(p, i, t)
    BY <1>1, <1>t
  <1>6. System'
    BY CreateFormKeeps DEF SelfSystem
  <1> QED BY ONLY <1>1, <1>2, <1>3, <1>4, <1>5, <1>6, SelfSystem, p \in Procs, FillsSelf

\* Writing the holes of a daemon into the form token keeps the invariant.
LEMMA RecvForm1Self ==
  ASSUME SelfSystem, NEW p \in Procs, Recv_form1(p)
  PROVE  SelfSystem'
  <1>1. PICK i \in Rings \ {0} :
          /\ form[i].stage = 1 /\ IsNext(p, form[i]) /\ UNCHANGED <<ring, pack, sent, left>> /\ Fills(p, i, form[i])
    BY DEF Recv_form1
  <1>t. PICK t : t = form[i]
    OBVIOUS
  <1>2. System /\ System'
    BY RecvForm1Keeps DEF SelfSystem
  <1>3. FormTyped(t) /\ t.stage = 1 /\ p \in t.wait
    BY <1>1, <1>2, <1>t DEF IsNext, System, Forms, FormsTyped
  <1>4. Fillable(form, p, i)
    BY <1>1, <1>3, <1>t DEF Fillable
  <1>5. Fills(p, i, t) /\ UNCHANGED pack
    BY <1>1, <1>t
  <1> QED BY ONLY <1>2, <1>3, <1>4, <1>5, <1>t, i \in Rings \ {0}, SelfSystem, p \in Procs, FillsSelf

\* Reading the form token in its second round keeps the invariant.
LEMMA RecvForm2Self ==
  ASSUME SelfSystem, NEW p \in Procs, Recv_form2(p)
  PROVE  SelfSystem'
  <1>1. PICK i \in Rings \ {0} :
          /\ form[i].stage = 2 /\ d[p].State = "FORM" /\ d[p].attempt = i
          /\ d' = [d EXCEPT ![p] = Read_form2(d[p], pack[d[p].mid], i, form[i])]
          /\ form' = [form EXCEPT ![i] = IF @.wait = {p} THEN [NoForm EXCEPT !.stage = 3]
                                          ELSE [@ EXCEPT !.wait = form[i].wait \ {p}]]
          /\ UNCHANGED <<ring, pack, net, left>>
    BY DEF Recv_form2
  <1>t. PICK t : t = form[i]
    OBVIOUS
  <1>r. PICK r : r = d[p]
    OBVIOUS
  <1>P. PICK P : P = pack[r.mid]
    OBVIOUS
  <1>q. PICK q : q = Read_form2(r, P, i, t)
    OBVIOUS
  <1>u. PICK u : u = IF t.wait = {p} THEN [NoForm EXCEPT !.stage = 3] ELSE [t EXCEPT !.wait = t.wait \ {p}]
    OBVIOUS
  <1>2. System /\ System'
    BY RecvForm2Keeps DEF SelfSystem
  <1>3. /\ DOMAIN d = Procs /\ pack = [j \in Rings |-> pack[j]] /\ r.me = p /\ Sane(r, P) /\ PackOK(P)
        /\ Forms(d, form) /\ DOMAIN form = Rings /\ FormTyped(t)
    BY <1>2, <1>r, <1>P, <1>t, SystemFacts DEF System, Forms, FormsTyped
  <1>4. d' = [d EXCEPT ![p] = q] /\ form' = [form EXCEPT ![i] = u] /\ r.State = "FORM" /\ r.attempt = i /\ t.stage = 2
    <2>1. form' = [form EXCEPT ![i] = u]
      <3>1. CASE t.wait = {p}
        BY <1>1, <1>t, <1>u, <3>1
      <3>2. CASE t.wait # {p}
        BY <1>1, <1>t, <1>u, <3>2
      <3> QED BY <3>1, <3>2
    <2>2. d' = [d EXCEPT ![p] = q]
      BY <1>1, <1>t, <1>r, <1>P, <1>q
    <2> QED BY <1>1, <1>t, <1>r, <2>1, <2>2
  <1>5. HolesOf(r, t) /\ Committed(r, t) /\ p \in ring[i]
    <2>1. HolesOf(r, t)
      BY <1>3, <1>4, <1>r, <1>t DEF Forms, Waiting
    <2>2. Committed(r, t)
      BY <1>4, <1>r, <1>t DEF SelfSystem, Pledged
    <2>3. p \in ring[i]
      BY <1>2, <1>4, <1>r DEF System, Members
    <2> QED BY <2>1, <2>2, <2>3
  <1>6. q.State = "EXIT" \/ (q.State = "EVS" /\ q.future = i)
    BY <1>3, <1>4, <1>5, <1>q, ReadFacts
  <1>7. u.stage = 3 \/ (u.stage = 2 /\ u.rings = t.rings)
    <2>1. CASE t.wait = {p}
      BY <1>u, <2>1 DEF NoForm
    <2>2. CASE t.wait # {p}
      <3>1. u = [t EXCEPT !.wait = t.wait \ {p}]
        BY <1>u, <2>2
      <3> QED BY <1>3, <1>4, <3>1 DEF FormTyped
    <2> QED BY <2>1, <2>2
  <1>8. d'[p] = q /\ (\A x \in Procs : x # p => d'[x] = d[x]) /\ form'[i] = u /\ \A j \in Rings : j # i => form'[j] = form[j]
    BY <1>3, <1>4
  <1>9. \A x \in Procs, j \in Rings : Ahead(d', form', x, j) => Ahead(d, form, x, j)
    <2>1. \A x \in Procs : \A j \in Rings : Fillable(form', x, j) => Fillable(form, x, j)
      BY <1>7, <1>8 DEF Fillable
    <2>2. \A x \in Procs : \A j \in Rings : Joining(d'[x], j) => Joining(d[x], j)
      BY <1>4, <1>6, <1>8, <1>r DEF Joining
    <2> QED BY <2>1, <2>2 DEF Ahead
  <1>10. Minds(r, q, P, P)
    <2>1. Own(r, P) /\ CurFine(r)
      BY <1>r, <1>P DEF SelfSystem, Faithful
    <2>2. r.me \in ring[i]
      BY <1>3, <1>5
    <2> QED BY ONLY <1>3, <1>4, <1>5, <1>q, <2>1, <2>2, OwnRead
  <1>11. \A x \in Procs : Faithful(d', pack', form', x)
    <2>1. pack' = [pack EXCEPT ![d[p].mid] = P]
      BY <1>1, <1>3, <1>P, <1>r
    <2>2. Minds(d[p], q, pack[d[p].mid], P)
      BY <1>10, <1>P, <1>r
    <2> QED BY ONLY SelfSystem, p \in Procs, <1>4, <1>9, <2>1, <2>2, FaithfulStep
  <1>12. Pledged(d', form')
    <2> SUFFICES ASSUME NEW x \in Procs, d'[x].State = "FORM", form'[d'[x].attempt].stage \in {1, 2}
                 PROVE  Committed(d'[x], form'[d'[x].attempt])
      BY DEF Pledged
    <2>1. x # p /\ d'[x] = d[x] /\ d[x].attempt \in Rings
      BY <1>2, <1>6, <1>8, SystemFacts
    <2>2. /\ form'[d[x].attempt].rings = form[d[x].attempt].rings
          /\ form[d[x].attempt].stage \in {1, 2}
      BY <1>4, <1>7, <1>8, <1>t, <2>1
    <2>3. Committed(d[x], form[d[x].attempt])
      BY <2>1, <2>2 DEF SelfSystem, Pledged
    <2> QED BY <2>1, <2>2, <2>3 DEF Committed
  <1> QED BY <1>2, <1>11, <1>12 DEF SelfSystem

\* The initial states satisfy the invariant.
LEMMA InitSelf ==
  ASSUME Init
  PROVE  SelfSystem
  <1>1. System
    BY InitSystem
  <1>2. PICK s \in Starts :
          /\ d = [p \in Procs |-> IF p \in s.ring THEN Prot_init(p, s.load[p])
                                 ELSE [Prot_init(p, <<>>) EXCEPT !.State = "DOWN"]]
          /\ pack = [i \in Rings |-> <<>>]
    BY DEF Init
  <1>3. ASSUME NEW p \in Procs
        PROVE  /\ DOMAIN d[p] = Fields /\ d[p].me = p /\ d[p].State \in {"OP", "DOWN"} /\ d[p].cur = 0
               /\ d[p].Packets = <<>> /\ d[p].log = <<>> /\ d[p].Commit_set.commit = {p}
    <2> PICK load : load = IF p \in s.ring THEN s.load[p] ELSE <<>>
      OBVIOUS
    <2> PICK o : o = Prot_init(p, load)
      OBVIOUS
    <2>1. /\ DOMAIN o = Fields /\ o.me = p /\ o.State = "OP" /\ o.cur = 0 /\ o.Packets = <<>> /\ o.log = <<>>
      BY StartRecord
    <2>2. o.Commit_set = [trans |-> {p}, commit |-> {p}]
      BY DEF Prot_init
    <2>3. d[p] = o \/ d[p] = [o EXCEPT !.State = "DOWN"]
      BY <1>2
    <2>4. Differ(d[p], o, {"State"}) /\ d[p].State \in {"OP", "DOWN"}
      BY <2>1, <2>3 DEF Differ, Fields
    <2> QED BY ONLY <2>1, <2>2, <2>4 DEF Differ, Fields
  <1>4. \A i \in Rings : pack[i] = <<>> /\ DOMAIN pack[i] = {}
    BY <1>2
  <1>5. ASSUME NEW p \in Procs PROVE Faithful(d, pack, form, p)
    <2>1. d[p].mid \in Rings /\ IsSeq(d[p].log)
      BY <1>1, SystemFacts
    <2>2. \A x : Exist(d[p], x) = 0
      <3>1. DOMAIN <<>> = {}
        OBVIOUS
      <3> QED BY <1>3, <3>1 DEF Exist
    <2>3. Here(d[p], pack[d[p].mid]) /\ Kept(d[p], pack[d[p].mid])
      BY <1>4, <2>1, <2>2 DEF Here, Kept
    <2>4. Own(d[p], pack[d[p].mid])
      BY <1>3, <2>1, <2>3 DEF Own
    <2>5. CurFine(d[p]) /\ Started(pack, d[p].Down, p) /\ \A i \in Rings : Heard(d[p].log, pack[i], p)
      BY <1>3, <1>4 DEF CurFine, Started, Heard
    <2> QED BY <1>4, <2>4, <2>5 DEF Faithful
  <1>6. Pledged(d, form)
    BY <1>3 DEF Pledged
  <1> QED BY <1>1, <1>5, <1>6 DEF SelfSystem

\* Every step keeps the invariant.
LEMMA NextSelf ==
  ASSUME SelfSystem, [Next]_vars
  PROVE  SelfSystem'
  <1>1. CASE UNCHANGED vars
    BY <1>1 DEF vars, SelfSystem, System, Faithful, Pledged
  <1>2. ASSUME NEW p \in Procs, Recv_token(p) PROVE SelfSystem'
    BY <1>2, RecvTokenSelf
  <1>3. ASSUME NEW p \in Procs, Recv_packet(p) PROVE SelfSystem'
    BY <1>3, RecvPacketSelf
  <1>4. ASSUME NEW p \in Procs, Groups_ready(p) PROVE SelfSystem'
    BY <1>4, GroupsReadySelf
  <1>5. ASSUME NEW p \in Procs, Lose_token(p) PROVE SelfSystem'
    BY <1>5, LoseTokenSelf
  <1>6. ASSUME NEW p \in Procs, Create_form1(p) PROVE SelfSystem'
    BY <1>6, CreateFormSelf
  <1>7. ASSUME NEW p \in Procs, Recv_form1(p) PROVE SelfSystem'
    BY <1>7, RecvForm1Self
  <1>8. ASSUME NEW p \in Procs, Recv_form2(p) PROVE SelfSystem'
    BY <1>8, RecvForm2Self
  <1> QED BY <1>1, <1>2, <1>3, <1>4, <1>5, <1>6, <1>7, <1>8 DEF Next

\* Messages completed in a membership that was left were told; those sent in
\* part wait, or were completed.
LEMMA FaithfulTells ==
  ASSUME SelfSystem
  PROVE  SelfDelivery
  <1> SUFFICES ASSUME NEW p \in Procs, NEW i \in Rings, NEW s \in DOMAIN pack[i],
                      pack[i][s].from = p, d[p].mid # i
               PROVE  \/ pack[i][s].msg \in Delivered(p)
                      \/ pack[i][s].msg \in ToSet(d[p].Down)
                      \/ \E h \in Rings \ {i} : \E x \in DOMAIN pack[h] : pack[h][x].msg = pack[i][s].msg
    BY DEF SelfDelivery
  <1> PICK k, m : k = pack[i][s] /\ m = k.msg
    OBVIOUS
  <1>1. Heard(d[p].log, pack[i], p) /\ Started(pack, d[p].Down, p)
    BY DEF SelfSystem, Faithful
  <1>2. Told(d[p].log) = Delivered(p) /\ Elements(d[p].Down) = ToSet(d[p].Down)
    BY DEF Told, Delivered, Elements, ToSet
  <1>3. k.index \in Int
    <2>1. PackOK(pack[i])
      BY SystemFacts DEF SelfSystem
    <2>2. pack[i][s] \in PacketSet
      BY <2>1 DEF PackOK
    <2>3. \A x \in PacketSet : x.index \in Int
      BY DEF PacketSet
    <2> QED BY <2>2, <2>3
  <1>4. CASE k.index < 0
    BY <1>1, <1>2, <1>4 DEF Heard
  <1>5. CASE k.index >= 0
    <2>1. m \in Elements(d[p].Down) \/ \E h \in Rings : Whole(pack[h], p, m)
      BY <1>1, <1>5 DEF Started
    <2>2. ASSUME NEW h \in Rings, Whole(pack[h], p, m)
          PROVE  m \in Told(d[p].log) \/ (h # i /\ \E x \in DOMAIN pack[h] : pack[h][x].msg = m)
      <3>1. PICK x \in DOMAIN pack[h] : pack[h][x].from = p /\ pack[h][x].msg = m /\ pack[h][x].index < 0
        BY <2>2 DEF Whole
      <3> QED BY <1>1, <3>1 DEF Heard
    <2> QED BY <1>2, <2>1, <2>2
  <1> QED BY <1>3, <1>4, <1>5

\* A daemon delivers each of its own messages at the latest when it installs the
\* next membership (Discard_packets of protocol.c), across token losses, holes
\* and merges; a message that was sent in part still waits to be sent, or was sent
\* again in another membership.
THEOREM SelfDeliveryHolds == Spec => []SelfDelivery
  <1>1. Init => SelfSystem
    BY InitSelf
  <1>2. SelfSystem /\ [Next]_vars => SelfSystem'
    BY NextSelf
  <1>3. SelfSystem => SelfDelivery
    BY FaithfulTells
  <1> QED BY <1>1, <1>2, <1>3, PTL DEF Spec
=============================================================================
