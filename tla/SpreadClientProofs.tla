------------------------- MODULE SpreadClientProofs -------------------------
(***************************************************************************)
(* Why no two threads send, and no two receive, on one slot of the table   *)
(* of sessions at the same time, why every way out of a call gives the     *)
(* mutex back, and why the sessions are counted exactly, for any number of *)
(* threads, descriptors, slots and calls.                                  *)
(***************************************************************************)
EXTENDS SpreadClient, WellFoundedInduction, FiniteSetTheorems, TLAPS

\* What a process has: a table, descriptors that are numbers, threads with ids,
\* and at the start no more connections than sessions.
ProcessAssumption ==
  /\ MAX_LIB_SESSIONS \in Nat \ {0}
  /\ Fds \subseteq Nat
  /\ None \notin Threads
  /\ \A p \in Profiles : p.open \in 0 .. MAX_LIB_SESSIONS

-----------------------------------------------------------------------------
(* The search in the table. *)

LEMMA MinInside ==
  ASSUME NEW S, S \subseteq Nat, S # {}
  PROVE  Min(S) \in S
  <1>1. \E m \in S : \A n \in S : m <= n
    <2>1. PICK m \in S : \A n \in S : ~(<<n, m>> \in OpToRel(<, Nat))
      BY WFMin, NatLessThanWellFounded
    <2>2. \A n \in S : ~(n < m)
      BY <2>1 DEF OpToRel
    <2> QED BY <2>2
  <1> QED BY <1>1 DEF Min

\* MBOX_TO_BASE_SES and the probes after it stay inside the table.
LEMMA ProbeInside ==
  ASSUME ProcessAssumption, NEW mbox \in Nat
  PROVE  /\ Len(Probe(mbox)) = MAX_LIB_SESSIONS
         /\ \A i \in 1 .. MAX_LIB_SESSIONS : Probe(mbox)[i] \in Slots
  <1> DEFINE n == MAX_LIB_SESSIONS
  <1>1. n \in Nat /\ n > 0
    BY DEF ProcessAssumption
  <1>2. mbox % n \in 0 .. n - 1
    BY <1>1
  <1>3. ASSUME NEW i \in 1 .. n PROVE ((mbox % n) + i - 1) % n \in 0 .. n - 1
    BY <1>1, <1>2
  <1>4. Len(Probe(mbox)) = n
    BY <1>1 DEF Probe
  <1> QED BY <1>3, <1>4 DEF Probe, Slots, MBOX_TO_BASE_SES

LEMMA FoundByMailbox ==
  ASSUME ProcessAssumption, NEW mbox \in Nat, SP_get_session(mbox) # None
  PROVE  /\ SP_get_session(mbox) \in Slots
         /\ Sessions[SP_get_session(mbox)].mbox = mbox
  <1> DEFINE I == {i \in 1 .. Len(Probe(mbox)) : Sessions[Probe(mbox)[i]].mbox = mbox}
             first == IF I # {} THEN Min(I) ELSE 0
  <1>1. SP_get_session(mbox) = IF first = 0 THEN None ELSE Probe(mbox)[first]
    BY DEF SP_get_session, FirstSlot, SelectInSeq
  <1>2. MAX_LIB_SESSIONS \in Nat /\ I \subseteq Nat
    BY ProbeInside DEF ProcessAssumption
  <1>3. first # 0 => first \in I
    <2> HIDE DEF I
    <2> QED BY <1>2, MinInside
  <1>4. SP_get_session(mbox) = Probe(mbox)[first] /\ first \in I
    <2> HIDE DEF first, I
    <2> QED BY <1>1, <1>3
  <1> HIDE DEF first
  <1> QED BY <1>4, ProbeInside

UnusedSlot(fd) == FirstSlot(fd, LAMBDA x : Sessions[x].state = "UNUSED")

LEMMA FoundUnused ==
  ASSUME ProcessAssumption, NEW fd \in Nat, UnusedSlot(fd) # None
  PROVE  UnusedSlot(fd) \in Slots /\ Sessions[UnusedSlot(fd)].state = "UNUSED"
  <1> DEFINE I == {i \in 1 .. Len(Probe(fd)) : Sessions[Probe(fd)[i]].state = "UNUSED"}
             first == IF I # {} THEN Min(I) ELSE 0
  <1>1. UnusedSlot(fd) = IF first = 0 THEN None ELSE Probe(fd)[first]
    BY DEF UnusedSlot, FirstSlot, SelectInSeq
  <1>2. MAX_LIB_SESSIONS \in Nat /\ I \subseteq Nat
    BY ProbeInside DEF ProcessAssumption
  <1>3. first # 0 => first \in I
    <2> HIDE DEF I
    <2> QED BY <1>2, MinInside
  <1>4. UnusedSlot(fd) = Probe(fd)[first] /\ first \in I
    <2> HIDE DEF first, I
    <2> QED BY <1>1, <1>3
  <1> HIDE DEF first
  <1> QED BY <1>4, ProbeInside

-----------------------------------------------------------------------------
(***************************************************************************)
(* The invariant.  A thread that waits for or holds a mutex of a slot is   *)
(* the one the slot names as long as the thread is inside, so a second     *)
(* thread finds the slot taken.                                            *)
(***************************************************************************)
Shapes ==
  /\ DOMAIN Sessions = Slots
  /\ \A i \in Slots : DOMAIN Sessions[i] = {"mbox", "state", "saved", "recv", "send"}
  /\ \A i \in Slots : {Sessions[i].recv, Sessions[i].send} \subseteq Threads \cup {None}
  /\ DOMAIN th = Threads
  /\ \A t \in Threads :
       DOMAIN th[t] = {"pc", "fd", "ses", "conn", "call", "m", "saved", "left", "got"}

\* Descriptors are numbers wherever one is kept.
Connection == {"fd", "sends", "in", "out", "alive", "returned", "asked"}
Descriptors ==
  /\ \E S : conns \in Seq(S)
  /\ \A k \in DOMAIN conns : DOMAIN conns[k] = Connection /\ conns[k].fd \in Nat \cup {None}
  /\ \A t \in Threads : th[t].pc # "idle" => th[t].fd \in Nat

Locking == {"send_lock", "sending", "recv_lock", "header", "body"}
Held ==
  \A t \in Threads :
    /\ th[t].pc \in Locking => th[t].ses \in Slots
    /\ th[t].pc = "sending" => Sessions[th[t].ses].send = t
    /\ th[t].pc \in {"header", "body"} => Sessions[th[t].ses].recv = t

ClientInv == Shapes /\ Descriptors /\ Held /\ MutexesReleased /\ SessionsCounted

ThreadShape(r) ==
  DOMAIN r = {"pc", "fd", "ses", "conn", "call", "m", "saved", "left", "got"}

\* A thread changes the mutexes of no slot but its own: it takes one that is
\* free, or gives back its own.
LEMMA LocksStep ==
  ASSUME ProcessAssumption, ClientInv, Shapes', NEW t \in Threads, NEW r, th' = [th EXCEPT ![t] = r],
         r.pc \in Locking => r.ses \in Slots,
         \A i \in Slots : Sessions'[i].send = Sessions[i].send
                          \/ (Sessions[i].send \in {None, t} /\ Sessions'[i].send \in {None, t}),
         \A i \in Slots : Sessions'[i].recv = Sessions[i].recv
                          \/ (Sessions[i].recv \in {None, t} /\ Sessions'[i].recv \in {None, t}),
         \A i \in Slots : Sessions'[i].send = t <=> r.pc = "sending" /\ r.ses = i,
         \A i \in Slots : Sessions'[i].recv = t <=> r.pc \in {"header", "body"} /\ r.ses = i
  PROVE  Held' /\ MutexesReleased'
  <1> USE DEF ClientInv
  <1>1. th'[t] = r /\ \A u \in Threads \ {t} : th'[u] = th[u]
    BY DEF Shapes
  <1>2. t # None
    BY DEF ProcessAssumption
  <1>3. ASSUME NEW u \in Threads
        PROVE  /\ th'[u].pc \in Locking => th'[u].ses \in Slots
               /\ th'[u].pc = "sending" => Sessions'[th'[u].ses].send = u
               /\ th'[u].pc \in {"header", "body"} => Sessions'[th'[u].ses].recv = u
    <2>1. CASE u = t
      BY <1>1, <2>1 DEF Locking
    <2>2. CASE u # t
      <3>1. th'[u] = th[u] /\ u # None
        BY <1>1, <2>2 DEF ProcessAssumption
      <3>2. th[u].pc \in Locking => th[u].ses \in Slots
        BY DEF Held
      <3>3. ASSUME th[u].pc = "sending" PROVE Sessions'[th[u].ses].send = u
        <4>1. th[u].ses \in Slots /\ Sessions[th[u].ses].send = u
          BY <3>3 DEF Held, Locking
        <4> QED BY <4>1, <2>2, <3>1
      <3>4. ASSUME th[u].pc \in {"header", "body"} PROVE Sessions'[th[u].ses].recv = u
        <4>1. th[u].ses \in Slots /\ Sessions[th[u].ses].recv = u
          BY <3>4 DEF Held, Locking
        <4> QED BY <4>1, <2>2, <3>1
      <3> QED BY ONLY <3>1, <3>2, <3>3, <3>4
    <2> QED BY <2>1, <2>2
  <1>4. ASSUME NEW i \in Slots, Sessions'[i].recv # None
        PROVE  th'[Sessions'[i].recv].pc \in {"header", "body"} /\ th'[Sessions'[i].recv].ses = i
    <2>1. CASE Sessions'[i].recv = t
      BY <2>1, <1>1
    <2>2. CASE Sessions'[i].recv # t
      <3>1. Sessions'[i].recv = Sessions[i].recv /\ Sessions[i].recv \in Threads
        BY <2>2, <1>4 DEF Shapes
      <3> QED BY <3>1, <2>2, <1>4, <1>1 DEF MutexesReleased
    <2> QED BY <2>1, <2>2
  <1>5. ASSUME NEW i \in Slots, Sessions'[i].send # None
        PROVE  th'[Sessions'[i].send].pc = "sending" /\ th'[Sessions'[i].send].ses = i
    <2>1. CASE Sessions'[i].send = t
      BY <2>1, <1>1
    <2>2. CASE Sessions'[i].send # t
      <3>1. Sessions'[i].send = Sessions[i].send /\ Sessions[i].send \in Threads
        BY <2>2, <1>5 DEF Shapes
      <3> QED BY <3>1, <2>2, <1>5, <1>1 DEF MutexesReleased
    <2> QED BY <2>1, <2>2
  <1> QED BY <1>3, <1>4, <1>5 DEF Held, MutexesReleased

\* Outside of the locked parts a thread is named by no mutex.
LEMMA NotNamed ==
  ASSUME ClientInv, ProcessAssumption, NEW t \in Threads
  PROVE  /\ th[t].pc \notin {"header", "body"} => \A i \in Slots : Sessions[i].recv # t
         /\ th[t].pc # "sending" => \A i \in Slots : Sessions[i].send # t
         /\ \A i \in Slots : Sessions[i].recv = t \/ Sessions[i].send = t => i = th[t].ses
  BY DEF ClientInv, MutexesReleased, ProcessAssumption

\* The table keeps its mutexes and the thread stays out of the locked parts.
LEMMA UnlockedStep ==
  ASSUME ProcessAssumption, ClientInv, Shapes', NEW t \in Threads, NEW r, th' = [th EXCEPT ![t] = r],
         \A i \in Slots : Sessions'[i].send = Sessions[i].send /\ Sessions'[i].recv = Sessions[i].recv,
         th[t].pc \notin {"sending", "header", "body"},
         r.pc \notin {"sending", "header", "body"},
         r.pc \in Locking => r.ses \in Slots
  PROVE  Held' /\ MutexesReleased'
  <1>1. \A i \in Slots : Sessions[i].send # t /\ Sessions[i].recv # t
    BY NotNamed
  <1>2. \A i \in Slots : Sessions'[i].send # t /\ Sessions'[i].recv # t
    BY <1>1
  <1> QED BY <1>2, LocksStep

LEMMA ShapesStep ==
  ASSUME ClientInv, NEW t \in Threads, NEW r, ThreadShape(r), th' = [th EXCEPT ![t] = r],
         DOMAIN Sessions' = Slots,
         \A i \in Slots : /\ DOMAIN Sessions'[i] = {"mbox", "state", "saved", "recv", "send"}
                          /\ Sessions'[i].send \in {Sessions[i].send, None, t}
                          /\ Sessions'[i].recv \in {Sessions[i].recv, None, t}
  PROVE  Shapes'
  BY DEF ClientInv, Shapes, ThreadShape

LEMMA DescriptorsStep ==
  ASSUME ClientInv, NEW t \in Threads, NEW r, th' = [th EXCEPT ![t] = r],
         r.pc # "idle" => r.fd \in Nat,
         \E S : conns' \in Seq(S),
         \A k \in DOMAIN conns' : DOMAIN conns'[k] = Connection /\ conns'[k].fd \in Nat \cup {None}
  PROVE  Descriptors'
  <1>1. th'[t] = r /\ \A u \in Threads \ {t} : th'[u] = th[u]
    BY DEF ClientInv, Shapes
  <1>2. \A u \in Threads : th'[u].pc # "idle" => th'[u].fd \in Nat
    BY <1>1 DEF ClientInv, Descriptors
  <1> QED BY <1>2 DEF Descriptors

\* The thread goes on and touches neither a session nor a connection.
LEMMA QuietStep ==
  ASSUME ProcessAssumption, ClientInv, NEW t \in Threads, NEW r,
         UNCHANGED <<Sessions, Num_sessions, conns>>, th' = [th EXCEPT ![t] = r],
         ThreadShape(r), r.pc # "idle" => r.fd \in Nat,
         th[t].pc \notin {"sending", "header", "body"},
         r.pc \notin {"sending", "header", "body"},
         r.pc \in Locking => r.ses \in Slots
  PROVE  ClientInv'
  <1>1. Shapes'
    BY ShapesStep DEF ClientInv, Shapes
  <1>2. Held' /\ MutexesReleased'
    BY <1>1, UnlockedStep
  <1>3. Descriptors'
    BY DescriptorsStep DEF ClientInv, Descriptors
  <1>4. SessionsCounted'
    BY DEF ClientInv, SessionsCounted, Used
  <1> QED BY <1>1, <1>2, <1>3, <1>4 DEF ClientInv

-----------------------------------------------------------------------------
(* Calls that only look at the table. *)

Returned(t) == [Idle EXCEPT !.call = Tail(th[t].call)]

LEMMA ReturnedIdle ==
  ASSUME NEW t PROVE ThreadShape(Returned(t)) /\ Returned(t).pc = "idle"
  BY DEF Returned, ThreadShape, Idle

LEMMA SomeFd ==
  ASSUME ProcessAssumption, FreeFds # {} PROVE Min(FreeFds) \in FreeFds /\ Min(FreeFds) \in Nat
  <1>1. FreeFds \subseteq Nat
    BY DEF FreeFds, ProcessAssumption
  <1> QED BY <1>1, MinInside

LEMMA SP_connectKeeps ==
  ASSUME ProcessAssumption, ClientInv, NEW t \in Threads, SP_connect(t) PROVE ClientInv'
  <1> DEFINE r == [th[t] EXCEPT !.pc = "dial", !.fd = Min(FreeFds)]
  <1>1. r.pc = "dial" /\ r.fd \in Nat /\ ThreadShape(r)
    BY SomeFd DEF SP_connect, ThreadShape, ClientInv, Shapes
  <1>2. th' = [th EXCEPT ![t] = r] /\ UNCHANGED <<Sessions, Num_sessions, conns>>
        /\ th[t].pc = "idle"
    BY DEF SP_connect, Become, Calls
  <1> HIDE DEF r
  <1> QED BY <1>1, <1>2, QuietStep DEF Locking

LEMMA ConnectKeeps ==
  ASSUME ProcessAssumption, ClientInv, NEW t \in Threads, connect_nointr_timeout(t) PROVE ClientInv'
  <1> DEFINE r == [th[t] EXCEPT !.pc = "hello"]
             q == [th[t] EXCEPT !.pc = "close"]
  <1>1. r.pc = "hello" /\ r.fd = th[t].fd /\ ThreadShape(r)
        /\ q.pc = "close" /\ q.fd = th[t].fd /\ ThreadShape(q)
    BY DEF ThreadShape, ClientInv, Shapes
  <1>2. /\ th[t].pc = "dial" /\ th[t].fd \in Nat /\ UNCHANGED <<Sessions, Num_sessions, conns>>
        /\ \/ th' = [th EXCEPT ![t] = r]
           \/ th' = [th EXCEPT ![t] = q]
           \/ th' = [th EXCEPT ![t] = Returned(t)]
    BY DEF connect_nointr_timeout, Become, Return, Returned, ClientInv, Descriptors
  <1> HIDE DEF r, q
  <1>3. CASE th' = [th EXCEPT ![t] = r]
    BY <1>1, <1>2, <1>3, QuietStep DEF Locking
  <1>4. CASE th' = [th EXCEPT ![t] = q]
    BY <1>1, <1>2, <1>4, QuietStep DEF Locking
  <1>5. CASE th' = [th EXCEPT ![t] = Returned(t)]
    BY <1>2, <1>5, ReturnedIdle, QuietStep DEF Locking
  <1> QED BY <1>2, <1>3, <1>4, <1>5

LEMMA MailboxNumber ==
  ASSUME ClientInv, NEW t \in Threads, Mailbox(t) # None PROVE Mailbox(t) \in Nat
  BY DEF Mailbox, ClientInv, Descriptors

LEMMA MulticastKeeps ==
  ASSUME ProcessAssumption, ClientInv, NEW t \in Threads, SP_internal_multicast(t) PROVE ClientInv'
  <1> DEFINE mbox == Mailbox(t)
             ses == SP_get_session(mbox)
             r == [th[t] EXCEPT !.pc = "kill", !.fd = mbox]
             q == [th[t] EXCEPT !.pc = "send_lock", !.fd = mbox, !.ses = ses, !.conn = ConnOf(mbox),
                                !.m = MessageOf(t), !.left = Units(MessageOf(t))]
  <1>1. r.pc = "kill" /\ r.fd = mbox /\ ThreadShape(r)
        /\ q.pc = "send_lock" /\ q.fd = mbox /\ q.ses = ses /\ ThreadShape(q)
    BY DEF ThreadShape, ClientInv, Shapes
  <1>2. /\ th[t].pc = "idle" /\ UNCHANGED <<Sessions, Num_sessions, conns>>
        /\ \/ mbox # None /\ ses # None /\ (th' = [th EXCEPT ![t] = r] \/ th' = [th EXCEPT ![t] = q])
           \/ th' = [th EXCEPT ![t] = Returned(t)]
    BY DEF SP_internal_multicast, Become, Return, Returned, Calls
  <1>3. mbox # None /\ ses # None => mbox \in Nat /\ ses \in Slots
    BY MailboxNumber, FoundByMailbox
  <1> HIDE DEF r, q, mbox, ses
  <1>4. CASE mbox # None /\ ses # None /\ th' = [th EXCEPT ![t] = r]
    BY <1>1, <1>2, <1>3, <1>4, QuietStep DEF Locking
  <1>5. CASE mbox # None /\ ses # None /\ th' = [th EXCEPT ![t] = q]
    BY <1>1, <1>2, <1>3, <1>5, QuietStep DEF Locking
  <1>6. CASE th' = [th EXCEPT ![t] = Returned(t)]
    BY <1>2, <1>6, ReturnedIdle, QuietStep DEF Locking
  <1> QED BY <1>2, <1>4, <1>5, <1>6

LEMMA ReceiveKeeps ==
  ASSUME ProcessAssumption, ClientInv, NEW t \in Threads, SP_scat_receive(t) PROVE ClientInv'
  <1> DEFINE mbox == Mailbox(t)
             ses == SP_get_session(mbox)
             q == [th[t] EXCEPT !.pc = "recv_lock", !.fd = mbox, !.ses = ses, !.conn = ConnOf(mbox),
                                !.m = Sessions[ses].saved]
  <1>1. q.pc = "recv_lock" /\ q.fd = mbox /\ q.ses = ses /\ ThreadShape(q)
    BY DEF ThreadShape, ClientInv, Shapes
  <1>2. /\ th[t].pc = "idle" /\ UNCHANGED <<Sessions, Num_sessions, conns>>
        /\ \/ mbox # None /\ ses # None /\ th' = [th EXCEPT ![t] = q]
           \/ th' = [th EXCEPT ![t] = Returned(t)]
    BY DEF SP_scat_receive, Become, Return, Returned, Calls
  <1>3. mbox # None /\ ses # None => mbox \in Nat /\ ses \in Slots
    BY MailboxNumber, FoundByMailbox
  <1> HIDE DEF q, mbox, ses
  <1>4. CASE mbox # None /\ ses # None /\ th' = [th EXCEPT ![t] = q]
    BY <1>1, <1>2, <1>3, <1>4, QuietStep DEF Locking
  <1>5. CASE th' = [th EXCEPT ![t] = Returned(t)]
    BY <1>2, <1>5, ReturnedIdle, QuietStep DEF Locking
  <1> QED BY <1>2, <1>4, <1>5

-----------------------------------------------------------------------------
(* The connections. *)

LEMMA StillSequence ==
  ASSUME NEW s, \E S : s \in Seq(S), NEW f, f = [k \in DOMAIN s |-> f[k]]
  PROVE  \E S : f \in Seq(S)
  <1> DEFINE T == {f[k] : k \in DOMAIN s}
  <1>1. PICK S : s \in Seq(S)
    OBVIOUS
  <1>2. DOMAIN s = 1 .. Len(s) /\ Len(s) \in Nat
    BY <1>1
  <1>3. f \in [1 .. Len(s) -> T]
    BY <1>2
  <1>4. f \in Seq(T)
    <2> HIDE DEF T
    <2> QED BY <1>2, <1>3
  <1> QED BY <1>4

\* close(): the connection loses its descriptor.
Closed(fd) == [k \in DOMAIN conns |-> IF conns[k].fd = fd THEN [conns[k] EXCEPT !.fd = None]
                                      ELSE conns[k]]

LEMMA ClosedConns ==
  ASSUME ClientInv, NEW fd, conns' = Closed(fd)
  PROVE  /\ \E S : conns' \in Seq(S)
         /\ \A k \in DOMAIN conns' : DOMAIN conns'[k] = Connection /\ conns'[k].fd \in Nat \cup {None}
  <1>1. \E S : conns \in Seq(S)
    BY DEF ClientInv, Descriptors
  <1>2. conns' = [k \in DOMAIN conns |-> conns'[k]]
    BY DEF Closed
  <1>3. \E S : conns' \in Seq(S)
    BY <1>1, <1>2, StillSequence
  <1>4. ASSUME NEW k \in DOMAIN conns
        PROVE  DOMAIN conns'[k] = Connection /\ conns'[k].fd \in Nat \cup {None}
    BY DEF Closed, ClientInv, Descriptors, Connection
  <1> QED BY <1>2, <1>3, <1>4

LEMMA CloseAgainKeeps ==
  ASSUME ProcessAssumption, ClientInv, NEW t \in Threads, CloseAgain(t) PROVE ClientInv'
  <1>1. /\ th' = [th EXCEPT ![t] = Returned(t)] /\ th[t].pc = "close"
        /\ conns' = Closed(th[t].fd) /\ UNCHANGED <<Sessions, Num_sessions>>
    BY DEF CloseAgain, Return, Returned, Closed
  <1>2. Shapes'
    BY <1>1, ReturnedIdle, ShapesStep DEF ClientInv, Shapes
  <1>3. Held' /\ MutexesReleased'
    BY <1>1, <1>2, ReturnedIdle, UnlockedStep DEF Locking
  <1>4. Descriptors'
    BY <1>1, ReturnedIdle, ClosedConns, DescriptorsStep
  <1>5. SessionsCounted'
    BY <1>1 DEF ClientInv, SessionsCounted, Used
  <1> QED BY <1>2, <1>3, <1>4, <1>5 DEF ClientInv

-----------------------------------------------------------------------------
(* The count of the sessions. *)

LEMMA TableFinite ==
  ASSUME ProcessAssumption PROVE IsFiniteSet(Slots) /\ IsFiniteSet(Used)
  <1>1. IsFiniteSet(Slots)
    BY FS_Interval DEF Slots, ProcessAssumption
  <1>2. Used \subseteq Slots
    BY DEF Used
  <1> QED BY <1>1, <1>2, FS_Subset

\* A slot stays taken or free: nothing is counted.
LEMMA CountedSame ==
  ASSUME ClientInv, UNCHANGED Num_sessions,
         \A i \in Slots : /\ Sessions'[i].mbox = Sessions[i].mbox
                          /\ Sessions'[i].state = "UNUSED" <=> Sessions[i].state = "UNUSED"
  PROVE  SessionsCounted'
  <1>1. Used' = Used
    BY DEF Used
  <1> QED BY <1>1 DEF ClientInv, SessionsCounted

LEMMA CountedOneMore ==
  ASSUME ProcessAssumption, ClientInv, NEW ses \in Slots, Sessions[ses].state = "UNUSED",
         Num_sessions' = Num_sessions + 1,
         Sessions'[ses].state # "UNUSED", Sessions'[ses].mbox # None,
         \A i \in Slots \ {ses} : Sessions'[i] = Sessions[i]
  PROVE  SessionsCounted'
  <1>1. Used' = Used \cup {ses} /\ ses \notin Used
    BY DEF Used
  <1>2. Cardinality(Used \cup {ses}) = Cardinality(Used) + 1
    BY <1>1, TableFinite, FS_AddElement
  <1> QED BY <1>1, <1>2 DEF ClientInv, SessionsCounted

LEMMA CountedOneLess ==
  ASSUME ProcessAssumption, ClientInv, NEW ses \in Slots, Sessions[ses].mbox # None,
         Num_sessions' = Num_sessions - 1,
         Sessions'[ses].state = "UNUSED", Sessions'[ses].mbox = None,
         \A i \in Slots \ {ses} : Sessions'[i] = Sessions[i]
  PROVE  SessionsCounted'
  <1>1. Used' = Used \ {ses} /\ ses \in Used
    BY DEF Used, ClientInv, SessionsCounted
  <1>2. Cardinality(Used \ {ses}) = Cardinality(Used) - 1
    BY <1>1, TableFinite, FS_RemoveElement
  <1> QED BY <1>1, <1>2 DEF ClientInv, SessionsCounted

LEMMA HandshakeKeeps ==
  ASSUME ProcessAssumption, ClientInv, NEW t \in Threads, Handshake(t) PROVE ClientInv'
  <1> DEFINE fd == th[t].fd
             ses == UnusedSlot(fd)
  <1>1. /\ th' = [th EXCEPT ![t] = Returned(t)] /\ th[t].pc = "hello" /\ fd \in Nat
        /\ \/ UNCHANGED <<Sessions, Num_sessions, conns>>
           \/ /\ ses # None
              /\ Num_sessions' = Num_sessions + 1
              /\ Sessions' = [Sessions EXCEPT ![ses].mbox = fd, ![ses].state = "ACTIVE", ![ses].saved = <<>>]
              /\ conns' = Append(conns, Opened(fd))
    BY DEF Handshake, Return, Returned, UnusedSlot, ClientInv, Descriptors
  <1> HIDE DEF fd, ses
  <1>2. CASE UNCHANGED <<Sessions, Num_sessions, conns>>
    BY <1>1, <1>2, ReturnedIdle, QuietStep DEF Locking
  <1>3. ASSUME ses # None, Num_sessions' = Num_sessions + 1,
               Sessions' = [Sessions EXCEPT ![ses].mbox = fd, ![ses].state = "ACTIVE", ![ses].saved = <<>>],
               conns' = Append(conns, Opened(fd))
        PROVE  ClientInv'
    <2>1. ses \in Slots /\ Sessions[ses].state = "UNUSED"
      BY <1>1, <1>3, FoundUnused DEF ses
    <2>2. /\ DOMAIN Sessions' = Slots
          /\ Sessions'[ses].mbox = fd /\ Sessions'[ses].state = "ACTIVE"
          /\ \A i \in Slots \ {ses} : Sessions'[i] = Sessions[i]
          /\ \A i \in Slots : /\ DOMAIN Sessions'[i] = {"mbox", "state", "saved", "recv", "send"}
                               /\ Sessions'[i].send = Sessions[i].send
                               /\ Sessions'[i].recv = Sessions[i].recv
      BY <1>3, <2>1 DEF ClientInv, Shapes
    <2>3. Shapes'
      <3>1. \A i \in Slots : /\ Sessions'[i].send \in {Sessions[i].send, None, t}
                             /\ Sessions'[i].recv \in {Sessions[i].recv, None, t}
        BY <2>2
      <3>2. /\ DOMAIN Sessions' = Slots
            /\ \A i \in Slots : /\ DOMAIN Sessions'[i] = {"mbox", "state", "saved", "recv", "send"}
                                 /\ Sessions'[i].send \in {Sessions[i].send, None, t}
                                 /\ Sessions'[i].recv \in {Sessions[i].recv, None, t}
        BY <2>2, <3>1
      <3>3. PICK r : r = Returned(t)
        OBVIOUS
      <3>4. th' = [th EXCEPT ![t] = r] /\ ThreadShape(r)
        BY <1>1, <3>3, ReturnedIdle
      <3> QED BY ONLY ClientInv, t \in Threads, <3>2, <3>4, ShapesStep
    <2>4. Held' /\ MutexesReleased'
      BY <1>1, <2>2, <2>3, ReturnedIdle, UnlockedStep DEF Locking
    <2>5. SessionsCounted'
      <3>1. fd # None
        BY <1>1 DEF None
      <3> QED BY <1>3, <2>1, <2>2, <3>1, CountedOneMore
    <2>6. Descriptors'
      <3>1. PICK S : conns \in Seq(S)
        BY DEF ClientInv, Descriptors
      <3>2. conns \in Seq(S \cup {Opened(fd)})
        BY <3>1
      <3>3. conns' \in Seq(S \cup {Opened(fd)})
        BY <3>2, <1>3
      <3>4. DOMAIN Opened(fd) = Connection /\ Opened(fd).fd = fd
        BY DEF Opened, Connection
      <3>5. ASSUME NEW k \in DOMAIN conns'
            PROVE  DOMAIN conns'[k] = Connection /\ conns'[k].fd \in Nat \cup {None}
        <4>1. (k \in DOMAIN conns /\ conns'[k] = conns[k]) \/ conns'[k] = Opened(fd)
          BY <3>2, <3>5, <1>3
        <4> QED BY <4>1, <3>4, <1>1 DEF ClientInv, Descriptors
      <3> QED BY <1>1, <3>3, <3>5, ReturnedIdle, DescriptorsStep
    <2> QED BY <2>3, <2>4, <2>5, <2>6 DEF ClientInv
  <1> QED BY <1>1, <1>2, <1>3

LEMMA SP_killKeeps ==
  ASSUME ProcessAssumption, ClientInv, NEW t \in Threads, SP_kill(t) PROVE ClientInv'
  <1> DEFINE fd == th[t].fd
             ses == SP_get_session(fd)
  <1>1. /\ th' = [th EXCEPT ![t] = Returned(t)] /\ th[t].pc = "kill" /\ fd \in Nat
        /\ \/ UNCHANGED <<Sessions, Num_sessions, conns>>
           \/ /\ ses # None
              /\ Num_sessions' = Num_sessions - 1
              /\ Sessions' = [Sessions EXCEPT ![ses].mbox = None, ![ses].state = "UNUSED"]
              /\ conns' = Closed(fd)
    BY DEF SP_kill, Return, Returned, Closed, ClientInv, Descriptors
  <1> HIDE DEF fd, ses
  <1>2. CASE UNCHANGED <<Sessions, Num_sessions, conns>>
    BY <1>1, <1>2, ReturnedIdle, QuietStep DEF Locking
  <1>3. ASSUME ses # None, Num_sessions' = Num_sessions - 1,
               Sessions' = [Sessions EXCEPT ![ses].mbox = None, ![ses].state = "UNUSED"],
               conns' = Closed(fd)
        PROVE  ClientInv'
    <2>1. ses \in Slots /\ Sessions[ses].mbox = fd
      BY <1>1, <1>3, FoundByMailbox DEF ses
    <2>2. /\ DOMAIN Sessions' = Slots
          /\ Sessions'[ses].mbox = None /\ Sessions'[ses].state = "UNUSED"
          /\ \A i \in Slots \ {ses} : Sessions'[i] = Sessions[i]
          /\ \A i \in Slots : /\ DOMAIN Sessions'[i] = {"mbox", "state", "saved", "recv", "send"}
                               /\ Sessions'[i].send = Sessions[i].send
                               /\ Sessions'[i].recv = Sessions[i].recv
      BY <1>3, <2>1 DEF ClientInv, Shapes
    <2>3. Shapes'
      <3>1. \A i \in Slots : /\ Sessions'[i].send \in {Sessions[i].send, None, t}
                             /\ Sessions'[i].recv \in {Sessions[i].recv, None, t}
        BY <2>2
      <3>2. /\ DOMAIN Sessions' = Slots
            /\ \A i \in Slots : /\ DOMAIN Sessions'[i] = {"mbox", "state", "saved", "recv", "send"}
                                 /\ Sessions'[i].send \in {Sessions[i].send, None, t}
                                 /\ Sessions'[i].recv \in {Sessions[i].recv, None, t}
        BY <2>2, <3>1
      <3>3. PICK r : r = Returned(t)
        OBVIOUS
      <3>4. th' = [th EXCEPT ![t] = r] /\ ThreadShape(r)
        BY <1>1, <3>3, ReturnedIdle
      <3> QED BY ONLY ClientInv, t \in Threads, <3>2, <3>4, ShapesStep
    <2>4. Held' /\ MutexesReleased'
      BY <1>1, <2>2, <2>3, ReturnedIdle, UnlockedStep DEF Locking
    <2>5. SessionsCounted'
      <3>1. fd # None
        BY <1>1 DEF None
      <3> QED BY <1>3, <2>1, <2>2, <3>1, CountedOneLess
    <2>6. Descriptors'
      BY <1>1, <1>3, ReturnedIdle, ClosedConns, DescriptorsStep
    <2> QED BY <2>3, <2>4, <2>5, <2>6 DEF ClientInv
  <1> QED BY <1>1, <1>2, <1>3

-----------------------------------------------------------------------------
(* The mutexes. *)

LEMMA send_lockKeeps ==
  ASSUME ProcessAssumption, ClientInv, NEW t \in Threads, send_lock(t) PROVE ClientInv'
  <1> DEFINE ses == th[t].ses
             r == [th[t] EXCEPT !.pc = "sending"]
  <1>1. /\ th[t].pc = "send_lock" /\ Sessions[ses].send = None /\ ses \in Slots /\ th[t].fd \in Nat
        /\ Sessions' = [Sessions EXCEPT ![ses].send = t]
        /\ th' = [th EXCEPT ![t] = r] /\ UNCHANGED <<Num_sessions, conns>>
    BY DEF send_lock, Become, ClientInv, Held, Locking, Descriptors
  <1>2. r.pc = "sending" /\ r.ses = ses /\ r.fd = th[t].fd /\ ThreadShape(r)
    BY DEF ThreadShape, ClientInv, Shapes
  <1> HIDE DEF r
  <1>3. /\ DOMAIN Sessions' = Slots /\ Sessions'[ses].send = t
        /\ \A i \in Slots \ {ses} : Sessions'[i] = Sessions[i]
        /\ \A i \in Slots : /\ DOMAIN Sessions'[i] = {"mbox", "state", "saved", "recv", "send"}
                             /\ Sessions'[i].recv = Sessions[i].recv
                             /\ Sessions'[i].mbox = Sessions[i].mbox
                             /\ Sessions'[i].state = Sessions[i].state
    BY <1>1 DEF ClientInv, Shapes
  <1> HIDE DEF ses
  <1>4. Shapes'
    <2>1. \A i \in Slots : Sessions'[i].send \in {Sessions[i].send, None, t}
      BY <1>3
    <2> QED BY <1>1, <1>2, <1>3, <2>1, ShapesStep
  <1>5. Held' /\ MutexesReleased'
    <2>1. \A i \in Slots : Sessions[i].send # t /\ Sessions[i].recv # t
      BY <1>1, NotNamed
    <2>2. \A i \in Slots : Sessions'[i].send = t <=> i = ses
      BY <1>1, <1>3, <2>1
    <2>3. \A i \in Slots : Sessions'[i].send = Sessions[i].send
                          \/ (Sessions[i].send \in {None, t} /\ Sessions'[i].send \in {None, t})
      BY <1>1, <1>3
    <2>4. \A i \in Slots : Sessions'[i].recv = Sessions[i].recv /\ Sessions'[i].recv # t
      BY <1>3, <2>1
    <2> QED BY <1>1, <1>2, <1>4, <2>2, <2>3, <2>4, LocksStep
  <1>6. Descriptors'
    BY <1>1, <1>2, DescriptorsStep DEF ClientInv, Descriptors
  <1>7. SessionsCounted'
    BY <1>1, <1>3, CountedSame
  <1> QED BY <1>4, <1>5, <1>6, <1>7 DEF ClientInv

LEMMA recv_lockKeeps ==
  ASSUME ProcessAssumption, ClientInv, NEW t \in Threads, recv_lock(t) PROVE ClientInv'
  <1> DEFINE ses == th[t].ses
             r == [th[t] EXCEPT !.pc = "header", !.m = Sessions[ses].saved,
                                !.saved = Sessions[ses].saved # <<>>]
  <1>1. /\ th[t].pc = "recv_lock" /\ Sessions[ses].recv = None /\ ses \in Slots /\ th[t].fd \in Nat
        /\ UNCHANGED <<Num_sessions, conns>>
        /\ \/ th' = [th EXCEPT ![t] = Returned(t)] /\ UNCHANGED Sessions
           \/ Sessions' = [Sessions EXCEPT ![ses].recv = t] /\ th' = [th EXCEPT ![t] = r]
    BY DEF recv_lock, Become, Return, Returned, ClientInv, Held, Locking, Descriptors
  <1>2. r.pc = "header" /\ r.ses = ses /\ r.fd = th[t].fd /\ ThreadShape(r)
    BY DEF ThreadShape, ClientInv, Shapes
  <1> HIDE DEF r
  <1>3. CASE th' = [th EXCEPT ![t] = Returned(t)] /\ UNCHANGED Sessions
    BY <1>1, <1>3, ReturnedIdle, QuietStep DEF Locking
  <1>4. ASSUME Sessions' = [Sessions EXCEPT ![ses].recv = t], th' = [th EXCEPT ![t] = r]
        PROVE  ClientInv'
    <2>1. /\ DOMAIN Sessions' = Slots /\ Sessions'[ses].recv = t
          /\ \A i \in Slots \ {ses} : Sessions'[i] = Sessions[i]
          /\ \A i \in Slots : /\ DOMAIN Sessions'[i] = {"mbox", "state", "saved", "recv", "send"}
                               /\ Sessions'[i].send = Sessions[i].send
                               /\ Sessions'[i].mbox = Sessions[i].mbox
                               /\ Sessions'[i].state = Sessions[i].state
      BY <1>1, <1>4 DEF ClientInv, Shapes
    <2> HIDE DEF ses
    <2>2. Shapes'
      <3>1. \A i \in Slots : Sessions'[i].recv \in {Sessions[i].recv, None, t}
        BY <2>1
      <3> QED BY <1>2, <1>4, <2>1, <3>1, ShapesStep
    <2>3. Held' /\ MutexesReleased'
      <3>1. \A i \in Slots : Sessions[i].send # t /\ Sessions[i].recv # t
        BY <1>1, NotNamed
      <3>2. \A i \in Slots : Sessions'[i].recv = t <=> i = ses
        BY <1>1, <2>1, <3>1
      <3>3. \A i \in Slots : Sessions'[i].recv = Sessions[i].recv
                            \/ (Sessions[i].recv \in {None, t} /\ Sessions'[i].recv \in {None, t})
        BY <1>1, <2>1
      <3>4. \A i \in Slots : Sessions'[i].send = Sessions[i].send /\ Sessions'[i].send # t
        BY <2>1, <3>1
      <3>5. PICK q : q = r
        OBVIOUS
      <3>6. th' = [th EXCEPT ![t] = q] /\ q.pc = "header" /\ q.ses = ses /\ ses \in Slots
        BY <1>1, <1>2, <1>4, <3>5
      <3> QED BY ONLY ProcessAssumption, ClientInv, t \in Threads, <2>2, <3>2, <3>3, <3>4, <3>6,
                      LocksStep
    <2>4. Descriptors'
      BY <1>1, <1>2, <1>4, DescriptorsStep DEF ClientInv, Descriptors
    <2>5. SessionsCounted'
      BY <1>1, <2>1, CountedSame
    <2> QED BY <2>2, <2>3, <2>4, <2>5 DEF ClientInv
  <1> QED BY <1>1, <1>3, <1>4

\* Reading and writing leave the descriptors alone.
ConnsKept ==
  /\ conns' = [k \in DOMAIN conns |-> conns'[k]]
  /\ \A k \in DOMAIN conns : DOMAIN conns'[k] = DOMAIN conns[k] /\ conns'[k].fd = conns[k].fd

LEMMA KeptConns ==
  ASSUME ClientInv, ConnsKept
  PROVE  /\ \E S : conns' \in Seq(S)
         /\ \A k \in DOMAIN conns' : DOMAIN conns'[k] = Connection /\ conns'[k].fd \in Nat \cup {None}
  <1>1. \E S : conns' \in Seq(S)
    BY StillSequence DEF ClientInv, Descriptors, ConnsKept
  <1>2. DOMAIN conns' = DOMAIN conns
    BY DEF ConnsKept
  <1> QED BY <1>1, <1>2 DEF ClientInv, Descriptors, ConnsKept

LEMMA SameConns ==
  ASSUME ClientInv, UNCHANGED conns PROVE ConnsKept
  <1>1. PICK S : conns \in Seq(S)
    BY DEF ClientInv, Descriptors
  <1>2. conns = [k \in DOMAIN conns |-> conns[k]]
    BY <1>1
  <1> QED BY <1>2 DEF ConnsKept

\* The table, but for the mutexes: the same mailboxes in the same slots.
SlotsKept(table) ==
  /\ DOMAIN table = Slots
  /\ \A i \in Slots :
       /\ DOMAIN table[i] = {"mbox", "state", "saved", "recv", "send"}
       /\ table[i].mbox = Sessions[i].mbox
       /\ table[i].state = "UNUSED" <=> Sessions[i].state = "UNUSED"

\* A call that fails marks a slot only while that has the mailbox of the call.
LEMMA FailedSlots ==
  ASSUME ProcessAssumption, ClientInv, NEW t \in Threads, th[t].fd \in Nat, th[t].ses \in Slots,
         NEW table, SlotsKept(table)
  PROVE  /\ SlotsKept(Failed(t, table))
         /\ \A i \in Slots : /\ Failed(t, table)[i].send = table[i].send
                              /\ Failed(t, table)[i].recv = table[i].recv
  <1> DEFINE ses == th[t].ses
             found == SP_get_session(th[t].fd)
  <1>1. CASE found # ses
    BY <1>1 DEF Failed
  <1>2. CASE found = ses
    <2>1. ses # None
      BY DEF Slots, None, ProcessAssumption
    <2>2. ses \in Slots /\ Sessions[ses].mbox = th[t].fd
      BY <1>2, <2>1, FoundByMailbox
    <2>3. Sessions[ses].state # "UNUSED"
      BY <2>2 DEF ClientInv, SessionsCounted, Used, None
    <2>4. Failed(t, table) = [table EXCEPT ![ses].state = "ERROR"]
      BY <1>2 DEF Failed
    <2>5. /\ DOMAIN Failed(t, table) = Slots
          /\ \A i \in Slots :
               /\ DOMAIN Failed(t, table)[i] = DOMAIN table[i]
               /\ Failed(t, table)[i].mbox = table[i].mbox
               /\ Failed(t, table)[i].send = table[i].send
               /\ Failed(t, table)[i].recv = table[i].recv
               /\ i # ses => Failed(t, table)[i].state = table[i].state
          /\ Failed(t, table)[ses].state = "ERROR"
      BY <2>2, <2>4 DEF SlotsKept
    <2> HIDE DEF ses, found
    <2> QED BY <2>2, <2>3, <2>5 DEF SlotsKept
  <1> QED BY <1>1, <1>2

\* Whatever the thread does next, it gave back the mutex it held.
LEMMA SendReleased ==
  ASSUME ProcessAssumption, ClientInv, NEW t \in Threads, th[t].pc = "sending",
         NEW r, th' = [th EXCEPT ![t] = r], ThreadShape(r),
         r.pc \notin Locking, r.pc # "idle" => r.fd \in Nat,
         SlotsKept(Sessions'), Sessions'[th[t].ses].send = None,
         \A i \in Slots \ {th[t].ses} : Sessions'[i].send = Sessions[i].send,
         \A i \in Slots : Sessions'[i].recv = Sessions[i].recv,
         ConnsKept, UNCHANGED Num_sessions
  PROVE  ClientInv'
  <1> DEFINE ses == th[t].ses
  <1>1. ses \in Slots /\ Sessions[ses].send = t
    BY DEF ClientInv, Held, Locking
  <1> HIDE DEF ses
  <1>2. /\ \A i \in Slots : Sessions'[i].send = Sessions[i].send
                          \/ (Sessions[i].send \in {None, t} /\ Sessions'[i].send \in {None, t})
        /\ \A i \in Slots : Sessions'[i].send \in {Sessions[i].send, None, t}
    BY <1>1 DEF ses
  <1>3. \A i \in Slots : Sessions'[i].send # t /\ Sessions'[i].recv # t
    <2>1. \A i \in Slots : Sessions[i].recv # t /\ (Sessions[i].send = t => i = ses)
      BY NotNamed DEF ses
    <2> QED BY <2>1, <1>1 DEF ses, ProcessAssumption
  <1>4. Shapes'
    BY <1>2, ShapesStep DEF SlotsKept
  <1>5. r.pc \notin {"sending", "header", "body"}
    BY DEF Locking
  <1>6. Held' /\ MutexesReleased'
    <2>1. /\ \A i \in Slots : Sessions'[i].send = t <=> r.pc = "sending" /\ r.ses = i
          /\ \A i \in Slots : Sessions'[i].recv = t <=> r.pc \in {"header", "body"} /\ r.ses = i
      BY <1>3, <1>5
    <2>2. /\ \A i \in Slots : Sessions'[i].send = Sessions[i].send
                            \/ (Sessions[i].send \in {None, t} /\ Sessions'[i].send \in {None, t})
          /\ \A i \in Slots : Sessions'[i].recv = Sessions[i].recv
                            \/ (Sessions[i].recv \in {None, t} /\ Sessions'[i].recv \in {None, t})
      BY <1>2
    <2>3. th' = [th EXCEPT ![t] = r] /\ (r.pc \in Locking => r.ses \in Slots)
      OBVIOUS
    <2> QED BY ONLY ProcessAssumption, ClientInv, t \in Threads, <1>4, <2>1, <2>2, <2>3, LocksStep, ZenonT(60)
  <1>7. Descriptors'
    BY KeptConns, DescriptorsStep
  <1>8. SessionsCounted'
    BY CountedSame DEF SlotsKept
  <1> QED BY <1>4, <1>6, <1>7, <1>8 DEF ClientInv

LEMMA RecvReleased ==
  ASSUME ProcessAssumption, ClientInv, NEW t \in Threads, th[t].pc \in {"header", "body"},
         NEW r, th' = [th EXCEPT ![t] = r], ThreadShape(r),
         r.pc \notin Locking, r.pc # "idle" => r.fd \in Nat,
         SlotsKept(Sessions'), Sessions'[th[t].ses].recv = None,
         \A i \in Slots \ {th[t].ses} : Sessions'[i].recv = Sessions[i].recv,
         \A i \in Slots : Sessions'[i].send = Sessions[i].send,
         ConnsKept, UNCHANGED Num_sessions
  PROVE  ClientInv'
  <1> DEFINE ses == th[t].ses
  <1>1. ses \in Slots /\ Sessions[ses].recv = t
    BY DEF ClientInv, Held, Locking
  <1> HIDE DEF ses
  <1>2. /\ \A i \in Slots : Sessions'[i].recv = Sessions[i].recv
                          \/ (Sessions[i].recv \in {None, t} /\ Sessions'[i].recv \in {None, t})
        /\ \A i \in Slots : Sessions'[i].recv \in {Sessions[i].recv, None, t}
    BY <1>1 DEF ses
  <1>3. \A i \in Slots : Sessions'[i].send # t /\ Sessions'[i].recv # t
    <2>1. \A i \in Slots : Sessions[i].send # t /\ (Sessions[i].recv = t => i = ses)
      BY NotNamed DEF ses
    <2> QED BY <2>1, <1>1 DEF ses, ProcessAssumption
  <1>4. Shapes'
    BY <1>2, ShapesStep DEF SlotsKept
  <1>5. r.pc \notin {"sending", "header", "body"}
    BY DEF Locking
  <1>6. Held' /\ MutexesReleased'
    <2>1. /\ \A i \in Slots : Sessions'[i].send = t <=> r.pc = "sending" /\ r.ses = i
          /\ \A i \in Slots : Sessions'[i].recv = t <=> r.pc \in {"header", "body"} /\ r.ses = i
      BY <1>3, <1>5
    <2>2. /\ \A i \in Slots : Sessions'[i].send = Sessions[i].send
                            \/ (Sessions[i].send \in {None, t} /\ Sessions'[i].send \in {None, t})
          /\ \A i \in Slots : Sessions'[i].recv = Sessions[i].recv
                            \/ (Sessions[i].recv \in {None, t} /\ Sessions'[i].recv \in {None, t})
      BY <1>2
    <2>3. th' = [th EXCEPT ![t] = r] /\ (r.pc \in Locking => r.ses \in Slots)
      OBVIOUS
    <2> QED BY ONLY ProcessAssumption, ClientInv, t \in Threads, <1>4, <2>1, <2>2, <2>3, LocksStep, ZenonT(60)
  <1>7. Descriptors'
    BY KeptConns, DescriptorsStep
  <1>8. SessionsCounted'
    BY CountedSame DEF SlotsKept
  <1> QED BY <1>4, <1>6, <1>7, <1>8 DEF ClientInv

\* One more unit of the message: the thread stays where it is.
LEMMA InsideStep ==
  ASSUME ProcessAssumption, ClientInv, NEW t \in Threads,
         NEW r, th' = [th EXCEPT ![t] = r], ThreadShape(r), th[t].pc \in {"sending", "header", "body"},
         r.pc = "sending" <=> th[t].pc = "sending", r.pc \in {"sending", "header", "body"},
         r.ses = th[t].ses, r.fd = th[t].fd,
         UNCHANGED Sessions, ConnsKept, UNCHANGED Num_sessions
  PROVE  ClientInv'
  <1>1. Shapes'
    BY ShapesStep DEF ClientInv, Shapes
  <1>2. /\ \A i \in Slots : Sessions'[i].send = t <=> r.pc = "sending" /\ r.ses = i
        /\ \A i \in Slots : Sessions'[i].recv = t <=> r.pc \in {"header", "body"} /\ r.ses = i
    BY NotNamed DEF ClientInv, Held
  <1>3. r.ses \in Slots /\ r.fd \in Nat
    BY DEF ClientInv, Held, Locking, Descriptors
  <1>4. Held' /\ MutexesReleased'
    <2>1. /\ \A i \in Slots : Sessions'[i].send = Sessions[i].send
          /\ \A i \in Slots : Sessions'[i].recv = Sessions[i].recv
          /\ th' = [th EXCEPT ![t] = r]
      OBVIOUS
    <2> QED BY ONLY ProcessAssumption, ClientInv, t \in Threads, <1>1, <1>2, <1>3, <2>1, LocksStep, ZenonT(60)
  <1>5. Descriptors'
    BY <1>3, KeptConns, DescriptorsStep
  <1>6. SessionsCounted'
    BY DEF ClientInv, SessionsCounted, Used
  <1> QED BY <1>1, <1>4, <1>5, <1>6 DEF ClientInv

-----------------------------------------------------------------------------
(* Sending and receiving. *)

LEMMA SendUnitKeeps ==
  ASSUME ProcessAssumption, ClientInv, NEW t \in Threads, SendUnit(t) PROVE ClientInv'
  <1> DEFINE ses == th[t].ses
             k == ConnOf(th[t].fd)
             unlocked == [Sessions EXCEPT ![ses].send = None]
             killing == [th[t] EXCEPT !.pc = "kill"]
             more == [th[t] EXCEPT !.left = Tail(@)]
             written == [conns EXCEPT ![k].out = Append(@, Head(th[t].left)),
                                      ![k].asked = IF Len(th[t].left) = 1 THEN Append(@, th[t].m) ELSE @]
  <1>1. /\ th[t].pc = "sending" /\ ses \in Slots /\ th[t].fd \in Nat /\ UNCHANGED Num_sessions
        /\ killing.pc = "kill" /\ killing.fd = th[t].fd /\ ThreadShape(killing)
        /\ more.pc = "sending" /\ more.ses = ses /\ more.fd = th[t].fd /\ ThreadShape(more)
    BY DEF SendUnit, ClientInv, Shapes, Held, Locking, Descriptors, ThreadShape
  <1>2. ConnsKept
    <2>1. CASE UNCHANGED conns
      BY <2>1, SameConns
    <2>2. CASE conns' = written
      <3>1. PICK S : conns \in Seq(S)
        BY DEF ClientInv, Descriptors
      <3>2. \A j \in DOMAIN conns : DOMAIN conns[j] = Connection
        BY DEF ClientInv, Descriptors
      <3> QED BY <2>2, <3>2 DEF ConnsKept, Connection
    <2> QED BY <2>1, <2>2 DEF SendUnit
  <1>3. \/ /\ Sessions' \in {unlocked, Failed(t, unlocked)}
           /\ th' = [th EXCEPT ![t] = killing] \/ th' = [th EXCEPT ![t] = Returned(t)]
        \/ UNCHANGED Sessions /\ th' = [th EXCEPT ![t] = more]
    BY DEF SendUnit, Sent, Become, Return, Returned
  <1>4. /\ SlotsKept(unlocked) /\ unlocked[ses].send = None
        /\ \A i \in Slots \ {ses} : unlocked[i].send = Sessions[i].send
        /\ \A i \in Slots : unlocked[i].recv = Sessions[i].recv
    BY <1>1 DEF SlotsKept, ClientInv, Shapes
  <1> HIDE DEF k, unlocked, killing, more, written
  <1>5. CASE UNCHANGED Sessions /\ th' = [th EXCEPT ![t] = more]
    BY <1>1, <1>2, <1>5, InsideStep
  <1>6. ASSUME Sessions' \in {unlocked, Failed(t, unlocked)} PROVE
        /\ SlotsKept(Sessions') /\ Sessions'[th[t].ses].send = None
        /\ \A i \in Slots \ {th[t].ses} : Sessions'[i].send = Sessions[i].send
        /\ \A i \in Slots : Sessions'[i].recv = Sessions[i].recv
    <2>1. CASE Sessions' = unlocked
      BY <1>4, <2>1
    <2>2. CASE Sessions' = Failed(t, unlocked)
      <3>1. /\ SlotsKept(Failed(t, unlocked))
            /\ \A i \in Slots : /\ Failed(t, unlocked)[i].send = unlocked[i].send
                                 /\ Failed(t, unlocked)[i].recv = unlocked[i].recv
        BY <1>1, <1>4, FailedSlots
      <3> QED BY <1>1, <1>4, <2>2, <3>1
    <2> QED BY <1>6, <2>1, <2>2
  <1>7. ASSUME Sessions' \in {unlocked, Failed(t, unlocked)}, NEW r, th' = [th EXCEPT ![t] = r],
               r = killing \/ r = Returned(t)
        PROVE  ClientInv'
    <2>1. ThreadShape(r) /\ r.pc \notin Locking /\ (r.pc # "idle" => r.fd \in Nat)
      BY <1>1, <1>7, ReturnedIdle DEF Locking
    <2> QED BY <1>1, <1>2, <1>6, <1>7, <2>1, SendReleased
  <1> QED BY <1>3, <1>5, <1>7

\* recv_mutex is given back, and with it the saved header may be set or cleared.
RecvUnlocked(t) == [Sessions EXCEPT ![th[t].ses].recv = None]
HeaderSaved(t, m) == [RecvUnlocked(t) EXCEPT ![th[t].ses].saved = m]

BackFromReading(t, m) ==
  /\ th' = [th EXCEPT ![t] = Returned(t)] /\ UNCHANGED Num_sessions
  /\ Sessions' \in {RecvUnlocked(t), Failed(t, RecvUnlocked(t)), HeaderSaved(t, m)}

\* A call that comes back from reading: its slot is unlocked, and marked if it failed.
LEMMA ReadEnds ==
  ASSUME ProcessAssumption, ClientInv, NEW t \in Threads, th[t].pc \in {"header", "body"},
         NEW m, BackFromReading(t, m), ConnsKept
  PROVE  ClientInv'
  <1> DEFINE ses == th[t].ses
             unlocked == [Sessions EXCEPT ![ses].recv = None]
             kept == [unlocked EXCEPT ![ses].saved = m]
  <1>1. ses \in Slots /\ th[t].fd \in Nat
    BY DEF ClientInv, Held, Locking, Descriptors
  <1>2. /\ SlotsKept(unlocked) /\ unlocked[ses].recv = None
        /\ \A i \in Slots \ {ses} : unlocked[i].recv = Sessions[i].recv
        /\ \A i \in Slots : unlocked[i].send = Sessions[i].send
    BY <1>1 DEF SlotsKept, ClientInv, Shapes
  <1>3. /\ SlotsKept(kept)
        /\ \A i \in Slots : kept[i].send = unlocked[i].send /\ kept[i].recv = unlocked[i].recv
    <2> HIDE DEF unlocked
    <2> QED BY <1>1, <1>2 DEF SlotsKept
  <1>4. Sessions' \in {unlocked, Failed(t, unlocked), kept}
    BY DEF BackFromReading, RecvUnlocked, HeaderSaved
  <1> HIDE DEF unlocked, kept
  <1>5. /\ SlotsKept(Failed(t, unlocked))
        /\ \A i \in Slots : /\ Failed(t, unlocked)[i].send = unlocked[i].send
                             /\ Failed(t, unlocked)[i].recv = unlocked[i].recv
    BY <1>1, <1>2, FailedSlots
  <1>6. /\ SlotsKept(Sessions') /\ Sessions'[th[t].ses].recv = None
        /\ \A i \in Slots \ {th[t].ses} : Sessions'[i].recv = Sessions[i].recv
        /\ \A i \in Slots : Sessions'[i].send = Sessions[i].send
    <2>1. CASE Sessions' = unlocked
      BY <1>2, <2>1
    <2>2. CASE Sessions' = Failed(t, unlocked)
      BY <1>1, <1>2, <1>5, <2>2
    <2>3. CASE Sessions' = kept
      BY <1>1, <1>2, <1>3, <2>3
    <2> QED BY <1>4, <2>1, <2>2, <2>3
  <1>7. PICK r : r = Returned(t)
    OBVIOUS
  <1>8. th' = [th EXCEPT ![t] = r] /\ ThreadShape(r) /\ r.pc \notin Locking
        /\ (r.pc # "idle" => r.fd \in Nat)
    BY <1>7, ReturnedIdle DEF Locking, BackFromReading
  <1>9. UNCHANGED Num_sessions
    BY DEF BackFromReading
  <1> QED BY <1>6, <1>8, <1>9, RecvReleased

LEMMA WithHeaderKeeps ==
  ASSUME ProcessAssumption, ClientInv, NEW t \in Threads, th[t].pc = "header", NEW m, NEW k,
         WithHeader(t, m, k), ConnsKept, UNCHANGED Num_sessions
  PROVE  ClientInv'
  <1> DEFINE ses == th[t].ses
             body == [th[t] EXCEPT !.pc = "body", !.m = m, !.left = Body(m), !.got = <<>>]
  <1>1. \/ /\ th' = [th EXCEPT ![t] = Returned(t)]
           /\ Sessions' \in {RecvUnlocked(t), HeaderSaved(t, m)}
        \/ UNCHANGED Sessions /\ th' = [th EXCEPT ![t] = body]
    BY DEF WithHeader, Return, Returned, Become, RecvUnlocked, HeaderSaved
  <1>2. CASE /\ th' = [th EXCEPT ![t] = Returned(t)]
             /\ Sessions' \in {RecvUnlocked(t), HeaderSaved(t, m)}
    <2>1. BackFromReading(t, m)
      BY <1>2 DEF BackFromReading
    <2> QED BY <2>1, ReadEnds
  <1>3. CASE UNCHANGED Sessions /\ th' = [th EXCEPT ![t] = body]
    <2>1. body.pc = "body" /\ body.ses = ses /\ body.fd = th[t].fd /\ ThreadShape(body)
      BY DEF ThreadShape, ClientInv, Shapes
    <2> HIDE DEF body
    <2> QED BY <1>3, <2>1, InsideStep
  <1> QED BY <1>1, <1>2, <1>3

\* One unit is taken from the stream.
LEMMA TakenConns ==
  ASSUME ClientInv, NEW k, conns' = [conns EXCEPT ![k].in = Tail(@)] PROVE ConnsKept
  <1>1. PICK S : conns \in Seq(S)
    BY DEF ClientInv, Descriptors
  <1>2. \A j \in DOMAIN conns : DOMAIN conns[j] = Connection
    BY DEF ClientInv, Descriptors
  <1> QED BY <1>1, <1>2 DEF ConnsKept, Connection

LEMMA ReadFailsKeeps ==
  ASSUME ProcessAssumption, ClientInv, NEW t \in Threads, th[t].pc \in {"header", "body"},
         ReadFails(t), UNCHANGED Num_sessions
  PROVE  ClientInv'
  <1>1. /\ th' = [th EXCEPT ![t] = Returned(t)] /\ UNCHANGED conns
        /\ Sessions' = Failed(t, RecvUnlocked(t))
    BY DEF ReadFails, Return, Returned, RecvUnlocked
  <1>2. BackFromReading(t, <<>>)
    BY <1>1 DEF BackFromReading
  <1> QED BY <1>1, <1>2, SameConns, ReadEnds

LEMMA ReadHeaderKeeps ==
  ASSUME ProcessAssumption, ClientInv, NEW t \in Threads, ReadHeader(t) PROVE ClientInv'
  <1> DEFINE k == ConnOf(th[t].fd)
  <1>1. th[t].pc = "header" /\ UNCHANGED Num_sessions
    BY DEF ReadHeader
  <1>2. \/ UNCHANGED conns /\ WithHeader(t, th[t].m, k)
        \/ ReadFails(t)
        \/ conns' = [conns EXCEPT ![k].in = Tail(@)] /\ WithHeader(t, ReadAs(k, Head(conns[k].in)), k)
    BY DEF ReadHeader
  <1> HIDE DEF k
  <1>3. CASE UNCHANGED conns /\ WithHeader(t, th[t].m, k)
    BY <1>1, <1>3, SameConns, WithHeaderKeeps
  <1>4. CASE ReadFails(t)
    BY <1>1, <1>4, ReadFailsKeeps
  <1>5. CASE conns' = [conns EXCEPT ![k].in = Tail(@)] /\ WithHeader(t, ReadAs(k, Head(conns[k].in)), k)
    BY <1>1, <1>5, TakenConns, WithHeaderKeeps
  <1> QED BY <1>2, <1>3, <1>4, <1>5

LEMMA ReadUnitKeeps ==
  ASSUME ProcessAssumption, ClientInv, NEW t \in Threads, ReadUnit(t) PROVE ClientInv'
  <1> DEFINE k == ConnOf(th[t].fd)
             more == [th[t] EXCEPT !.got = Append(@, Head(conns[k].in))]
  <1>1. th[t].pc = "body" /\ UNCHANGED Num_sessions
    BY DEF ReadUnit
  <1>2. \/ ReadFails(t)
        \/ /\ conns' = [conns EXCEPT ![k].in = Tail(@)]
           /\ th' = [th EXCEPT ![t] = more] /\ UNCHANGED Sessions
    BY DEF ReadUnit, Become
  <1>3. more.pc = "body" /\ more.ses = th[t].ses /\ more.fd = th[t].fd /\ ThreadShape(more)
    BY <1>1 DEF ThreadShape, ClientInv, Shapes
  <1> HIDE DEF k, more
  <1>4. CASE ReadFails(t)
    BY <1>1, <1>4, ReadFailsKeeps
  <1>5. CASE /\ conns' = [conns EXCEPT ![k].in = Tail(@)]
             /\ th' = [th EXCEPT ![t] = more] /\ UNCHANGED Sessions
    BY <1>1, <1>3, <1>5, TakenConns, InsideStep
  <1> QED BY <1>2, <1>4, <1>5

LEMMA CompleteKeeps ==
  ASSUME ProcessAssumption, ClientInv, NEW t \in Threads, Complete(t) PROVE ClientInv'
  <1>1. /\ th[t].pc = "body" /\ UNCHANGED Num_sessions /\ th' = [th EXCEPT ![t] = Returned(t)]
        /\ Sessions' \in {RecvUnlocked(t), HeaderSaved(t, <<>>)}
    BY DEF Complete, Return, Returned, RecvUnlocked, HeaderSaved
  <1>2. ConnsKept
    <2>1. CASE UNCHANGED conns
      BY <2>1, SameConns
    <2>2. CASE conns' = [conns EXCEPT ![th[t].conn].returned = Append(@, th[t].m)]
      <3>1. PICK S : conns \in Seq(S)
        BY DEF ClientInv, Descriptors
      <3>2. \A j \in DOMAIN conns : DOMAIN conns[j] = Connection
        BY DEF ClientInv, Descriptors
      <3> QED BY <2>2, <3>1, <3>2 DEF ConnsKept, Connection
    <2> QED BY <2>1, <2>2 DEF Complete
  <1>3. BackFromReading(t, <<>>)
    BY <1>1 DEF BackFromReading
  <1> QED BY <1>1, <1>2, <1>3, ReadEnds

LEMMA PeerClosesKeeps ==
  ASSUME ProcessAssumption, ClientInv, NEW k \in DOMAIN conns, PeerCloses(k) PROVE ClientInv'
  <1>1. PICK n \in 0 .. Len(conns[k].in) :
          conns' = [conns EXCEPT ![k].alive = FALSE, ![k].in = SubSeq(@, 1, n)]
    BY DEF PeerCloses
  <1>2. UNCHANGED <<Sessions, Num_sessions, th>>
    BY DEF PeerCloses
  <1>3. ConnsKept
    <2>1. PICK S : conns \in Seq(S)
      BY DEF ClientInv, Descriptors
    <2>2. \A j \in DOMAIN conns : DOMAIN conns[j] = Connection
      BY DEF ClientInv, Descriptors
    <2> QED BY <1>1, <2>1, <2>2 DEF ConnsKept, Connection
  <1>4. Descriptors'
    BY <1>2, <1>3, KeptConns DEF ClientInv, Descriptors
  <1>5. Shapes' /\ Held' /\ MutexesReleased' /\ SessionsCounted'
    <2>1. Shapes'
      BY <1>2 DEF ClientInv, Shapes
    <2>2. Held'
      BY <1>2 DEF ClientInv, Held
    <2>3. MutexesReleased'
      BY <1>2 DEF ClientInv, MutexesReleased
    <2>4. SessionsCounted'
      BY <1>2 DEF ClientInv, SessionsCounted, Used
    <2> QED BY <2>1, <2>2, <2>3, <2>4
  <1> QED BY <1>4, <1>5 DEF ClientInv

-----------------------------------------------------------------------------
(* The start, every step, and the theorems. *)

\* The first connections have the descriptors 1, 2, ...: their slots differ.
LEMMA FirstSlots ==
  ASSUME ProcessAssumption, NEW k \in 1 .. MAX_LIB_SESSIONS
  PROVE  MBOX_TO_BASE_SES(k) = IF k = MAX_LIB_SESSIONS THEN 0 ELSE k
  <1>1. MAX_LIB_SESSIONS \in Nat /\ MAX_LIB_SESSIONS > 0
    BY DEF ProcessAssumption
  <1>2. CASE k = MAX_LIB_SESSIONS
    BY <1>1, <1>2 DEF MBOX_TO_BASE_SES
  <1>3. CASE k < MAX_LIB_SESSIONS
    BY <1>1, <1>3 DEF MBOX_TO_BASE_SES
  <1> QED BY <1>1, <1>2, <1>3

LEMMA InitClient == ASSUME ProcessAssumption, Init PROVE ClientInv
  <1> DEFINE n == MAX_LIB_SESSIONS
             open == app.open
             At(i) == \E k \in 1 .. open : MBOX_TO_BASE_SES(k) = i
             conn(i) == CHOOSE k \in 1 .. open : MBOX_TO_BASE_SES(k) = i
  <1>1. n \in Nat /\ n > 0 /\ open \in 0 .. n /\ Slots = 0 .. n - 1
    <2>1. app \in Profiles
      BY DEF Init
    <2>2. n \in Nat /\ n > 0 /\ \A p \in Profiles : p.open \in 0 .. n
      BY DEF ProcessAssumption
    <2> QED BY <2>1, <2>2 DEF Slots
  <1>2. ASSUME NEW i \in Slots
        PROVE  /\ DOMAIN Sessions[i] = {"mbox", "state", "saved", "recv", "send"}
               /\ Sessions[i].recv = None /\ Sessions[i].send = None
               /\ At(i) => Sessions[i].state = "ACTIVE" /\ Sessions[i].mbox \in 1 .. open
               /\ ~At(i) => Sessions[i].state = "UNUSED" /\ Sessions[i].mbox = None
    <2>1. Sessions[i] = IF At(i) THEN [Free EXCEPT !.state = "ACTIVE", !.mbox = conn(i)] ELSE Free
      BY DEF Init
    <2>2. At(i) => conn(i) \in 1 .. open
      OBVIOUS
    <2> HIDE DEF At, conn, open
    <2> QED BY <2>1, <2>2 DEF Free
  <1>3. Shapes
    <2>1. DOMAIN Sessions = Slots /\ DOMAIN th = Threads
          /\ \A t \in Threads :
               DOMAIN th[t] = {"pc", "fd", "ses", "conn", "call", "m", "saved", "left", "got"}
      BY DEF Init, Idle
    <2>2. \A i \in Slots : /\ DOMAIN Sessions[i] = {"mbox", "state", "saved", "recv", "send"}
                           /\ {Sessions[i].recv, Sessions[i].send} \subseteq Threads \cup {None}
      BY <1>2
    <2> QED BY <2>1, <2>2 DEF Shapes
  <1>4. \A t \in Threads : th[t].pc = "idle"
    BY DEF Init, Idle
  <1>5. Held
    BY <1>4 DEF Held, Locking
  <1>6. MutexesReleased
    BY <1>2 DEF MutexesReleased
  <1>7. Descriptors
    <2>1. /\ conns = [k \in 1 .. open |-> conns[k]] /\ DOMAIN conns = 1 .. open
          /\ \A k \in 1 .. open : DOMAIN conns[k] = Connection /\ conns[k].fd = k
      BY DEF Init, Connection
    <2>2. conns \in Seq({conns[k] : k \in 1 .. open})
      BY <1>1, <2>1
    <2>3. \A k \in DOMAIN conns : DOMAIN conns[k] = Connection /\ conns[k].fd \in Nat \cup {None}
      <3> HIDE DEF open
      <3> QED BY <1>1, <2>1
    <2>4. \A t \in Threads : th[t].pc # "idle" => th[t].fd \in Nat
      BY <1>4
    <2> QED BY <2>2, <2>3, <2>4 DEF Descriptors
  <1>8. SessionsCounted
    <2>1. Used = {i \in Slots : At(i)}
      BY <1>2 DEF Used
    <2>0. Num_sessions = open /\ \A i \in Slots : (i \in Used) <=> Sessions[i].mbox # None
      <3>1. Num_sessions = open
        BY DEF Init
      <3>2. ASSUME NEW i \in Slots PROVE (i \in Used) <=> Sessions[i].mbox # None
        <4>1. None \notin 1 .. open
          BY <1>1 DEF None
        <4> HIDE DEF At
        <4> QED BY <1>2, <2>1, <4>1
      <3> QED BY <3>1, <3>2
    <2>2. \A k \in 1 .. open : MBOX_TO_BASE_SES(k) = IF k = n THEN 0 ELSE k
      BY <1>1, FirstSlots
    <2>3. CASE open = n
      <3>1. \A i \in Slots : At(i)
        <4> TAKE i \in Slots
        <4>1. CASE i = 0
          BY <1>1, <2>2, <2>3, <4>1
        <4>2. CASE i # 0
          BY <1>1, <2>2, <2>3, <4>2
        <4> QED BY <4>1, <4>2
      <3>2. Used = 0 .. n - 1
        BY <1>1, <2>1, <3>1
      <3>3. Cardinality(Used) = n
        BY <1>1, <3>2, FS_Interval
      <3> QED BY <2>0, <2>3, <3>3 DEF SessionsCounted
    <2>4. CASE open # n
      <3>1. \A i \in Slots : At(i) <=> i \in 1 .. open
        BY <1>1, <2>2, <2>4
      <3>2. Used = 1 .. open
        BY <1>1, <2>1, <2>4, <3>1
      <3>3. Cardinality(Used) = open
        BY <1>1, <3>2, FS_Interval
      <3> QED BY <2>0, <3>3 DEF SessionsCounted
    <2> QED BY <2>3, <2>4
  <1> QED BY <1>3, <1>5, <1>6, <1>7, <1>8 DEF ClientInv

LEMMA NextClient == ASSUME ProcessAssumption, ClientInv, [Next]_vars PROVE ClientInv'
  <1>1. CASE UNCHANGED vars
    <2>1. UNCHANGED <<Sessions, Num_sessions, conns, th>>
      BY <1>1 DEF vars
    <2>2. Shapes' /\ Descriptors'
      BY <2>1 DEF ClientInv, Shapes, Descriptors
    <2>3. Held' /\ MutexesReleased'
      BY <2>1 DEF ClientInv, Held, MutexesReleased
    <2>4. SessionsCounted'
      BY <2>1 DEF ClientInv, SessionsCounted, Used
    <2> QED BY <2>2, <2>3, <2>4 DEF ClientInv
  <1>2. ASSUME NEW t \in Threads,
               \/ SP_connect(t) \/ connect_nointr_timeout(t) \/ CloseAgain(t) \/ Handshake(t)
               \/ SP_internal_multicast(t) \/ send_lock(t) \/ SendUnit(t) \/ SP_kill(t)
               \/ SP_scat_receive(t) \/ recv_lock(t) \/ ReadHeader(t) \/ ReadUnit(t) \/ Complete(t)
        PROVE  ClientInv'
    BY <1>2, SP_connectKeeps, ConnectKeeps, CloseAgainKeeps, HandshakeKeeps, MulticastKeeps,
       send_lockKeeps, SendUnitKeeps, SP_killKeeps, ReceiveKeeps, recv_lockKeeps,
       ReadHeaderKeeps, ReadUnitKeeps, CompleteKeeps
  <1> QED BY <1>1, <1>2, PeerClosesKeeps DEF Next

LEMMA ClientInvariance == ProcessAssumption /\ Spec => []ClientInv
  <1> SUFFICES ASSUME ProcessAssumption PROVE Spec => []ClientInv
    OBVIOUS
  <1>1. Init => ClientInv
    BY InitClient
  <1>2. ClientInv /\ [Next]_vars => ClientInv'
    BY NextClient
  <1> QED BY <1>1, <1>2, PTL DEF Spec

(***************************************************************************)
(* SP_internal_multicast and SP_scat_receive: whatever a call meets (a     *)
(* session that was killed meanwhile, a closed descriptor, a buffer that   *)
(* is too short), it does not keep the mutex it took.                      *)
(***************************************************************************)
THEOREM MutexesReleasedHold == ProcessAssumption /\ Spec => []MutexesReleased
  <1>1. ClientInv => MutexesReleased
    BY DEF ClientInv
  <1> QED BY <1>1, ClientInvariance, PTL

(***************************************************************************)
(* Two threads are never both between send_lock and its unlock, nor both   *)
(* between recv_lock and its unlock, on one slot of the table; the mutexes *)
(* belong to the slot, so this holds across SP_kill and a new session.     *)
(***************************************************************************)
THEOREM ExclusiveHolds == ProcessAssumption /\ Spec => []Exclusive
  <1>1. ClientInv => Exclusive
    BY DEF ClientInv, Held, Exclusive
  <1> QED BY <1>1, ClientInvariance, PTL

(***************************************************************************)
(* Num_sessions counts the slots that are taken, and a slot is taken       *)
(* exactly if it has a mailbox, whatever threads connect, fail and         *)
(* disconnect at the same time.                                            *)
(***************************************************************************)
THEOREM SessionsCountedHolds == ProcessAssumption /\ Spec => []SessionsCounted
  <1>1. ClientInv => SessionsCounted
    BY DEF ClientInv
  <1> QED BY <1>1, ClientInvariance, PTL

=============================================================================
