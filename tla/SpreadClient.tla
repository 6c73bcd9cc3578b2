---------------------------- MODULE SpreadClient ----------------------------
(* The client library (libspread/sp.c) in a process with several threads: the  *)
(* table of sessions with its mutexes, connecting, multicasting, receiving     *)
(* with buffers that may be too short, and disconnecting.                      *)
(*                                                                             *)
(* Struct_mutex only guards code that does not block, so what is done under it *)
(* is one step; send_mutex and recv_mutex of a session are held while a thread *)
(* sends or receives, one unit of a message at a time.  A message on a stream  *)
(* is a header, the old type if it is a reject, its groups and its data.       *)
EXTENDS Integers, SequencesExt, FiniteSetsExt

CONSTANTS Threads,
          Fds,              \* descriptors of the process
          MAX_LIB_SESSIONS,
          Profiles          \* records [open, script, streams]: connections that are open at the
                            \* start, the calls of every thread, what the daemon sends on the
                            \* n-th connection of the process

VARIABLES Sessions,   \* Sessions[i]: [mbox, state, saved, recv, send]
          Num_sessions,
          conns,      \* all connections ever made: [fd, in, out, alive, returned, sent]
          th,         \* th[t]: what thread t does
          app,        \* the profile
          raced       \* connections that a call on another connection has read or written

vars == <<Sessions, Num_sessions, conns, th, app, raced>>

Slots == 0 .. MAX_LIB_SESSIONS - 1
None == -1
Free == [mbox |-> None, state |-> "UNUSED", saved |-> <<>>, recv |-> None, send |-> None]

\* A message is [id, reject, groups, len].
Body(m) == (IF m.reject THEN <<[id |-> m.id, part |-> "old_type"]>> ELSE <<>>)
           \o [i \in 1 .. m.groups |-> [id |-> m.id, part |-> "group"]]
           \o [i \in 1 .. m.len |-> [id |-> m.id, part |-> "data"]]
Header(m) == [id |-> m.id, part |-> "header"]
Units(m) == <<Header(m)>> \o Body(m)
Stream(ms) == FlattenSeq([i \in DOMAIN ms |-> Units(ms[i])])

-----------------------------------------------------------------------------
(* The table: open addressing, searched over its whole length *)

MBOX_TO_BASE_SES(mbox) == mbox % MAX_LIB_SESSIONS
Probe(mbox) == [i \in 1 .. MAX_LIB_SESSIONS |-> (MBOX_TO_BASE_SES(mbox) + i - 1) % MAX_LIB_SESSIONS]
FirstSlot(mbox, P(_)) ==
    LET i == SelectInSeq(Probe(mbox), P) IN IF i = 0 THEN None ELSE Probe(mbox)[i]

SP_get_session(mbox) == FirstSlot(mbox, LAMBDA x : Sessions[x].mbox = mbox)

\* The connection a descriptor stands for now; none when it is closed.
ConnOf(fd) == IF \E k \in DOMAIN conns : conns[k].fd = fd
              THEN CHOOSE k \in DOMAIN conns : conns[k].fd = fd ELSE 0
FreeFds == {f \in Fds : ConnOf(f) = 0 /\ \A t \in Threads : th[t].pc \in {"dial", "hello"} => th[t].fd # f}

Idle == [pc |-> "idle", fd |-> None, ses |-> None, conn |-> 0, call |-> <<>>, m |-> <<>>,
         saved |-> FALSE, left |-> <<>>, got |-> <<>>]

\* A call that ends, with what the thread still has to do.
Return(t) == th' = [th EXCEPT ![t] = [Idle EXCEPT !.call = Tail(th[t].call)]]
Become(t, r) == th' = [th EXCEPT ![t] = r]
Call(t) == Head(th[t].call)
Calls(t, ops) == th[t].pc = "idle" /\ th[t].call # <<>> /\ Call(t).op \in ops

-----------------------------------------------------------------------------
(* SP_connect, SP_connect_timeout *)

\* socket()
SP_connect(t) ==
    /\ Calls(t, {"connect", "connect_timeout"}) /\ FreeFds # {}
    /\ Become(t, [th[t] EXCEPT !.pc = "dial", !.fd = Min(FreeFds)])
    /\ UNCHANGED <<Sessions, Num_sessions, conns, app, raced>>

\* connect() succeeds, fails, or takes too long: then the descriptor is closed
\* here and by the caller once more.
connect_nointr_timeout(t) ==
    /\ th[t].pc = "dial"
    /\ \/ Become(t, [th[t] EXCEPT !.pc = "hello"])
       \/ Return(t)
       \/ Call(t).op = "connect_timeout" /\ Become(t, [th[t] EXCEPT !.pc = "close"])
    /\ UNCHANGED <<Sessions, Num_sessions, conns, app, raced>>

CloseAgain(t) ==
    /\ th[t].pc = "close"
    /\ conns' = [k \in DOMAIN conns |-> IF conns[k].fd = th[t].fd THEN [conns[k] EXCEPT !.fd = None] ELSE conns[k]]
    /\ Return(t) /\ UNCHANGED <<Sessions, Num_sessions, app, raced>>

Opened(fd) == LET n == Len(conns) + 1
              IN  [fd |-> fd, sends |-> app.streams[n], in |-> Stream(app.streams[n]), out |-> <<>>,
                   alive |-> TRUE, returned |-> <<>>, asked |-> <<>>]

\* The dialogue with the daemon ended with a refusal or a failure, or with
\* ACCEPT_SESSION; then the session gets the first unused slot.
Handshake(t) ==
    LET fd == th[t].fd
        ses == FirstSlot(fd, LAMBDA x : Sessions[x].state = "UNUSED")
    IN  /\ th[t].pc = "hello"
        /\ \/ UNCHANGED <<Sessions, Num_sessions, conns>>
           \/ IF Num_sessions >= MAX_LIB_SESSIONS THEN UNCHANGED <<Sessions, Num_sessions, conns>>
              ELSE /\ ses # None
                   /\ Num_sessions' = Num_sessions + 1
                   /\ Sessions' = [Sessions EXCEPT ![ses].mbox = fd, ![ses].state = "ACTIVE", ![ses].saved = <<>>]
                   /\ conns' = Append(conns, Opened(fd))
        /\ Return(t) /\ UNCHANGED <<app, raced>>

-----------------------------------------------------------------------------
(* Sending: SP_join, SP_leave, SP_multicast and, with KILL, SP_disconnect *)

Mailbox(t) == IF Call(t).on \in DOMAIN conns THEN conns[Call(t).on].fd ELSE None
MessageOf(t) == [id |-> <<t, Len(th[t].call)>>, reject |-> FALSE, groups |-> 1,
                 len |-> IF Call(t).op = "multicast" THEN 1 ELSE 0]

\* The session is looked up, then the thread waits for its send_mutex.
SP_internal_multicast(t) ==
    LET mbox == Mailbox(t)
        ses == SP_get_session(mbox)
    IN  /\ Calls(t, {"join", "leave", "multicast", "disconnect"})
        /\ IF mbox = None \/ ses = None THEN Return(t)
           ELSE IF Sessions[ses].state # "ACTIVE"
           THEN IF Call(t).op = "disconnect" THEN Become(t, [th[t] EXCEPT !.pc = "kill", !.fd = mbox])
                ELSE Return(t)
           ELSE Become(t, [th[t] EXCEPT !.pc = "send_lock", !.fd = mbox, !.ses = ses, !.conn = ConnOf(mbox),
                                        !.m = MessageOf(t), !.left = Units(MessageOf(t))])
        /\ UNCHANGED <<Sessions, Num_sessions, conns, app, raced>>

send_lock(t) ==
    /\ th[t].pc = "send_lock" /\ Sessions[th[t].ses].send = None
    /\ Sessions' = [Sessions EXCEPT ![th[t].ses].send = t]
    /\ Become(t, [th[t] EXCEPT !.pc = "sending"])
    /\ UNCHANGED <<Num_sessions, conns, app, raced>>

\* A session that is still there when a call on it fails is marked.
Failed(t, s) == IF SP_get_session(th[t].fd) = th[t].ses THEN [s EXCEPT ![th[t].ses].state = "ERROR"] ELSE s

\* Back from SP_internal_multicast.
Sent(t) == IF Call(t).op = "disconnect" THEN Become(t, [th[t] EXCEPT !.pc = "kill"]) ELSE Return(t)

Touch(t, k) == raced' = IF k # th[t].conn THEN raced \cup {k, th[t].conn} ELSE raced

\* send() takes one unit, or fails as the peer or the descriptor is closed.
SendUnit(t) ==
    LET ses == th[t].ses
        k == ConnOf(th[t].fd)
        unlocked == [Sessions EXCEPT ![ses].send = None]
    IN  /\ th[t].pc = "sending"
        /\ IF k = 0 \/ (k # 0 /\ ~conns[k].alive)
           THEN Sessions' = Failed(t, unlocked) /\ Sent(t) /\ UNCHANGED <<conns, raced>>
           ELSE /\ conns' = [conns EXCEPT ![k].out = Append(@, Head(th[t].left)),
                                          ![k].asked = IF Len(th[t].left) = 1 THEN Append(@, th[t].m) ELSE @]
                /\ Touch(t, k)
                /\ IF Len(th[t].left) = 1 THEN Sessions' = unlocked /\ Sent(t)
                   ELSE UNCHANGED Sessions /\ Become(t, [th[t] EXCEPT !.left = Tail(@)])
        /\ UNCHANGED <<Num_sessions, app>>

SP_kill(t) ==
    LET ses == SP_get_session(th[t].fd)
    IN  /\ th[t].pc = "kill"
        /\ IF ses = None THEN UNCHANGED <<Sessions, Num_sessions, conns>>
           ELSE /\ Sessions' = [Sessions EXCEPT ![ses].mbox = None, ![ses].state = "UNUSED"]
                /\ Num_sessions' = Num_sessions - 1
                /\ conns' = [k \in DOMAIN conns |-> IF conns[k].fd = th[t].fd THEN [conns[k] EXCEPT !.fd = None]
                                                    ELSE conns[k]]
        /\ Return(t) /\ UNCHANGED <<app, raced>>

-----------------------------------------------------------------------------
(* SP_scat_receive; a call is [op |-> "receive", on, groups, len, drop] *)

SP_scat_receive(t) ==
    LET mbox == Mailbox(t)
        ses == SP_get_session(mbox)
    IN  /\ Calls(t, {"receive"})
        /\ IF mbox = None \/ ses = None \/ (ses # None /\ Sessions[ses].state # "ACTIVE") THEN Return(t)
           ELSE Become(t, [th[t] EXCEPT !.pc = "recv_lock", !.fd = mbox, !.ses = ses, !.conn = ConnOf(mbox),
                                        !.m = Sessions[ses].saved])
        /\ UNCHANGED <<Sessions, Num_sessions, conns, app, raced>>

\* Mutant: the saved header is looked at before the recv_mutex is taken.
recv_lock_early(t) ==
    LET ses == th[t].ses
    IN  /\ th[t].pc = "recv_lock" /\ Sessions[ses].recv = None
        /\ IF ses # SP_get_session(th[t].fd) \/ Sessions[ses].state # "ACTIVE"
           THEN Return(t) /\ UNCHANGED Sessions
           ELSE /\ Sessions' = [Sessions EXCEPT ![ses].recv = t]
                /\ Become(t, [th[t] EXCEPT !.pc = "header", !.saved = th[t].m # <<>>])
        /\ UNCHANGED <<Num_sessions, conns, app, raced>>

\* recv_mutex, then the session is validated again and its saved header taken.
recv_lock(t) ==
    LET ses == th[t].ses
    IN  /\ th[t].pc = "recv_lock" /\ Sessions[ses].recv = None
        /\ IF ses # SP_get_session(th[t].fd) \/ Sessions[ses].state # "ACTIVE"
           THEN Return(t) /\ UNCHANGED Sessions
           ELSE /\ Sessions' = [Sessions EXCEPT ![ses].recv = t]
                /\ Become(t, [th[t] EXCEPT !.pc = "header", !.m = Sessions[ses].saved,
                                           !.saved = Sessions[ses].saved # <<>>])
        /\ UNCHANGED <<Num_sessions, conns, app, raced>>

TooShort(m, c) == m.groups > c.groups \/ m.len > c.len

\* What the connection's unit u means as a header: the message it is of.
ReadAs(k, u) == CHOOSE m \in ToSet(conns[k].sends) : m.id = u.id


\* The header is there: without DROP_RECV a message that does not fit is kept
\* for the next call, with it the rest is read.
WithHeader(t, m, k) ==
    LET ses == th[t].ses
        unlocked == [Sessions EXCEPT ![ses].recv = None]
    IN  IF ~Call(t).drop /\ TooShort(m, Call(t))
        THEN /\ Return(t)
             /\ Sessions' = IF th[t].saved \/ ses # SP_get_session(th[t].fd) THEN unlocked
                            ELSE [unlocked EXCEPT ![ses].saved = m]
        ELSE /\ UNCHANGED Sessions
             /\ Become(t, [th[t] EXCEPT !.pc = "body", !.m = m, !.left = Body(m), !.got = <<>>])

\* recv() would return: data, the end of the stream, or an error.
Ready(fd) == LET k == ConnOf(fd) IN k = 0 \/ (k # 0 /\ (conns[k].in # <<>> \/ ~conns[k].alive))
Broken(fd) == LET k == ConnOf(fd) IN k = 0 \/ (k # 0 /\ conns[k].in = <<>>)

ReadFails(t) == /\ Sessions' = Failed(t, [Sessions EXCEPT ![th[t].ses].recv = None])
                /\ Return(t) /\ UNCHANGED <<conns, raced>>

ReadHeader(t) ==
    LET k == ConnOf(th[t].fd)
    IN  /\ th[t].pc = "header"
        /\ \/ th[t].saved /\ WithHeader(t, th[t].m, k) /\ UNCHANGED <<conns, raced>>
           \/ /\ ~th[t].saved /\ Ready(th[t].fd)
              /\ IF Broken(th[t].fd) THEN ReadFails(t)
                 ELSE /\ conns' = [conns EXCEPT ![k].in = Tail(@)]
                      /\ Touch(t, k)
                      /\ WithHeader(t, ReadAs(k, Head(conns[k].in)), k)
        /\ UNCHANGED <<Num_sessions, app>>

ReadUnit(t) ==
    LET k == ConnOf(th[t].fd)
    IN  /\ th[t].pc = "body" /\ Len(th[t].got) < Len(th[t].left) /\ Ready(th[t].fd)
        /\ IF Broken(th[t].fd) THEN ReadFails(t)
           ELSE /\ conns' = [conns EXCEPT ![k].in = Tail(@)]
                /\ Touch(t, k)
                /\ Become(t, [th[t] EXCEPT !.got = Append(@, Head(conns[k].in))])
                /\ UNCHANGED Sessions
        /\ UNCHANGED <<Num_sessions, app>>

\* All of the message is read: a truncated one is returned at once, after any
\* other one a header that was saved is cleared.
Complete(t) ==
    LET ses == th[t].ses
        short == th[t].m.len > Call(t).len
        unlocked == [Sessions EXCEPT ![ses].recv = None]
    IN  /\ th[t].pc = "body" /\ Len(th[t].got) = Len(th[t].left)
        /\ Sessions' = IF short \/ ~th[t].saved \/ ses # SP_get_session(th[t].fd) THEN unlocked
                       ELSE [unlocked EXCEPT ![ses].saved = <<>>]
        /\ conns' = IF th[t].conn = 0 THEN conns ELSE [conns EXCEPT ![th[t].conn].returned = Append(@, th[t].m)]
        /\ Return(t) /\ UNCHANGED <<Num_sessions, app, raced>>

\* The daemon goes: what it had not sent is lost.
PeerCloses(k) ==
    /\ conns[k].alive
    /\ \E n \in 0 .. Len(conns[k].in) :
         conns' = [conns EXCEPT ![k].alive = FALSE, ![k].in = SubSeq(@, 1, n)]
    /\ UNCHANGED <<Sessions, Num_sessions, th, app, raced>>

-----------------------------------------------------------------------------
Init ==
    /\ app \in Profiles /\ raced = {}
    /\ conns = [k \in 1 .. app.open |->
                  [fd |-> k, sends |-> app.streams[k], in |-> Stream(app.streams[k]), out |-> <<>>,
                   alive |-> TRUE, returned |-> <<>>, asked |-> <<>>]]
    /\ Num_sessions = app.open
    /\ Sessions = [i \in Slots |-> IF \E k \in 1 .. app.open : MBOX_TO_BASE_SES(k) = i
                                   THEN [Free EXCEPT !.state = "ACTIVE",
                                           !.mbox = CHOOSE k \in 1 .. app.open : MBOX_TO_BASE_SES(k) = i]
                                   ELSE Free]
    /\ th = [t \in Threads |-> [Idle EXCEPT !.call = app.script[t]]]

Next ==
    \/ \E t \in Threads :
         \/ SP_connect(t) \/ connect_nointr_timeout(t) \/ CloseAgain(t) \/ Handshake(t)
         \/ SP_internal_multicast(t) \/ send_lock(t) \/ SendUnit(t) \/ SP_kill(t)
         \/ SP_scat_receive(t) \/ recv_lock(t) \/ ReadHeader(t) \/ ReadUnit(t) \/ Complete(t)
    \/ \E k \in DOMAIN conns : PeerCloses(k)

Spec == Init /\ [][Next]_vars

-----------------------------------------------------------------------------
Used == {i \in Slots : Sessions[i].state # "UNUSED"}

\* Num_sessions, and what marks a slot of the table as taken.
SessionsCounted ==
    /\ Num_sessions = Cardinality(Used)
    /\ \A i \in Slots : (i \in Used) <=> Sessions[i].mbox # None

(* The sessions are counted exactly, each has an own mailbox and is found by   *)
(* it however full the table is, and its mailbox is its open connection; every *)
(* open descriptor belongs to a session, whatever call failed.                 *)
TypeOK ==
    /\ SessionsCounted
    /\ \A i \in Used : SP_get_session(Sessions[i].mbox) = i /\ ConnOf(Sessions[i].mbox) # 0
    /\ {conns[k].fd : k \in DOMAIN conns} \ {None} = {Sessions[i].mbox : i \in Used}

(* A mutex is held only by the thread that is in a call on that session: every *)
(* early return of sending and receiving gives it back.                        *)
MutexesReleased ==
    \A i \in Slots :
        /\ Sessions[i].recv # None => th[Sessions[i].recv].pc \in {"header", "body"} /\ th[Sessions[i].recv].ses = i
        /\ Sessions[i].send # None => th[Sessions[i].send].pc = "sending" /\ th[Sessions[i].send].ses = i

(* Two threads never send, nor receive, on one slot of the table at the same   *)
(* time, even when the slot was given up and taken by another session while    *)
(* one of them was inside.                                                     *)
Exclusive ==
    \A t, u \in Threads : t # u /\ th[t].ses = th[u].ses =>
        /\ ~(th[t].pc = "sending" /\ th[u].pc = "sending")
        /\ ~(th[t].pc \in {"header", "body"} /\ th[u].pc \in {"header", "body"})

(* Receiving stays in step with the stream, for any mix of threads, of buffers *)
(* that are too short and of calls that are tried again: a header is read      *)
(* where one begins, its body is its own, and the messages are returned each   *)
(* once and in order.                                                          *)
InSync ==
    /\ \A t \in Threads : th[t].pc = "body" /\ th[t].conn \notin raced =>
         IsPrefix(th[t].got, th[t].left)
    /\ \A k \in DOMAIN conns : k \notin raced => IsPrefix(conns[k].returned, conns[k].sends)

(* The messages of concurrent senders are not mixed: what went out is whole    *)
(* messages, and at most the beginning of one more.                            *)
SentWhole ==
    \A k \in DOMAIN conns : k \notin raced =>
        LET whole == Stream(conns[k].asked)
            rest == SubSeq(conns[k].out, Len(whole) + 1, Len(conns[k].out))
        IN  /\ IsPrefix(whole, conns[k].out)
            /\ rest # <<>> => rest[1].part = "header" /\ \A i \in DOMAIN rest : rest[i].id = rest[1].id
=============================================================================
