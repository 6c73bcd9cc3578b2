---------------------------- MODULE SpreadSession ----------------------------
(* The session layer of a Spread daemon (daemon/session.c with acm.c and the   *)
(* auth-*.c methods): connections are accepted, named, authenticated, read,    *)
(* written with a bounded queue, and killed.  A session ends in two steps: its *)
(* socket is closed at once, its entry goes when the KILL message comes back   *)
(* from the ordering layer.                                                    *)
(*                                                                             *)
(* The daemon is one thread: every handler is one step.  A message is two      *)
(* units on a socket (header and body), so that reads and writes may stop in   *)
(* the middle.  Clients (libspread, in SpreadClient) dial, answer, send, read  *)
(* and go as they like.  The groups are those of this daemon alone.            *)
EXTENDS Integers, SequencesExt, FiniteSetsExt

CONSTANTS Clients,      \* connections
          Profiles,     \* what they are: a set of functions from Clients to records
                        \* [name, hello, old, methods, ip, password, script], name 0 for none
          Fds,          \* descriptors the daemon can have, 1 .. n
          MaxSessions, MaxMess, SockBuf, LocalLimit,
          Allowed, Required,   \* authentication methods that are enabled, and required
          Denied,       \* requests <<type, group>> the access control policy refuses
          GroupNames,
          RemoteMsgs    \* messages that clients of other daemons send

VARIABLES s,       \* the state of the daemon, its sockets included
          who,     \* the profile of every client
          due,     \* due[c]: the messages Sess_write was given for client c
          remote   \* messages from other daemons that are left

vars == <<s, who, due, remote>>

Nobody == 0
Exit(r) == [r EXCEPT !.exit = TRUE]
Units(m) == <<[m |-> m, part |-> "head"], [m |-> m, part |-> "body"]>>
Flat(ms) == FlattenSeq([i \in DOMAIN ms |-> Units(ms[i])])

-----------------------------------------------------------------------------
(* The list of sessions, ordered by name, and the hash of descriptors *)

\* The newest session with this descriptor.
Sess_get_session_index(r, fd) == IF r.hash[fd] = <<>> THEN Nobody ELSE Head(r.hash[fd])

Sess_get_session(r, name) ==
    IF \E i \in DOMAIN r.list : who[r.list[i]].name = name
    THEN r.list[CHOOSE i \in DOMAIN r.list : who[r.list[i]].name = name] ELSE Nobody

Sess_hash_session(r, c) == [r EXCEPT !.hash[r.ses[c].mbox] = <<c>> \o @]
Sess_unhash_session(r, c) == [r EXCEPT !.hash[r.ses[c].mbox] = SelectSeq(@, LAMBDA x : x # c)]

Sess_insert_new_session(r, c) ==
    LET before == SelectSeq(r.list, LAMBDA x : who[x].name < who[c].name)
        after == SelectSeq(r.list, LAMBDA x : who[x].name >= who[c].name)
    IN  IF r.free = 0 THEN Exit(r)
        ELSE [r EXCEPT !.list = before \o <<c>> \o after, !.free = @ - 1]

Sess_remove_session(r, c) == [r EXCEPT !.list = SelectSeq(@, LAMBDA x : x # c), !.free = @ + 1]

\* close(): the client sees the end of the stream, the descriptor is free.
Close(r, c) == [r EXCEPT !.sock[c].fd = 0, !.sock[c].state = IF @ = "up" THEN "shut" ELSE @]

\* A short blocking send to a client.
Reply(r, c, answer) ==
    IF r.sock[c].state = "up" THEN [r EXCEPT !.sock[c].answer = Append(@, answer)] ELSE r

-----------------------------------------------------------------------------
(* Writing *)

Room(r, c) == IF r.sock[c].state = "up" THEN SockBuf - Len(r.sock[c].buf) ELSE 0
LeftOver(r, c) == SubSeq(Flat(r.ses[c].q), r.ses[c].sent + 1, 2 * Len(r.ses[c].q))

Sess_badger(r, fd) ==
    LET c == Sess_get_session_index(r, fd)
        k == Min({Room(r, c), Len(LeftOver(r, c))})
        n == r.ses[c].sent + k
    IN  IF c = Nobody THEN r
        ELSE IF r.ses[c].status # "op" \/ r.ses[c].q = <<>> THEN r
        ELSE [r EXCEPT !.sock[c].buf = @ \o SubSeq(LeftOver(r, c), 1, k),
                       !.ses[c].q = SubSeq(@, n \div 2 + 1, Len(@)), !.ses[c].sent = n % 2]

\* The socket is closed and the queue freed; the entry stays until KILL comes back.
Shut(r, c) ==
    [Close(r, c) EXCEPT !.ses[c].q = <<>>, !.ses[c].sent = 0, !.ses[c].inHead = TRUE,
                        !.ses[c].status = "dead"]

Kill(c) == [type |-> "KILL", group |-> 0, from |-> c, discard |-> FALSE]

Sess_kill(r, fd) ==
    LET c == Sess_get_session_index(r, fd)
    IN  IF c = Nobody THEN r
        ELSE IF r.ses[c].status = "preauth" THEN Exit(r)
        ELSE Shut([r EXCEPT !.down = Append(@, Kill(c))], c)

\* A client that does not read is killed; else what the socket takes is sent.
Sess_write(r, c, m) ==
    LET fd == r.ses[c].mbox
        b == Sess_badger(r, fd)
        k == Min({2, Room(b, c)})
        sent == [b EXCEPT !.sock[c].buf = @ \o SubSeq(Units(m), 1, k),
                          !.ses[c].q = IF k = 2 THEN @ ELSE <<m>>,
                          !.ses[c].sent = IF k = 2 THEN 0 ELSE k]
    IN  IF c = Nobody THEN Exit(r)
        ELSE IF r.ses[c].status # "op" THEN r
        ELSE IF Len(r.ses[c].q) >= MaxMess THEN Sess_kill(r, fd)
        ELSE [(IF b.ses[c].q = <<>> THEN sent ELSE [b EXCEPT !.ses[c].q = Append(@, m)])
                EXCEPT !.given = Append(@, <<c, m>>)]

-----------------------------------------------------------------------------
(* Groups of this daemon, as far as they keep mailboxes *)

Notice(type, g, c) == [type |-> type, group |-> g, from |-> c, discard |-> FALSE]
WriteAll(r, cs, m) == FoldLeft(LAMBDA x, c : Sess_write(x, c, m), r, cs)
Targets(r, g) == [i \in DOMAIN r.Groups[g].mboxes |-> Sess_get_session_index(r, r.Groups[g].mboxes[i])]

G_analize_groups(r, m) == IF m.group \in GroupNames THEN Targets(r, m.group) ELSE <<m.group>>

G_handle_join(r, c, g) ==
    LET j == [r EXCEPT !.Groups[g].members = @ \cup {c},
                       !.Groups[g].mboxes = Append(@, r.ses[c].mbox)]
    IN  IF c \in r.Groups[g].members THEN r
        ELSE IF Sess_get_session(r, who[c].name) = Nobody THEN Exit(r)
        ELSE WriteAll(j, Targets(j, g), Notice("JOINED", g, c))

G_remove_mailbox(r, g, fd) ==
    LET boxes == r.Groups[g].mboxes
        i == SelectInSeq(boxes, LAMBDA x : x = fd)
    IN  IF i = 0 THEN Exit(r) ELSE [r EXCEPT !.Groups[g].mboxes =
                                      Front([boxes EXCEPT ![i] = Last(boxes)])]


Depart(r, c, g, type) ==
    LET l == G_remove_mailbox([r EXCEPT !.Groups[g].members = @ \ {c}], g, r.ses[c].mbox)
    IN  WriteAll(l, Targets(l, g), Notice(type, g, c))

G_handle_leave(r, c, g) ==
    IF c \notin r.Groups[g].members THEN r
    ELSE Depart(Sess_write(r, c, Notice("SELF_LEAVE", g, c)), c, g, "LEFT")

G_handle_kill(r, c) ==
    FoldSet(LAMBDA g, x : Depart(x, c, g, "GONE"), r, {g \in GroupNames : c \in r.Groups[g].members})

-----------------------------------------------------------------------------
(* Delivery *)

Sess_handle_kill(r, c) ==
    LET k == G_handle_kill(r, c)
        x == Sess_get_session(k, who[c].name)
    IN  IF x = Nobody THEN k
        ELSE IF k.ses[x].status = "op" THEN Exit(k)
        ELSE [Sess_remove_session(Sess_unhash_session(k, x), x)
                EXCEPT !.num = @ - 1, !.ses[x].status = "none"]

\* A reject goes to its sender, a message to the sessions of its group; the
\* sender of a SELF_DISCARD message does not get it.
DeliverRegular(r, m) ==
    LET to == IF m.type = "REJECT" THEN <<Sess_get_session(r, who[m.from].name)>> ELSE G_analize_groups(r, m)
        source == IF m.discard /\ m.from # Nobody THEN Sess_get_session(r, who[m.from].name) ELSE Nobody
    IN  WriteAll(r, SelectSeq(to, LAMBDA c : ~m.discard \/ c # source), m)

Sess_deliver_message(r, m) ==
    CASE m.type = "JOIN" -> G_handle_join(r, m.from, m.group)
      [] m.type = "LEAVE" -> G_handle_leave(r, m.from, m.group)
      [] m.type = "KILL" -> Sess_handle_kill(r, m.from)
      [] m.type \in {"DATA", "REJECT"} -> DeliverRegular(r, m)

\* What the ghost due[] records of a step.
Commit(r) ==
    /\ ~s.exit
    /\ s' = [r EXCEPT !.given = <<>>]
    /\ due' = [c \in Clients |-> due[c] \o
                 LET mine == SelectSeq(r.given, LAMBDA x : x[1] = c)
                 IN  [i \in DOMAIN mine |-> mine[i][2]]]
    /\ UNCHANGED who

-----------------------------------------------------------------------------
(* Accepting a connection *)

\* The descriptors that are not open; a dead session may still name one of them.
FreeFds == {f \in Fds : \A c \in Clients : s.sock[c].fd # f}

\* The accepted socket waits in the one slot Sessions[MAX_SESSIONS], and nobody
\* else is accepted meanwhile.
Sess_accept(c) ==
    LET fd == Min(FreeFds)
        r == [s EXCEPT !.sock[c].state = "up", !.sock[c].fd = fd]
        i == Sess_get_session_index(s, fd)
    IN  /\ s.slot = Nobody /\ s.sock[c].state = "dialing" /\ FreeFds # {}
        /\ Commit(IF s.num = MaxSessions THEN Close(Reply(r, c, "REJECT_QUOTA"), c)
                  ELSE IF i # Nobody /\ s.ses[i].status = "op" THEN Exit(r)
                  ELSE [r EXCEPT !.slot = c])
        /\ UNCHANGED remote

Sess_session_denied(r, c) ==
    IF r.ses[c].status # "preauth" THEN Exit(r)
    ELSE [Sess_remove_session(Sess_unhash_session(Close(Reply(r, c, "REJECT_AUTH"), c), c), c)
            EXCEPT !.num = @ - 1, !.ses[c].status = "none", !.ses[c].wait = "nothing"]

Sess_session_authorized(r, c) ==
    IF r.ses[c].status # "preauth" THEN Exit(r)
    ELSE [Reply(r, c, "ACCEPT") EXCEPT !.ses[c].status = "op", !.ses[c].wait = "nothing",
                                       !.ses[c].inHead = TRUE]

\* The methods still to be passed; PWORD waits for the client, the others answer
\* at once.  A failed one denies the session when all have answered.
Sess_session_report_auth_result(r, c, todo, ok) ==
    IF todo = <<>> THEN IF ok THEN Sess_session_authorized(r, c) ELSE Sess_session_denied(r, c)
    ELSE [r EXCEPT !.ses[c].wait = "password", !.ses[c].todo = Tail(todo), !.ses[c].ok = ok]

Answer(c, method) == IF method = "IP" THEN who[c].ip ELSE TRUE
auth_client_connection(r, c, methods, ok) ==
    LET n == SelectInSeq(methods, LAMBDA x : x = "PWORD")
        now == IF n = 0 THEN methods ELSE SubSeq(methods, 1, n - 1)
    IN  Sess_session_report_auth_result(r, c, SubSeq(methods, Len(now) + 1, Len(methods)),
                                        ok /\ \A i \in DOMAIN now : Answer(c, now[i]))

\* The connect message is there, or a second has passed.
Sess_accept_continue ==
    LET c == s.slot
        r == [s EXCEPT !.slot = Nobody, !.sock[c].in = IF @ = <<>> THEN @ ELSE Tail(@)]
        w == who[c]
        fresh == [name |-> w.name, mbox |-> s.sock[c].fd, status |-> "preauth", q |-> <<>>, sent |-> 0,
                  inHead |-> TRUE, wait |-> "nothing", todo |-> <<>>, ok |-> TRUE, msg |-> <<>>]
        n == Sess_hash_session([Sess_insert_new_session(r, c) EXCEPT !.num = @ + 1, !.ses[c] = fresh], c)
    IN  /\ c # Nobody
        /\ Commit(CASE s.sock[c].in = <<>> -> Close(r, c)
                    [] s.sock[c].in # <<>> /\ w.hello # "legal" -> Close(Reply(r, c, w.hello), c)
                    [] s.sock[c].in # <<>> /\ w.hello = "legal" ->
                         IF Sess_get_session(r, w.name) # Nobody
                         THEN Close(Reply(r, c, "REJECT_NOT_UNIQUE"), c)
                         ELSE IF w.old
                         THEN IF "IP" \in Allowed THEN auth_client_connection(n, c, <<"IP">>, TRUE)
                              ELSE IF "NULL" \in Allowed THEN Sess_session_authorized(n, c)
                              ELSE Sess_session_denied(n, c)
                         ELSE IF Allowed = {} THEN Sess_session_denied(n, c)
                         ELSE [Reply(n, c, "LIST") EXCEPT !.ses[c].wait = "auth"])
        /\ UNCHANGED remote

\* Acm_auth_create_sess_info: the methods the client asks for, then the required ones.
Acm_auth_create_sess_info(c) ==
    who[c].methods \o SetToSeq(Required \ ToSet(who[c].methods))

Readable(c) == s.sock[c].in # <<>> \/ s.sock[c].state = "gone"

Sess_recv_client_auth(c) ==
    LET r == [s EXCEPT !.sock[c].in = IF @ = <<>> THEN @ ELSE Tail(@), !.ses[c].wait = "nothing"]
    IN  /\ s.ses[c].wait = "auth" /\ Readable(c)
        /\ Commit(IF s.sock[c].in = <<>> \/ who[c].methods = <<>>
                     \/ ~(ToSet(who[c].methods) \subseteq Allowed)
                  THEN Sess_session_denied(r, c)
                  ELSE auth_client_connection(r, c, Acm_auth_create_sess_info(c), TRUE))
        /\ UNCHANGED remote

auth_client_conn_read(c) ==
    LET r == [s EXCEPT !.sock[c].in = IF @ = <<>> THEN @ ELSE Tail(@), !.ses[c].wait = "nothing"]
        ok == s.sock[c].in # <<>> /\ who[c].password
    IN  /\ s.ses[c].wait = "password" /\ Readable(c)
        /\ Commit(auth_client_connection(r, c, s.ses[c].todo, s.ses[c].ok /\ ok))
        /\ UNCHANGED remote

-----------------------------------------------------------------------------
(* Reading *)

Reject(m) == [m EXCEPT !.type = "REJECT"]

\* A whole message: access control, then the ordering layer.
Accepted(r, c, m) ==
    LET full == m.type = "JOIN" /\ Len(r.Groups[m.group].mboxes) = LocalLimit
        k == IF m.type = "KILL" THEN Shut(r, c) ELSE r
    IN  IF m.type # "KILL" /\ (full \/ <<m.type, m.group>> \in Denied)
        THEN Sess_deliver_message(r, Reject(m))
        ELSE [k EXCEPT !.down = Append(@, m)]

\* Sess_validate_read_header: one type, the own name, sane sizes.
Sess_validate_read_header(c, m) == m.from = c

ReadBody(r, c) ==
    IF r.sock[c].in = <<>>
    THEN IF r.sock[c].state = "gone" THEN Sess_kill(r, r.ses[c].mbox) ELSE r
    ELSE Accepted([r EXCEPT !.sock[c].in = Tail(@), !.ses[c].inHead = TRUE], c, Head(r.sock[c].in).m)

Sess_read(c) ==
    LET h == Head(s.sock[c].in)
        r == [s EXCEPT !.sock[c].in = Tail(@), !.ses[c].inHead = FALSE]
    IN  /\ s.ses[c].status = "op" /\ Readable(c)
        /\ Commit(IF ~s.ses[c].inHead THEN ReadBody(s, c)
                  ELSE IF s.sock[c].in = <<>> THEN Sess_kill(s, s.ses[c].mbox)
                  ELSE IF Sess_validate_read_header(c, h.m) THEN ReadBody(r, c)
                  ELSE Sess_kill(r, s.ses[c].mbox))
        /\ UNCHANGED remote

\* Sess_badger_TO and Sess_badger_FD
Badger(c) ==
    /\ s.ses[c].status = "op" /\ s.ses[c].q # <<>> /\ Room(s, c) > 0
    /\ Commit(Sess_badger(s, s.ses[c].mbox)) /\ UNCHANGED remote

\* The ordering layer delivers what this daemon sent, in order, and what others send.
Deliver ==
    \/ /\ s.down # <<>>
       /\ Commit(Sess_deliver_message([s EXCEPT !.down = Tail(@)], Head(s.down)))
       /\ UNCHANGED remote
    \/ /\ remote > 0 /\ remote' = remote - 1
       /\ \E g \in GroupNames :
            Commit(Sess_deliver_message(s, [type |-> "DATA", group |-> g, from |-> Nobody, discard |-> FALSE]))

-----------------------------------------------------------------------------
(* The clients *)

Sock(c, r) == ~s.exit /\ s' = [s EXCEPT !.sock[c] = r] /\ UNCHANGED <<who, due, remote>>
k(c) == s.sock[c]

\* SP_connect: dial and send the connect message, which may come late.
Dial(c) == k(c).state = "idle" /\ who[c].name # Nobody /\ Sock(c, [k(c) EXCEPT !.state = "dialing"])
Hello(c) == /\ k(c).state \in {"dialing", "up"} /\ k(c).hello
            /\ Sock(c, [k(c) EXCEPT !.in = Append(@, "hello"), !.hello = FALSE])

\* The list of methods is answered, with a password if one of them needs it.
AnswerList(c) ==
    /\ k(c).state = "up" /\ k(c).answer = <<"LIST">>
    /\ Sock(c, [k(c) EXCEPT !.answer = <<"LIST", "sent">>,
                            !.in = @ \o IF "PWORD" \in ToSet(Acm_auth_create_sess_info(c))
                                        THEN <<"auth", "password">> ELSE <<"auth">>])

SendUnit(c) ==
    LET m == Head(k(c).script)
        all == Units([m EXCEPT !.from = IF @ = Nobody THEN c ELSE @])
    IN  /\ k(c).state = "up" /\ k(c).answer # <<>> /\ Last(k(c).answer) = "ACCEPT" /\ k(c).script # <<>>
        /\ Sock(c, IF k(c).half
                   THEN [k(c) EXCEPT !.in = Append(@, all[2]), !.half = FALSE, !.script = Tail(@)]
                   ELSE [k(c) EXCEPT !.in = Append(@, all[1]), !.half = TRUE])

ReadUnit(c) == /\ k(c).state \in {"up", "shut"} /\ k(c).buf # <<>>
               /\ Sock(c, [k(c) EXCEPT !.buf = Tail(@), !.got = Append(@, Head(k(c).buf))])

Leave(c) == k(c).state = "up" /\ Sock(c, [k(c) EXCEPT !.state = "gone", !.buf = <<>>])

-----------------------------------------------------------------------------
Init ==
    /\ who \in Profiles
    /\ due = [c \in Clients |-> <<>>] /\ remote = RemoteMsgs
    /\ s = [exit |-> FALSE, slot |-> Nobody, list |-> <<>>, hash |-> [f \in Fds |-> <<>>],
            num |-> 0, free |-> MaxSessions, down |-> <<>>, given |-> <<>>,
            Groups |-> [g \in GroupNames |-> [members |-> {}, mboxes |-> <<>>]],
            ses |-> [c \in Clients |-> [status |-> "none", mbox |-> 0, q |-> <<>>, sent |-> 0, wait |-> "nothing"]],
            sock |-> [c \in Clients |-> [state |-> "idle", fd |-> 0, in |-> <<>>, buf |-> <<>>, got |-> <<>>,
                                         answer |-> <<>>, hello |-> TRUE, half |-> FALSE,
                                         script |-> who[c].script]]]

Next ==
    \/ Sess_accept_continue \/ Deliver
    \/ \E c \in Clients :
         \/ Sess_accept(c) \/ Sess_recv_client_auth(c) \/ auth_client_conn_read(c)
         \/ Sess_read(c) \/ Badger(c)
         \/ Dial(c) \/ Hello(c) \/ AnswerList(c) \/ SendUnit(c) \/ ReadUnit(c) \/ Leave(c)

Spec == Init /\ [][Next]_vars

-----------------------------------------------------------------------------
Entries == ToSet(s.list)

(* The list is ordered by name without duplicates, every entry of it is in the *)
(* hash under its descriptor and nothing else is, and the entries that are     *)
(* free and in use are counted exactly, so the free list never runs dry.       *)
TypeOK ==
    /\ \A i, j \in DOMAIN s.list : i < j => who[s.list[i]].name < who[s.list[j]].name
    /\ \A c \in Clients, f \in Fds :
         (c \in ToSet(s.hash[f])) <=> (c \in Entries /\ s.ses[c].mbox = f)
    /\ \A c \in Clients : c \in Entries <=> s.ses[c].status \in {"preauth", "op", "dead"}
    /\ s.num = Len(s.list) /\ s.num + s.free = MaxSessions /\ s.num <= MaxSessions

(* The exits and impossible cases of session.c and groups.c: a descriptor that *)
(* is in use is not accepted, no session is authorized, denied or killed in    *)
(* the wrong state, no KILL finds a session that is operational, no mailbox is *)
(* missing from its group and none of them names nobody.                       *)
NoExit == ~s.exit

(* No message is lost, doubled, torn or reordered on its way into a socket,    *)
(* whatever the socket took of each write: what the client read, what is in    *)
(* the socket and what is queued is what the session was given, in order.      *)
QueueExact ==
    \A c \in Clients : s.ses[c].status = "op" /\ s.sock[c].state = "up" =>
        s.sock[c].got \o s.sock[c].buf \o LeftOver(s, c) = Flat(due[c])

(* Every member of a group has its session, and the mailboxes of a group are   *)
(* those of its members, without duplicates although descriptors are used      *)
(* again while a dead session still names them ("NOTE: the following code      *)
(* assumes that grp->mboxes contains no duplicates", G_analize_groups).        *)
MailboxesOfMembers ==
    \A g \in GroupNames :
        /\ s.Groups[g].members \subseteq Entries
        /\ Len(s.Groups[g].mboxes) = Cardinality(s.Groups[g].members)
        /\ ToSet(s.Groups[g].mboxes) = {s.ses[c].mbox : c \in s.Groups[g].members}
        /\ IsInjective(s.Groups[g].mboxes)

=============================================================================
