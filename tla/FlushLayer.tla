----------------------------- MODULE FlushLayer -----------------------------
(* View synchrony above Spread (libspread/fl.c): a client gives its permission *)
(* (FL_flush) before a new view is installed, the view is installed when all   *)
(* of its members gave theirs, and a message is delivered in the view in which *)
(* it was sent.  One group; changes of it by join, leave and disconnection.    *)
(*                                                                             *)
(* Spread (SpreadGroups, SpreadSession, external here) orders all requests:    *)
(* every member sees the same membership messages with the same messages       *)
(* between them; AGREED messages come in the total order, FIFO messages of     *)
(* different senders in any order.                                             *)
EXTENDS Integers, SequencesExt, FiniteSetsExt

CONSTANTS Clients,
          Scripts,          \* what the users do: functions from Clients to sequences of calls
          FLOK_AGE_LIMIT

VARIABLES g,       \* g[c]: the fl_group of client c, or None
          user,    \* user[c]: what FL_receive returned to the user of c
          out,     \* out[c]: requests of c on their way to Spread
          inbox,   \* inbox[c]: epochs [memb, msgs], the first one is being received
          sp,      \* the Spread group: [gid, members]
          script,
          aborted

vars == <<g, user, out, inbox, sp, script, aborted>>

None == [mstate |-> "NONE"]

\* create_fl_group: a group that no view has been installed in.
create_fl_group(c) ==
    [mstate |-> "JOINING", vstate |-> "AGREE", curr |-> 0, queue |-> <<>>, pmemb |-> <<>>,
     fl |-> [gid |-> 0, orig |-> {c}, membs |-> {c}, trans |-> TRUE], recvs |-> 0, mess |-> <<>>]

\* create_sp_memb_change; pmemb maps group ids to these.
create_sp_memb_change == [recvd |-> FALSE, age |-> 0, type |-> "NONE", orig |-> {}, membs |-> {},
                          delta |-> 0, floks |-> {}]
Known(s, gid) == IF gid \in DOMAIN s.g.pmemb THEN s ELSE [s EXCEPT !.g.pmemb = (gid :> create_sp_memb_change) @@ @]
Forget(s, gid) == [s EXCEPT !.g.pmemb = Restrict(@, DOMAIN @ \ {gid})]

\* The handlers work on the state s = [g, user, out, ok] of one client.
deliver(s, m) == [s EXCEPT !.user = Append(@, m)]
Send(s, m) == [s EXCEPT !.out = Append(@, m)]
Abort(s) == [s EXCEPT !.ok = FALSE]
Event(type, gid, from) == [type |-> type, gid |-> gid, from |-> from]

deliver_trans_sig(s) == deliver([s EXCEPT !.g.fl.trans = TRUE], Event("TRANSITION", s.g.fl.gid, 0))

-----------------------------------------------------------------------------
(* Permission, and the next change to work on *)

\* FL_int_flush
FL_int_flush(s, c) ==
    IF s.g.mstate = "LEAVING" THEN deliver(s, Event("ILLEGAL_GROUP", 0, c))
    ELSE Send([s EXCEPT !.g.vstate = "AGREE"], [type |-> "FLUSH_OK", gid |-> s.g.curr, from |-> c, fifo |-> TRUE])

\* handle_next_memb_change: the user is asked, unless it agreed already.
handle_next_memb_change(s, c) ==
    LET n == [s EXCEPT !.g.curr = Head(s.g.queue), !.g.recvs = 0]
    IN  CASE s.g.vstate \in {"STEADY", "VERIFY"} ->
               deliver([n EXCEPT !.g.vstate = "AUTHORIZE"], Event("FLUSH_REQ", 0, 0))
          [] s.g.vstate = "AUTHORIZE" -> n
          [] s.g.vstate = "AGREE" -> FL_int_flush([n EXCEPT !.g.vstate = "AUTHORIZE"], c)

-----------------------------------------------------------------------------
(* FLUSH_OK and FLUSH_RECV messages *)

\* install_new_view
install_new_view(s) ==
    LET v == s.g.pmemb[s.g.curr]
    IN  deliver(s, [Event("VIEW", s.g.curr, 0) EXCEPT !.from =
                      [members |-> v.orig, type |-> v.type,
                       vs |-> IF v.type = "NETWORK" THEN s.g.fl.membs ELSE {v.delta}]])

\* update_fl_view: the view becomes the current one, its change is forgotten.
update_fl_view(s) ==
    LET v == s.g.pmemb[s.g.curr]
    IN  [Forget(s, s.g.curr) EXCEPT
            !.g.fl = [gid |-> s.g.curr, orig |-> v.orig, membs |-> v.membs, trans |-> FALSE],
            !.g.queue = Tail(@), !.g.curr = 0]

\* All permissions are there: what cascading changes, members that died and
\* messages that came early require follows at once.
Install(s, c) ==
    LET i == update_fl_view(install_new_view([s EXCEPT !.g.vstate = "VERIFY", !.g.mstate =
                                                IF @ = "JOINING" THEN "JOINED" ELSE @]))
        n == IF i.g.queue = <<>>
             THEN Send(i, [type |-> "FLUSH_RECV", gid |-> i.g.fl.gid, from |-> c, fifo |-> TRUE])
             ELSE handle_next_memb_change(i, c)
        t == IF i.g.fl.membs # i.g.fl.orig THEN deliver_trans_sig(n) ELSE n
    IN  [t EXCEPT !.user = @ \o s.g.mess, !.g.mess = <<>>]

handle_recv_flush_ok(s, c, m) ==
    LET k == Known(s, m.gid)
        r == [k EXCEPT !.g.pmemb[m.gid].floks = @ \cup {m.from}]
        v == r.g.pmemb[m.gid]
    IN  IF s.g.vstate = "AGREE" /\ m.gid = s.g.curr /\ Cardinality(v.floks) = Cardinality(v.orig)
        THEN Install(r, c) ELSE r

handle_recv_flush_recv(s, c, m) ==
    CASE s.g.vstate = "VERIFY" /\ m.gid = s.g.fl.gid ->
           [s EXCEPT !.g.recvs = @ + 1,
                     !.g.vstate = IF s.g.recvs + 1 = Cardinality(s.g.fl.orig) THEN "STEADY" ELSE @]
      [] s.g.vstate = "AGREE" /\ m.gid = s.g.curr -> [s EXCEPT !.g.recvs = @ + 1]
      [] OTHER -> s

-----------------------------------------------------------------------------
(* Messages of users *)

\* Mutant: who gave its permission gets no more messages of the old view.
handle_recv_reg_mess_closed(s, c, m) ==
    IF s.g.vstate = "AGREE" THEN IF m.vulnerable /\ m.gid = s.g.curr THEN [s EXCEPT !.g.mess = Append(@, m)] ELSE s
    ELSE IF m.from \in s.g.fl.membs THEN deliver(s, m) ELSE s

\* A message for the view that is about to be installed waits; any other is
\* delivered if its sender is a member of the current view.
handle_recv_reg_mess(s, c, m) ==
    LET next == s.g.vstate = "AGREE" /\ m.vulnerable /\ m.gid = s.g.curr
    IN  IF next THEN IF m.from \in s.g.pmemb[s.g.curr].membs THEN [s EXCEPT !.g.mess = Append(@, m)]
                     ELSE Abort(s)
        ELSE IF m.from \in s.g.fl.membs THEN deliver(s, m) ELSE s

-----------------------------------------------------------------------------
(* Membership messages *)

\* determine_leavers; m.who is the client that joined, left or disconnected.
determine_leavers(m) == IF m.type = "JOIN" THEN {} ELSE {m.who}

\* age_and_invalidate_pmembs: one change that was announced only by FLUSH_OKs goes.
age_and_invalidate_pmembs(s) ==
    LET older == [gid \in DOMAIN s.g.pmemb |-> IF s.g.pmemb[gid].recvd THEN s.g.pmemb[gid]
                                               ELSE [s.g.pmemb[gid] EXCEPT !.age = @ + 1]]
        old == {gid \in DOMAIN older : ~older[gid].recvd /\ older[gid].age > FLOK_AGE_LIMIT}
    IN  [s EXCEPT !.g.pmemb = IF old = {} THEN older ELSE Restrict(older, DOMAIN older \ {Min(old)})]

\* collapse_memberships: a pending change is void when one of its members left
\* without giving permission; the next change then stands for several and is
\* one "by the network".  k = [s, void] is the state of the loop over the queue.
CollapseOne(k, gid, leavers) ==
    LET v == k.s.g.pmemb[gid]
        dead == leavers \cap v.membs
        kept == [k.s EXCEPT !.g.pmemb[gid].membs = @ \ leavers,
                            !.g.pmemb[gid].type = IF k.void THEN "NETWORK" ELSE @]
    IN  IF dead \ v.floks # {}
        THEN [s |-> Forget([k.s EXCEPT !.g.queue = SelectSeq(@, LAMBDA x : x # gid)], gid), void |-> TRUE]
        ELSE [s |-> kept, void |-> FALSE]

collapse_memberships(s, leavers, gid) ==
    LET k == FoldLeft(LAMBDA x, q : CollapseOne(x, q, leavers), [s |-> s, void |-> FALSE], s.g.queue)
    IN  IF leavers = {} \/ s.g.queue = <<>> THEN s
        ELSE IF k.void THEN [k.s EXCEPT !.g.pmemb[gid].type = "NETWORK"] ELSE k.s

handle_recv_reg_memb_mess(s, c, m) ==
    LET e == IF s.g = None THEN [s EXCEPT !.g = create_fl_group(c)] ELSE s
        leavers == determine_leavers(m)
        k == [Known(e, m.gid) EXCEPT !.g.pmemb[m.gid].recvd = TRUE, !.g.pmemb[m.gid].type = m.type,
                                     !.g.pmemb[m.gid].delta = m.who, !.g.pmemb[m.gid].orig = m.members,
                                     !.g.pmemb[m.gid].membs = m.members, !.g.fl.membs = @ \ leavers]
        l == collapse_memberships(age_and_invalidate_pmembs(k), leavers, m.gid)
        q == [l EXCEPT !.g.queue = Append(@, m.gid)]
        n == IF q.g.curr # Head(q.g.queue) THEN handle_next_memb_change([q EXCEPT !.g.mess = <<>>], c) ELSE q
    IN  IF leavers \cap e.g.fl.membs # {} /\ ~e.g.fl.trans THEN deliver_trans_sig(n) ELSE n

handle_recv_self_leave_memb_mess(s, c) == deliver([s EXCEPT !.g = None], Event("SELF_LEAVE", 0, c))

\* recv_and_handle
recv_and_handle(s, c, m) ==
    CASE m.type \in {"JOIN", "LEAVE", "DISCONNECT"} -> handle_recv_reg_memb_mess(s, c, m)
      [] m.type = "SELF_LEAVE" -> handle_recv_self_leave_memb_mess(s, c)
      [] m.type \notin {"JOIN", "LEAVE", "DISCONNECT", "SELF_LEAVE"} /\ s.g = None -> s
      [] m.type = "FLUSH_OK" /\ s.g # None -> handle_recv_flush_ok(s, c, m)
      [] m.type = "FLUSH_RECV" /\ s.g # None -> handle_recv_flush_recv(s, c, m)
      [] m.type = "MESS" /\ s.g # None -> handle_recv_reg_mess(s, c, m)

-----------------------------------------------------------------------------
(* What a client does *)

Load(c) == [g |-> g[c], user |-> user[c], out |-> out[c], ok |-> TRUE]
Store(c, s) ==
    /\ ~aborted /\ aborted' = ~s.ok
    /\ g' = [g EXCEPT ![c] = s.g] /\ user' = [user EXCEPT ![c] = s.user] /\ out' = [out EXCEPT ![c] = s.out]

\* The next message Spread may deliver: a FIFO one after those of its sender, an
\* AGREED one in the total order, the next membership after all of them.
Deliverable(c, i) ==
    LET ms == inbox[c][1].msgs
    IN  IF ms[i].fifo THEN \A j \in 1 .. i - 1 : ms[j].from # ms[i].from ELSE i = 1

FL_receive(c) ==
    /\ inbox[c] # <<>>
    /\ LET e == inbox[c][1]
       IN  \/ \E i \in DOMAIN e.msgs :
                /\ Deliverable(c, i)
                /\ Store(c, recv_and_handle(Load(c), c, e.msgs[i]))
                /\ inbox' = [inbox EXCEPT ![c][1].msgs = RemoveAt(@, i)]
           \/ /\ e.msgs = <<>> /\ Len(inbox[c]) > 1
              /\ Store(c, recv_and_handle(Load(c), c, inbox[c][2].memb))
              /\ inbox' = [inbox EXCEPT ![c] = Tail(@)]
    /\ UNCHANGED <<sp, script>>

FL_flush(c) ==
    /\ g[c] # None /\ g[c].mstate # "LEAVING" /\ g[c].vstate = "AUTHORIZE"
    /\ Store(c, FL_int_flush(Load(c), c)) /\ UNCHANGED <<inbox, sp, script>>

Calls(c, op) == script[c] # <<>> /\ Head(script[c]) = op /\ script' = [script EXCEPT ![c] = Tail(@)]

\* Nothing is on its way.  A number n in a script: the user pauses until then, in
\* the n-th membership of the group.
Quiet == \A c \in Clients :
    /\ out[c] = <<>> /\ (inbox[c] # <<>> => Len(inbox[c]) = 1 /\ inbox[c][1].msgs = <<>>)
    /\ g[c] # None => g[c].vstate # "AUTHORIZE"
Pause(c) == Calls(c, ToString(sp.gid)) /\ Quiet /\ ~aborted /\ UNCHANGED <<g, user, out, inbox, sp, aborted>>

FL_join(c) ==
    /\ Calls(c, "join") /\ UNCHANGED <<inbox, sp>>
    /\ Store(c, IF g[c] = None THEN Send(Load(c), [type |-> "JOIN", from |-> c]) ELSE Load(c))

FL_leave(c) ==
    /\ Calls(c, "leave") /\ UNCHANGED <<inbox, sp>>
    /\ g[c] # None /\ g[c].mstate = "JOINED"
    /\ Store(c, Send([Load(c) EXCEPT !.g.mstate = "LEAVING"], [type |-> "LEAVE", from |-> c]))

FL_disconnect(c) ==
    /\ Calls(c, "disconnect") /\ UNCHANGED <<sp>>
    /\ Store(c, Send([Load(c) EXCEPT !.g = None], [type |-> "DISCONNECT", from |-> c]))
    /\ inbox' = [inbox EXCEPT ![c] = <<>>]

\* is_vulnerable_mess: others may not have installed this view yet.
is_vulnerable_mess(c, fifo) == g[c].vstate \in {"AUTHORIZE", "VERIFY"} /\ fifo

MaySend(c) == g[c] # None /\ g[c].mstate = "JOINED" /\ g[c].vstate # "AGREE"

FL_multicast(c) ==
    \E fifo \in BOOLEAN :
       /\ Calls(c, IF fifo THEN "fifo" ELSE "agreed") /\ UNCHANGED <<inbox, sp>>
       /\ MaySend(c)
       /\ Store(c, Send(Load(c), [type |-> "MESS", gid |-> g[c].fl.gid, from |-> c, fifo |-> fifo,
                                  vulnerable |-> is_vulnerable_mess(c, fifo), id |-> Len(script[c])]))

-----------------------------------------------------------------------------
(* Spread orders the requests *)

Change(m) ==
    LET members == IF m.type = "JOIN" THEN sp.members \cup {m.from} ELSE sp.members \ {m.from}
        memb == [type |-> m.type, gid |-> sp.gid + 1, who |-> m.from, members |-> members]
        self == [type |-> "SELF_LEAVE", gid |-> 0, who |-> m.from, members |-> {}]
    IN  /\ sp' = [gid |-> sp.gid + 1, members |-> members]
        /\ inbox' = [c \in Clients |->
                       CASE c \in members -> Append(inbox[c], [memb |-> memb, msgs |-> <<>>])
                         [] c = m.from /\ m.type = "LEAVE" -> Append(inbox[c], [memb |-> self, msgs |-> <<>>])
                         [] OTHER -> inbox[c]]

Order(c) ==
    /\ out[c] # <<>> /\ ~aborted /\ out' = [out EXCEPT ![c] = Tail(@)]
    /\ LET m == Head(out[c])
       IN  IF m.type \in {"JOIN", "LEAVE", "DISCONNECT"}
           THEN IF (m.type = "JOIN") = (c \in sp.members) THEN UNCHANGED <<inbox, sp>> ELSE Change(m)
           ELSE /\ UNCHANGED sp
                /\ inbox' = [d \in Clients |-> IF d \in sp.members /\ inbox[d] # <<>>
                                               THEN [inbox[d] EXCEPT ![Len(inbox[d])].msgs = Append(@, m)]
                                               ELSE inbox[d]]
    /\ UNCHANGED <<g, user, script, aborted>>

-----------------------------------------------------------------------------
Init ==
    /\ script \in Scripts /\ aborted = FALSE
    /\ g = [c \in Clients |-> None] /\ user = [c \in Clients |-> <<>>] /\ out = [c \in Clients |-> <<>>]
    /\ inbox = [c \in Clients |-> <<[memb |-> <<>>, msgs |-> <<>>]>>]
    /\ sp = [gid |-> 0, members |-> {}]

Next == \E c \in Clients : \/ FL_receive(c) \/ FL_flush(c) \/ FL_join(c) \/ FL_leave(c) \/ FL_disconnect(c)
                           \/ FL_multicast(c) \/ Pause(c) \/ Order(c)

Spec == Init /\ [][Next]_vars

-----------------------------------------------------------------------------
Views(c) == {i \in DOMAIN user[c] : user[c][i].type = "VIEW"}
ViewAt(c, i) == Max({0} \cup {j \in Views(c) : j < i})

\* The messages delivered in the view installed at place i, and the next view.
In(c, i) == {user[c][j] : j \in {k \in DOMAIN user[c] : user[c][k].type = "MESS" /\ ViewAt(c, k) = i}}
NextView(c, i) == {j \in Views(c) : ViewAt(c, j) = i}

(* A group works on a change exactly in AGREE and AUTHORIZE, on the first one  *)
(* of its queue, whose membership message is there; the pending changes are    *)
(* the known ones (the assertions of fl.c, which the build leaves out).        *)
TypeOK ==
    \A c \in Clients : g[c] # None =>
        /\ (g[c].vstate \in {"AGREE", "AUTHORIZE"}) <=> g[c].curr # 0
        /\ g[c].curr # 0 => g[c].queue # <<>> /\ g[c].curr = Head(g[c].queue)
        /\ \A i \in DOMAIN g[c].queue : g[c].queue[i] \in DOMAIN g[c].pmemb /\ g[c].pmemb[g[c].queue[i]].recvd
        /\ g[c].fl.gid \notin DOMAIN g[c].pmemb

(* View synchrony: a user gets a message in the view in which it was sent, and *)
(* no message for the next view comes from somebody who is not in it (fl.c     *)
(* gives up there).                                                            *)
SentAndDeliveredInView ==
    ~aborted /\ \A c \in Clients : \A i \in DOMAIN user[c] : user[c][i].type = "MESS" =>
        ViewAt(c, i) # 0 /\ user[c][ViewAt(c, i)].gid = user[c][i].gid

(* Two users that go from one view to the same next view got the same messages *)
(* in it.                                                                      *)
VirtualSynchrony ==
    \A c, d \in Clients : \A i \in Views(c), j \in Views(d) : user[c][i].gid = user[d][j].gid =>
        \A k \in NextView(c, i), l \in NextView(d, j) :
            user[c][k].gid = user[d][l].gid => In(c, i) = In(d, j)

(* "Only one TRANSITION_MESS is delivered per group view/membership per        *)
(* connection" (FL_receive.html), and never before the first view.             *)
OneTransition ==
    \A c \in Clients : \A i, j \in DOMAIN user[c] :
        user[c][i].type = "TRANSITION" /\ user[c][j].type = "TRANSITION" /\ ViewAt(c, i) = ViewAt(c, j)
        => i = j /\ ViewAt(c, i) # 0

(* Nobody waits for ever: when all is delivered and no permission is due, the  *)
(* members have installed the last view and know that all of them have.        *)
Converged ==
    Quiet => \A c \in sp.members : g[c].vstate = "STEADY" /\ g[c].fl.gid = sp.gid
=============================================================================
