---------------------------- MODULE SpreadGroups ----------------------------
(* The group layer of Spread (daemon/groups.c): which clients are members of   *)
(* which group, at every daemon, across joins, leaves, disconnections and      *)
(* memberships of daemons that partition, merge and cascade.                   *)
(*                                                                             *)
(* In a membership that only loses daemons every daemon computes the new groups*)
(* alone.  After a merge the daemons that were together (a synced set) send    *)
(* their groups once, through a leader, in GROUPS messages; a daemon that has  *)
(* the messages of all synced sets merges them and notifies its clients.  The  *)
(* exchange may be cut by the next membership (state GGT).                     *)
(*                                                                             *)
(* The ordering layer below is the service SpreadProtocol describes: a ring    *)
(* has one order of messages, and the daemons that leave a ring together       *)
(* deliver the same messages of it, before and after the same transitional     *)
(* signal.  Discard_packets calls the handlers of a whole membership change    *)
(* in one go, so Install is one step.                                          *)
EXTENDS SpreadConf, Integers, SequencesExt, FiniteSetsExt

CONSTANTS GroupNames,     \* names of the groups
          Members,        \* clients (private groups)
          HomeOf,         \* the daemon each of them is connected to
          Starts,         \* [rings, groups, script, forms]: the memberships and groups of the
                          \* first state, what the clients of a daemon will ask for, and the
                          \* daemon memberships that may follow, one set of candidates for each
          BufDaemons      \* entries that fit into one GROUPS message

ASSUME GroupsAssumption ==
    /\ HomeOf \in [Members -> Procs]
    /\ BufDaemons \in Nat \ {0}

VARIABLES d,       \* d[p]: the static variables of daemon p, and what its clients were told
          ring,    \* ring[i]: the daemons of membership i
          todo,    \* the candidates for the memberships that are left
          order,   \* order[i]: the messages of membership i in their agreed order
          cut,     \* cut[i][j]: what the daemons that come from ring j to ring i deliver of j
          at       \* at[p]: the membership of p, how far it delivered, the one it forms

vars == <<d, ring, todo, order, cut, at>>

Unknown == <<0, 0>>                   \* unknown_memb_id
RegId(i) == <<Conf_leader(ring[i]), 2 * i + 1>>
TransId(T, i) == <<Conf_leader(T), 2 * i>>

Put(f, k, v) == [x \in DOMAIN f \cup {k} |-> IF x = k THEN v ELSE f[x]]
Without(f, S) == [x \in DOMAIN f \ S |-> f[x]]
Exit(r) == [r EXCEPT !.Gstate = "EXIT"]

-----------------------------------------------------------------------------
(* One group at one daemon: id, changed, dmns (the daemons with members of it, *)
(* each with its members and a membership id) and mboxes (the local members).  *)

MembersOf(g) == UNION {g.dmns[q].members : q \in DOMAIN g.dmns}
Established(g) == {q \in DOMAIN g.dmns : g.dmns[q].memb # Unknown}

\* Everybody who is not partitioned gets the membership id of the group.
G_update_daemon_memb_ids(g) ==
    [g EXCEPT !.dmns = [q \in DOMAIN @ |->
        IF q \in Established(g) THEN [@[q] EXCEPT !.memb = g.id.memb] ELSE @[q]]]

\* Mutant: everybody who is not partitioned came together.
VsSetEstablished(g, p) == UNION {g.dmns[q].members : q \in Established(g) \cup {p}}

\* The members that came with the members of daemon p (G_build_memb_vs_buf).
VsSet(g, p) ==
    LET with == {q \in DOMAIN g.dmns : g.dmns[q].memb = g.dmns[p].memb}
    IN  UNION {g.dmns[q].members : q \in IF g.dmns[p].memb = Unknown THEN {p} ELSE with}

Tell(r, who, Event(_)) ==
    [r EXCEPT !.log = [m \in DOMAIN @ |-> IF m \in who \cap r.op THEN Append(@[m], Event(m)) ELSE @[m]]]

G_send_lightweight_memb(r, name, caused, m) ==
    LET g == r.Groups[name]
    IN  Tell(r, g.mboxes, LAMBDA x : [type |-> caused, group |-> name, id |-> g.id,
                                      members |-> MembersOf(g), vs |-> {m}])

G_send_self_leave(r, name, m) ==
    Tell(r, {m}, LAMBDA x : [type |-> "SELF_LEAVE", group |-> name, id |-> [memb |-> Unknown, index |-> 0],
                             members |-> {}, vs |-> {}])

\* A joiner is alone in its vs set.
G_send_heavyweight_join(r, name, joiner) ==
    LET g == r.Groups[name]
    IN  Tell(r, g.mboxes, LAMBDA x : [type |-> "NETWORK", group |-> name, id |-> g.id,
                                      members |-> MembersOf(g),
                                      vs |-> IF x \in joiner THEN joiner ELSE VsSet(g, r.me) \ joiner])
G_send_heavyweight_memb(r, name) == G_send_heavyweight_join(r, name, {})

G_send_trans_memb(r, name) ==
    LET g == r.Groups[name]
    IN  Tell(r, g.mboxes, LAMBDA x : [type |-> "TRANS", group |-> name, id |-> g.id,
                                      members |-> {}, vs |-> {}])

\* An empty group is discarded; it must have no mailbox left.
G_remove_group(r, name) ==
    IF r.Groups[name].mboxes # {} THEN Exit(r) ELSE [r EXCEPT !.Groups = Without(@, {name})]
SetGroup(r, name, g) == [r EXCEPT !.Groups = Put(@, name, g)]

\* Daemons that are partitioned (in GGT: that are not in Trans) leave the group.
G_eliminate_partitioned_daemons(r, g) ==
    [g EXCEPT !.dmns = Without(@, IF r.Gstate = "GGT" THEN DOMAIN g.dmns \ r.Trans
                                  ELSE DOMAIN g.dmns \ Established(g))]

\* A loop over GroupsList.
ForGroups(r, names, Op(_, _)) == FoldSet(LAMBDA n, x : Op(x, n), r, names \cap DOMAIN r.Groups)

-----------------------------------------------------------------------------
(* Joins, leaves and disconnections *)

\* What the local members hear after a join, leave or kill, by the group's state.
Announce(r, name, caused, m, joiner) ==
    IF r.Groups[name].mboxes = {} THEN r
    ELSE IF r.Groups[name].changed
    THEN G_send_trans_memb(G_send_heavyweight_join(r, name, joiner), name)
    ELSE G_send_lightweight_memb(r, name, caused, m)


G_handle_join(r, m, name) ==
    LET p == HomeOf[m]
        new == [id |-> [memb |-> IF r.Gstate = "GOP" THEN r.RegId ELSE r.TransId, index |-> 0],
                changed |-> FALSE, dmns |-> <<>>, mboxes |-> {}]
        g == IF name \in DOMAIN r.Groups THEN r.Groups[name] ELSE new
        dmn == IF p \in DOMAIN g.dmns THEN g.dmns[p]
               ELSE [memb |-> IF r.Gstate = "GOP" \/ p \in r.Trans THEN g.id.memb ELSE Unknown,
                     members |-> {}]
        h == [g EXCEPT !.dmns = Put(@, p, [dmn EXCEPT !.members = @ \cup {m}]),
                       !.id.index = @ + 1,
                       !.mboxes = IF p = r.me THEN @ \cup {m} ELSE @,
                       !.changed = @ \/ dmn.memb = Unknown]
    IN  IF r.Gstate \notin {"GOP", "GTRANS"} THEN Exit(r)
        ELSE IF m \in dmn.members THEN r
        ELSE IF p = r.me /\ m \notin r.sessions THEN Exit(r)
        ELSE Announce(SetGroup(r, name, h), name, "JOIN", m, {m})

\* A member leaves the group: its daemon and the group go with the last one.
Extract(r, name, caused, m) ==
    LET g == r.Groups[name]
        p == HomeOf[m]
        rest == g.dmns[p].members \ {m}
        h == [g EXCEPT !.dmns = IF rest = {} THEN Without(@, {p})
                                ELSE [@ EXCEPT ![p].members = rest],
                       !.mboxes = @ \ {m}]
    IN  IF p = r.me /\ m \notin g.mboxes THEN Exit(r)
        ELSE IF MembersOf(h) = {} THEN G_remove_group(SetGroup(r, name, h), name)
        ELSE Announce(SetGroup(r, name, [h EXCEPT !.id.index = @ + 1]), name, caused, m, {})

IsMember(r, name, m) ==
    /\ name \in DOMAIN r.Groups
    /\ HomeOf[m] \in DOMAIN r.Groups[name].dmns
    /\ m \in r.Groups[name].dmns[HomeOf[m]].members

G_handle_leave(r, m, name) ==
    IF r.Gstate \notin {"GOP", "GTRANS"} THEN Exit(r)
    ELSE IF ~IsMember(r, name, m) THEN r
    ELSE IF HomeOf[m] = r.me /\ m \notin r.sessions THEN Exit(r)
    ELSE Extract(IF HomeOf[m] = r.me THEN G_send_self_leave(r, name, m) ELSE r, name, "LEAVE", m)

G_handle_kill(r, m) ==
    IF r.Gstate \notin {"GOP", "GTRANS"} THEN Exit(r)
    ELSE ForGroups(r, {n \in GroupNames : IsMember(r, n, m)},
                   LAMBDA x, n : Extract(x, n, "DISCONNECT", m))

\* Sess_handle_kill: the session ends with its kill message.
Sess_handle_kill(r, m) ==
    LET s == G_handle_kill(r, m)
    IN  [s EXCEPT !.sessions = @ \ {m}]

\* A message of a client goes to the mailboxes of its group.
G_analize_groups(r, name, k) ==
    IF name \notin DOMAIN r.Groups THEN r
    ELSE IF r.Gstate \notin {"GOP", "GTRANS"} THEN Exit(r)
    ELSE Tell(r, r.Groups[name].mboxes,
              LAMBDA x : [type |-> "DATA", group |-> name, id |-> [memb |-> k.memb, index |-> 0],
                          members |-> {k.from}, vs |-> {}])

-----------------------------------------------------------------------------
(* The exchange of GROUPS messages *)

Leader(s) == Conf_leader(s)
Is_synced_set_leader(r, p) == p = Leader(r.SyncedSet)

\* The groups in order, each daemon's members of a group together, cut into
\* buffers; the first buffer names the synced set and is sent last.
G_build_new_groups_bufs(r) ==
    LET Entry(n, q) == [group |-> n, id |-> r.Groups[n].id, changed |-> r.Groups[n].changed,
                        proc |-> q, members |-> r.Groups[n].dmns[q].members]
        infos == UNION {{Entry(n, q) : q \in DOMAIN r.Groups[n].dmns} : n \in DOMAIN r.Groups}
        all == SetToSortSeq(infos, LAMBDA a, b : a.group < b.group
                                                 \/ (a.group = b.group /\ a.proc < b.proc))
        num == Max({1, (Len(all) + BufDaemons - 1) \div BufDaemons})
        Buf(i) == [memb |-> r.RegId, first |-> i = 1, sset |-> IF i = 1 THEN r.SyncedSet ELSE {},
                   entries |-> SubSeq(all, (i - 1) * BufDaemons + 1,
                                      IF i = num THEN Len(all) ELSE i * BufDaemons)]
    IN  [i \in 1 .. num |-> Buf(num + 1 - i)]

G_stamp_groups_bufs(r) == [i \in DOMAIN r.bufs |-> [r.bufs[i] EXCEPT !.memb = r.RegId]]

\* The last message of a synced set is AGREED and counts its daemons.
G_send_groups_messages(r) ==
    [r EXCEPT !.control = @ \o
        [i \in DOMAIN r.bufs |-> [type |-> "GROUPS", from |-> r.me, buf |-> r.bufs[i],
                                  agreed |-> i = Len(r.bufs),
                                  size |-> Cardinality(r.SyncedSet)]]]

\* One daemon's members of one group are put into GroupsList.
AddEntry(r, e) ==
    LET old == IF e.group \in DOMAIN r.Groups THEN r.Groups[e.group]
               ELSE [id |-> e.id, changed |-> FALSE, dmns |-> <<>>, mboxes |-> {}]
    IN  SetGroup(r, e.group,
          [old EXCEPT !.dmns = Put(@, e.proc, [memb |-> e.id.memb, members |-> e.members]),
                      !.changed = @ \/ e.changed \/ e.id.memb # old.id.memb])

G_mess_to_groups(r, k) == FoldLeft(AddEntry, r, k.buf.entries)

G_add_to_synced_set(r, s) ==
    IF s \cap r.SyncedSet # {} THEN Exit(r) ELSE [r EXCEPT !.SyncedSet = @ \cup s]

\* The messages of other synced sets that are there enter GroupsList.
MergeGathered(r, reps) ==
    FoldSet(LAMBDA q, x :
              LET ms == r.Gathered[q].msgs
              IN  G_add_to_synced_set(FoldLeft(G_mess_to_groups, x, ms),
                                      UNION {ms[i].buf.sset : i \in DOMAIN ms}),
            r, reps)

ResetGathered(r) == [r EXCEPT !.Gathered = <<>>, !.complete = FALSE, !.num = 0]

\* Mutant: a changed group without local members keeps its id.
G_compute_and_notify_local(r) ==
    LET all == MergeGathered(r, DOMAIN r.Gathered)
        Renew(x, n) ==
          LET g == [x.Groups[n] EXCEPT !.id = [memb |-> x.RegId, index |-> 1], !.changed = FALSE]
              y == SetGroup(x, n, g)
              told == IF g.mboxes = {} THEN y ELSE G_send_heavyweight_memb(y, n)
          IN  SetGroup(told, n, G_update_daemon_memb_ids(g))
    IN  [ResetGathered(ForGroups(all, {n \in DOMAIN all.Groups : all.Groups[n].changed /\ all.Groups[n].mboxes # {}}, Renew))
           EXCEPT !.bufs = <<>>, !.fresh = FALSE]

G_compute_and_notify(r) ==
    LET all == MergeGathered(r, DOMAIN r.Gathered)
        Renew(x, n) ==
          LET g == [x.Groups[n] EXCEPT !.id = [memb |-> x.RegId, index |-> 1], !.changed = FALSE]
              y == SetGroup(x, n, g)
              told == IF g.mboxes = {} THEN y ELSE G_send_heavyweight_memb(y, n)
          IN  SetGroup(told, n, G_update_daemon_memb_ids(g))
    IN  [ResetGathered(ForGroups(all, {n \in DOMAIN all.Groups : all.Groups[n].changed}, Renew))
           EXCEPT !.bufs = <<>>, !.fresh = FALSE]

G_shift_to_GOP(r) == IF r.Gstate = "EXIT" THEN r ELSE [r EXCEPT !.Gstate = "GOP"]

-----------------------------------------------------------------------------
(* Memberships of daemons *)

\* GOP: the groups with members that are not in T are told, and get a new id.
TransInGOP(r) ==
    LET Lost(n) == DOMAIN r.Groups[n].dmns \ r.Trans
        Part(x, n) ==
          LET told == IF x.Groups[n].mboxes = {} THEN x ELSE G_send_trans_memb(x, n)
              g == [x.Groups[n] EXCEPT
                      !.dmns = [q \in DOMAIN @ |-> IF q \in Lost(n)
                                                   THEN [@[q] EXCEPT !.memb = Unknown] ELSE @[q]],
                      !.id = [memb |-> r.TransId, index |-> 1], !.changed = TRUE]
          IN  SetGroup(told, n, G_update_daemon_memb_ids(g))
    IN  [ForGroups(r, {n \in DOMAIN r.Groups : Lost(n) # {}}, Part)
           EXCEPT !.Gstate = "GTRANS", !.SyncedSet = @ \cap r.Trans]

\* GGATHER: what is lost is thrown away with the next regular membership.
TransInGGATHER(r) ==
    [r EXCEPT !.Gstate = "GGT",
              !.Groups = [n \in DOMAIN @ |-> [@[n] EXCEPT !.changed =
                             @ \/ ~(DOMAIN r.Groups[n].dmns \subseteq r.Trans)]]]

G_handle_trans_memb(r, T, id) ==
    LET s == [r EXCEPT !.Trans = T, !.TransId = id]
    IN  CASE r.Gstate = "GOP" -> TransInGOP(s)
          [] r.Gstate = "GGATHER" -> TransInGGATHER(s)
          [] OTHER -> Exit(r)

\* Nobody new: every changed group gets its id and is told.
RegSubtractive(r) ==
    LET Renew(x, n) ==
          LET g == G_eliminate_partitioned_daemons(x, x.Groups[n])
              h == G_update_daemon_memb_ids([g EXCEPT !.id = [memb |-> x.RegId, index |-> 1],
                                                      !.changed = FALSE])
          IN  IF MembersOf(g) = {} THEN G_remove_group(SetGroup(x, n, g), n)
              ELSE IF h.mboxes = {} THEN SetGroup(x, n, h)
              ELSE G_send_heavyweight_memb(SetGroup(x, n, h), n)
    IN  G_shift_to_GOP(ForGroups(r, {n \in DOMAIN r.Groups : r.Groups[n].changed}, Renew))

\* Otherwise the groups are gathered; the leader of a synced set sends them.
SendAsLeader(r) ==
    LET s == [r EXCEPT !.bufs = IF r.fresh THEN G_stamp_groups_bufs(r)
                                ELSE G_build_new_groups_bufs(r), !.fresh = TRUE]
    IN  IF Is_synced_set_leader(r, r.me) THEN G_send_groups_messages(s) ELSE r

RegMerge(r) ==
    LET Clean(x, n) ==
          LET g == G_eliminate_partitioned_daemons(x, x.Groups[n])
          IN  IF MembersOf(g) = {} THEN G_remove_group(SetGroup(x, n, g), n)
              ELSE SetGroup(x, n, g)
        s == ForGroups(r, {n \in DOMAIN r.Groups : r.Groups[n].changed}, Clean)
    IN  IF s.Gstate = "EXIT" THEN s ELSE [SendAsLeader(s) EXCEPT !.Gstate = "GGATHER"]

\* Mutant: complete sets are merged although the messages of my own set are missing.
RegInGGTAlways(r) ==
    LET come == {q \in DOMAIN r.Gathered : r.Gathered[q].complete}
        merged == [MergeGathered(r, come) EXCEPT !.fresh = @ /\ come = {}]
        Clean(x, n) ==
          LET g == G_eliminate_partitioned_daemons(r, x.Groups[n])
          IN  IF g = x.Groups[n] THEN x
              ELSE IF MembersOf(g) = {} THEN [G_remove_group(SetGroup(x, n, g), n) EXCEPT !.fresh = FALSE]
              ELSE [SetGroup(x, n, [g EXCEPT !.changed = TRUE]) EXCEPT !.fresh = FALSE]
        clean == ForGroups(merged, DOMAIN merged.Groups, Clean)
        s == [ResetGathered(clean) EXCEPT !.SyncedSet = @ \cap r.Trans,
                                          !.fresh = @ /\ clean.SyncedSet \subseteq r.Trans]
    IN  IF s.Gstate = "EXIT" THEN s ELSE [SendAsLeader(s) EXCEPT !.Gstate = "GGATHER"]

\* GGT: the exchange was cut.  If the messages of my own synced set came, the
\* sets whose messages all came are synced with me now; then the daemons that
\* are gone leave, and the exchange starts again.
RegInGGT(r) ==
    LET come == IF r.complete THEN {q \in DOMAIN r.Gathered : r.Gathered[q].complete} ELSE {}
        merged == [MergeGathered(r, come) EXCEPT !.fresh = @ /\ come = {}]
        Clean(x, n) ==
          LET g == G_eliminate_partitioned_daemons(r, x.Groups[n])
          IN  IF g = x.Groups[n] THEN x
              ELSE IF MembersOf(g) = {} THEN [G_remove_group(SetGroup(x, n, g), n) EXCEPT !.fresh = FALSE]
              ELSE [SetGroup(x, n, [g EXCEPT !.changed = TRUE]) EXCEPT !.fresh = FALSE]
        clean == ForGroups(merged, DOMAIN merged.Groups, Clean)
        s == [ResetGathered(clean) EXCEPT !.SyncedSet = @ \cap r.Trans,
                                          !.fresh = @ /\ clean.SyncedSet \subseteq r.Trans]
    IN  IF s.Gstate = "EXIT" THEN s ELSE [SendAsLeader(s) EXCEPT !.Gstate = "GGATHER"]

G_handle_reg_memb(r, S, id) ==
    LET s == [r EXCEPT !.Reg = S, !.RegId = id]
    IN  CASE r.Gstate = "GTRANS" ->
               IF Cardinality(r.Trans) = Cardinality(S) THEN RegSubtractive(s) ELSE RegMerge(s)
          [] r.Gstate = "GGT" -> RegInGGT(s)
          [] OTHER -> Exit(r)

\* A message from my own synced set is only counted.
Gather(r, k) ==
    LET old == IF k.from \in DOMAIN r.Gathered THEN r.Gathered[k.from]
               ELSE [complete |-> FALSE, msgs |-> <<>>]
        s == IF Is_synced_set_leader(r, k.from) THEN [r EXCEPT !.complete = @ \/ k.agreed]
             ELSE [r EXCEPT !.Gathered =
                     Put(@, k.from, [complete |-> old.complete \/ k.agreed, msgs |-> <<k>> \o old.msgs])]
    IN  IF k.agreed THEN [s EXCEPT !.num = @ + k.size] ELSE s

G_handle_groups(r, k) ==
    LET s == Gather(r, k)
        done == G_shift_to_GOP(G_compute_and_notify(s))
    IN  IF r.Gstate \notin {"GGATHER", "GGT"} THEN Exit(r)
        ELSE IF k.buf.memb # r.RegId THEN r
        ELSE IF s.num # Cardinality(s.Reg) THEN s
        ELSE IF r.Gstate = "GGT" /\ done.Gstate = "GOP" THEN G_handle_trans_memb(done, r.Trans, r.TransId)
        ELSE done

Sess_deliver_message(r, k) ==
    CASE r.Gstate = "EXIT" -> r
      [] r.Gstate # "EXIT" /\ k.type = "JOIN" -> G_handle_join(r, k.from, k.group)
      [] r.Gstate # "EXIT" /\ k.type = "LEAVE" -> G_handle_leave(r, k.from, k.group)
      [] r.Gstate # "EXIT" /\ k.type = "KILL" -> Sess_handle_kill(r, k.from)
      [] r.Gstate # "EXIT" /\ k.type = "GROUPS" -> G_handle_groups(r, k)
      [] r.Gstate # "EXIT" /\ k.type = "DATA" -> G_analize_groups(r, k.group, k)

-----------------------------------------------------------------------------
FirstRing(s, p) == CHOOSE i \in DOMAIN s.rings : p \in s.rings[i]

\* G_init, and the joins of the first members.
G_init(s, p) ==
    LET i == FirstRing(s, p)
        id == <<Conf_leader(s.rings[i]), 2 * i + 1>>
        Here(n) == {m \in s.groups[n] : HomeOf[m] \in s.rings[i]}
        FirstGroup(n) == [id |-> [memb |-> id, index |-> Cardinality(Here(n))], changed |-> FALSE,
                     dmns |-> [q \in {HomeOf[m] : m \in Here(n)} |->
                                 [memb |-> id, members |-> {m \in Here(n) : HomeOf[m] = q}]],
                     mboxes |-> {m \in Here(n) : HomeOf[m] = p}]
    IN  [me |-> p, Gstate |-> "GOP", Trans |-> {}, TransId |-> Unknown,
         Reg |-> s.rings[i], RegId |-> id, SyncedSet |-> s.rings[i],
         Groups |-> [n \in {x \in GroupNames : Here(x) # {}} |-> FirstGroup(n)],
         Gathered |-> <<>>, complete |-> FALSE, num |-> 0, bufs |-> <<>>, fresh |-> FALSE,
         control |-> <<>>, script |-> s.script[p],
         sessions |-> {m \in Members : HomeOf[m] = p}, op |-> {m \in Members : HomeOf[m] = p},
         log |-> [m \in {x \in Members : HomeOf[x] = p} |-> <<>>]]

Init ==
    \E s \in Starts :
      /\ d = [p \in Procs |-> G_init(s, p)]
      /\ ring = s.rings
      /\ todo = s.forms
      /\ order = [i \in DOMAIN ring |-> <<>>]
      /\ cut = [i \in DOMAIN ring |-> <<>>]
      /\ at = [p \in Procs |-> [mid |-> FirstRing(s, p), pos |-> 0, next |-> 0]]

\* Mutant: clients are not blocked while the groups are gathered.
SendUnblocked(p) ==
    LET r == d[p]
        gather == r.Gstate = "GGATHER" /\ r.control # <<>>
        queue == IF gather THEN r.control ELSE r.script
        k == Head(queue)
    IN  /\ at[p].next = 0 /\ r.Gstate \in {"GOP", "GGATHER"} /\ queue # <<>>
        /\ d' = [d EXCEPT ![p] = IF gather THEN [r EXCEPT !.control = Tail(@)]
                                 ELSE [r EXCEPT !.script = Tail(@),
                                                !.op = IF k.type = "KILL" THEN @ \ {k.from} ELSE @]]
        /\ order' = [order EXCEPT ![at[p].mid] =
                       Append(@, IF k.type = "DATA" THEN [k EXCEPT !.memb = <<at[p].mid, Len(@)>>]
                                 ELSE k)]
        /\ UNCHANGED <<ring, todo, cut, at>>

\* A daemon in its ring sends: GROUPS messages while it gathers, else what its
\* clients ask for.  A client that disconnects hears nothing from then on.
Send(p) ==
    LET r == d[p]
        gather == r.Gstate = "GGATHER"
        queue == IF gather THEN r.control ELSE r.script
        k == Head(queue)
    IN  /\ at[p].next = 0 /\ r.Gstate \in {"GOP", "GGATHER"} /\ queue # <<>>
        /\ d' = [d EXCEPT ![p] = IF gather THEN [r EXCEPT !.control = Tail(@)]
                                 ELSE [r EXCEPT !.script = Tail(@),
                                                !.op = IF k.type = "KILL" THEN @ \ {k.from} ELSE @]]
        /\ order' = [order EXCEPT ![at[p].mid] =
                       Append(@, IF k.type = "DATA" THEN [k EXCEPT !.memb = <<at[p].mid, Len(@)>>]
                                 ELSE k)]
        /\ UNCHANGED <<ring, todo, cut, at>>

Deliver(p) ==
    LET a == at[p]
        upto == IF a.next = 0 THEN Len(order[a.mid]) ELSE cut[a.next][a.mid].before
    IN  /\ d[p].Gstate # "EXIT" /\ a.pos < upto
        /\ d' = [d EXCEPT ![p] = Sess_deliver_message(d[p], order[a.mid][a.pos + 1])]
        /\ at' = [at EXCEPT ![p].pos = @ + 1]
        /\ UNCHANGED <<ring, todo, order, cut>>

\* A new ring forms.  The daemons that come from one ring agree on what they
\* deliver before and after the transitional signal.
Form ==
    /\ todo # <<>>
    /\ \E S \in Head(todo) :
         LET Come(j) == {p \in S : at[p].mid = j}
             done(j) == Max({at[p].pos : p \in Come(j)})
             Cuts(j) == {c \in [before : done(j) .. Len(order[j]), after : done(j) .. Len(order[j]),
                                trans : {Come(j)}] : c.before <= c.after}
             old == {at[p].mid : p \in S}
         IN  /\ \A p \in S : at[p].next = 0 /\ d[p].Gstate # "EXIT"
             /\ \E f \in [old -> UNION {Cuts(j) : j \in old}] :
                  /\ \A j \in old : f[j] \in Cuts(j)
                  /\ cut' = Append(cut, f)
             /\ ring' = Append(ring, S)
             /\ at' = [p \in Procs |-> IF p \in S THEN [at[p] EXCEPT !.next = Len(ring) + 1] ELSE at[p]]
    /\ order' = Append(order, <<>>)
    /\ todo' = Tail(todo)
    /\ UNCHANGED d

\* Discard_packets in the state EVS.  After the signal come the messages up to
\* the first hole, and the others that the daemons of the ring sent themselves.
Install(p) ==
    LET a == at[p]
        i == a.next
        c == cut[i][a.mid]
        T == c.trans
        Sent(k) == IF k.type = "GROUPS" THEN k.from ELSE HomeOf[k.from]
        before == SubSeq(order[a.mid], a.pos + 1, c.before)
        after == SubSeq(order[a.mid], c.before + 1, c.after)
        rest == SelectSeq(SubSeq(order[a.mid], c.after + 1, Len(order[a.mid])), LAMBDA k : Sent(k) \in T)
        b == FoldLeft(Sess_deliver_message, d[p], before)
        t == IF b.Gstate = "EXIT" THEN b ELSE G_handle_trans_memb(b, T, TransId(T, i))
        e == FoldLeft(Sess_deliver_message, t, after \o rest)
    IN  /\ i # 0 /\ d[p].Gstate # "EXIT"
        /\ d' = [d EXCEPT ![p] = IF e.Gstate = "EXIT" THEN e ELSE G_handle_reg_memb(e, ring[i], RegId(i))]
        /\ at' = [at EXCEPT ![p] = [mid |-> i, pos |-> 0, next |-> 0]]
        /\ UNCHANGED <<ring, todo, order, cut>>

Next ==
    \/ Form
    \/ \E p \in Procs : Send(p) \/ Deliver(p) \/ Install(p)

Spec == Init /\ [][Next]_vars

-----------------------------------------------------------------------------
(* Every daemon's groups hold members of their own daemons only, its mailboxes *)
(* are its own members, and no group is empty.                                 *)
TypeOK ==
    \A p \in Procs :
      /\ d[p].Gstate \in {"GOP", "GTRANS", "GGATHER", "GGT", "EXIT"}
      /\ d[p].SyncedSet \subseteq d[p].Reg /\ p \in d[p].SyncedSet
      /\ \A n \in DOMAIN d[p].Groups :
           LET g == d[p].Groups[n]
           IN  /\ \A q \in DOMAIN g.dmns :
                    g.dmns[q].members # {} /\ \A m \in g.dmns[q].members : HomeOf[m] = q
               /\ g.mboxes = {m \in MembersOf(g) : HomeOf[m] = p}

(* The assertions of groups.c (SPLOG_FATAL, assert): no client message is      *)
(* delivered to a daemon that gathers, no GROUPS message to one that does not, *)
(* synced sets do not overlap, a removed group has no mailbox, a mailbox that  *)
(* is removed is there, and a local member has a session.                      *)
NoExit == \A p \in Procs : d[p].Gstate # "EXIT"

(* The state of every daemon is sound: groups, daemons and mailboxes of        *)
(* groups.c fit each other, and no assertion fails.                            *)
StateSound == TypeOK /\ NoExit

(* Daemons at the same point of the same membership agree on all groups: their *)
(* ids, members, and who is synced with whom, whether they computed them alone *)
(* or merged them from GROUPS messages, in whatever order these came.          *)
Shared(r) == [n \in DOMAIN r.Groups |-> [id |-> r.Groups[n].id, dmns |-> r.Groups[n].dmns]]
GroupsAgree ==
    \A p, q \in Procs :
        /\ at[p].mid = at[q].mid /\ at[p].pos = at[q].pos
        /\ d[p].Gstate = "GOP" /\ d[q].Gstate = "GOP"
        => Shared(d[p]) = Shared(d[q]) /\ d[p].SyncedSet = d[q].SyncedSet

(* A synced set is synced: while the groups are gathered, the daemons of a     *)
(* synced set hold the same groups, so that the messages of its leader speak   *)
(* for all of them, also after an exchange that was cut.  Only the id of a     *)
(* changed group may differ, which the merge replaces.                         *)
Spoken(r) == [n \in DOMAIN r.Groups |->
                [changed |-> r.Groups[n].changed,
                 id |-> IF r.Groups[n].changed THEN {} ELSE {r.Groups[n].id},
                 members |-> [q \in DOMAIN r.Groups[n].dmns |-> r.Groups[n].dmns[q].members]]]
SyncedSetsAgree ==
    \A p, q \in Procs :
        /\ at[p].mid = at[q].mid /\ d[p].Gstate = "GGATHER" /\ d[q].Gstate = "GGATHER"
        /\ q \in d[p].SyncedSet
        => d[p].SyncedSet = d[q].SyncedSet /\ Spoken(d[p]) = Spoken(d[q])

Views(m) == {i \in DOMAIN d[HomeOf[m]].log[m] : d[HomeOf[m]].log[m][i].type
                                                   \in {"JOIN", "LEAVE", "DISCONNECT", "NETWORK"}}
Log(m) == d[HomeOf[m]].log[m]


\* What m was told about group n since the view before the one at i.
Since(m, n, i) ==
    LET before == {j \in Views(m) : j < i /\ Log(m)[j].group = n}
        start == IF before = {} THEN 0 ELSE Max(before)
    IN  SelectSeq(SubSeq(Log(m), Max({start, 1}), i - 1), LAMBDA e : e.group = n)

(* Virtual synchrony for clients: a client that is told, in a view caused by   *)
(* the network, that another member came together with it, and that member,    *)
(* when it is told the same view, came from the same view, with the same       *)
(* messages and transitional signals in between.                               *)
Core(e) == [e EXCEPT !.vs = {}]
CameTogether ==
    \A a, b \in Members : \A i \in Views(a), j \in Views(b) :
        LET v == Log(a)[i]
            w == Log(b)[j]
            s == Since(a, v.group, i)
            t == Since(b, v.group, j)
        IN  /\ v.group = w.group /\ v.id = w.id
            /\ v.type = "NETWORK" /\ b \in v.vs
            => /\ a \in w.vs
               /\ [x \in DOMAIN s |-> Core(s[x])] = [x \in DOMAIN t |-> Core(t[x])]
=============================================================================
