-------------------------- MODULE SpreadMembership --------------------------
(* The daemon membership protocol of Spread (daemon/membership.c) and the part *)
(* of daemon/protocol.c that installs a formed membership.                     *)
(*                                                                             *)
(* Every daemon runs the state machine                                         *)
(*     OP -> SEG -> {GATHER, REPRESENTED} -> FORM -> EVS -> OP                 *)
(* driven by UDP packets and by timers.  A FORM1 token visits the daemons of a *)
(* new ring and collects, for every old ring, who survives of it; the same     *)
(* token then travels again as FORM2 and tells every daemon the outcome; the   *)
(* first regular tokens recover the messages of the old rings, and a daemon    *)
(* that knows that everybody recovered installs the membership.                *)
(*                                                                             *)
(* Abstractions.  The static variables of daemon p are the record d[p].  UDP   *)
(* loses, delays, reorders and repeats packets.  A token sent may be received  *)
(* at any time, again and again, or never (this covers Prot_token_hurry and    *)
(* the doubled Net_ucast_token calls).  ALIVE, JOIN and REFER packets, which   *)
(* the code sends periodically or on request, are received as they are sent,   *)
(* or lost, or (MaxLate of them) kept by the network and received later.  A    *)
(* queued timer may expire at any time.  Messages are not modelled here, so    *)
(* the sequence numbers of a token are reduced to what EVS tells apart:        *)
(* whether the aru has reached Last_seq, i.e. everybody recovered.             *)
EXTENDS SpreadConf, Integers, SequencesExt

CONSTANTS MAX_REPS, MAX_FORM_REPS, MAX_PROCS_RING,   \* limits of the C arrays
          Starts,       \* [up, ring, bounds]: the daemons started, the membership that
                        \* already operates, and how much may happen:
                        \*   forms: form attempts (calls of Create_form1)
                        \*   losses: expiries of token_loss, lookup, Shift_to_seg timers
                        \*   arrivals: packets other than tokens received
                        \*   late: such packets that the network delays
                        \*   restarts: daemons killed and started, or started late
          LateForms,    \* form tokens a daemon has processed may reach it again after a
                        \* late packet made it leave the membership it was forming
          MaxArq        \* bound: rounds of the regular token that are followed

VARIABLES d,        \* d[p]: the static variables of daemon p
          tokens,   \* FORM1, FORM2 and regular tokens sent so far
          late,     \* ALIVE, JOIN, REFER and foreign packets delayed by the network
          clock,    \* clock[p]: E_get_time().sec of daemon p
          views,    \* history: every regular membership delivered, with its transitional set
          left      \* what may still happen of the bounds

vars == <<d, tokens, late, clock, views, left>>

Reps == {"POTENTIAL", "SEG", "RING"}
NoId == [proc_id |-> 0, time |-> -1]
Low == 0            \* a token aru below Last_seq
Last_seq == 1
INT32_MAX == 2

Rep(p, t) == [proc_id |-> p, type |-> t, seg_index |-> SegOf[p]]
Later(a, b) == IF a > b THEN a ELSE b
Result(r, out) == [d |-> r, out |-> out]
Down(r) == [r EXCEPT !.running = "down", !.timers = {}]
Exit(r, why) == [r EXCEPT !.running = why, !.timers = {}]     \* Alarm( EXIT, why )

-----------------------------------------------------------------------------
(* Lists of members and of representatives *)

Insert_member(m, p) ==
    IF Contains(m, p) \/ Len(m) = MAX_PROCS_RING THEN m ELSE Append(m, p)

Insert_rep(r, rep) ==
    LET hit == {i \in DOMAIN r :
                  /\ r[i].seg_index = rep.seg_index
                  /\ \/ "POTENTIAL" \in {rep.type, r[i].type}
                     \/ r[i].proc_id = rep.proc_id}
    IN  IF hit # {}
        THEN IF rep.type = "POTENTIAL" THEN r
             ELSE [r EXCEPT ![First(hit)] = rep]
        ELSE IF Len(r) = MAX_REPS THEN r ELSE Append(r, rep)

Insert_reps(r, reps) == FoldLeft(Insert_rep, r, reps)

Smallest_member(m) == First(ToSet(m))

\* The scan of Smallest_rep: index of the winner.  A segment representative
\* beats a ring representative; among ring representatives the configuration
\* order decides, among segment representatives only the segment, so two of
\* one segment each keep the one they hold first.
Smallest_rep_index(r) ==
    LET Beats(c, i) ==
          \/ r[c].type = "SEG" /\ r[i].type = "SEG" /\ r[i].seg_index < r[c].seg_index
          \/ r[c].type = "RING" /\ r[i].type = "RING" /\ r[i].proc_id < r[c].proc_id
          \/ r[c].type = "RING" /\ r[i].type = "SEG"
        cur[i \in DOMAIN r] ==
          IF i = 1 THEN 1 ELSE IF Beats(cur[i - 1], i) THEN i ELSE cur[i - 1]
    IN  cur[Len(r)]

Smallest_rep(r) == r[Smallest_rep_index(r)].proc_id

\* Repeatedly takes the smallest and closes the gap with the last element.
Sort_reps(r) ==
    LET step[k \in 0 .. Len(r)] ==
          IF k = 0 THEN [done |-> <<>>, left |-> r]
          ELSE LET s == step[k - 1]
                   i == Smallest_rep_index(s.left)
                   n == Len(s.left)
               IN  [done |-> Append(s.done, s.left[i]),
                    left |-> SubSeq([s.left EXCEPT ![i] = s.left[n]], 1, n - 1)]
    IN  step[Len(r)].done

Sort_members(m) == SortSeq(m, <)

\* POTENTIAL representatives of the segments other than s, from their first
\* member in memb, or from the configuration when memb has none there.
SegmentHeads(memb, s, type) ==
    [i \in 1 .. Cardinality(Segments \ {s}) |->
        LET g == SetToSortSeq(Segments \ {s}, <)[i]
            p == IF InSegment(memb, g) # {} THEN Conf_seg_leader(memb, g)
                 ELSE Conf_seg_leader(Procs, g)
        IN  Rep(p, type)]

-----------------------------------------------------------------------------
(* The state shifts *)

Shift_to_op(r) == [r EXCEPT !.State = "OP"]

Shift_to_seg(r) ==
    [r EXCEPT !.State = "SEG", !.F_members = <<r.me>>,
              !.timers = @ \cup {"Scast_alive", "Gather_or_represented"}]

Shift_to_gather(r) ==
    [r EXCEPT !.State = "GATHER",
              !.F_reps = <<Rep(r.me, IF r.Token_alive THEN "RING" ELSE "SEG")>>,
              !.timers = (@ \ {"Scast_alive", "lookup"}) \cup {"Send_join", "Form_or_fail"}]

Shift_to_represented(r) ==
    [r EXCEPT !.State = "REPRESENTED",
              !.timers = (@ \ {"Scast_alive", "Gather_or_represented"}) \cup {"Shift_to_seg"}]

Gather_or_represented(r) ==
    LET s == [r EXCEPT !.My_seg_rep = 0]
    IN  IF Smallest_member(r.F_members) = r.me THEN Shift_to_gather(s)
        ELSE Shift_to_represented(s)

\* The representatives to look for after the token is lost.  In GATHER the
\* loop over the gathered representatives leaves its last type in temp_rep,
\* and the heads of the segments are then inserted under that type.
PotentialAfterLoss(r) ==
    CASE r.State = "OP" ->
           Insert_reps(<<>>, SegmentHeads(r.Membership, SegOf[r.me], "POTENTIAL"))
      [] r.State = "GATHER" ->
           Insert_reps(Insert_reps(<<>>, Tail(r.F_reps)),
                       SegmentHeads(r.Membership, SegOf[r.me],
                                    IF Len(r.F_reps) > 1 THEN Last(r.F_reps).type
                                    ELSE "POTENTIAL"))
      [] r.State = "EVS" ->
           Insert_reps(<<>>, SegmentHeads(r.Future_membership, SegOf[r.me], "POTENTIAL"))
      [] OTHER -> r.Potential_reps

Memb_token_loss(r) ==
    IF r.State \in {"SEG", "REPRESENTED"} \/ (r.State = "GATHER" /\ ~r.Token_alive)
    THEN Exit(r, "lost_twice")
    ELSE Shift_to_seg(
           [r EXCEPT !.Potential_reps = PotentialAfterLoss(r),
                     !.Token_alive = FALSE,
                     !.recovered = FALSE,
                     !.timers = @ \ {"token_loss", "Send_join", "Form_or_fail", "lookup"},
                     !.Last_token = [arq |-> 0, aru |-> Low],
                     !.Membership = {r.me}])

\* "sender belongs to my ring - my token is lost"
LostWith(r, q) ==
    LET s == Memb_token_loss(r)
    IN  [s EXCEPT !.F_members = Insert_member(@, q)]

-----------------------------------------------------------------------------
(* Packets sent *)

Scast_alive(r) ==
    {[type |-> "ALIVE", from |-> r.me, to |-> q] : q \in InSegment(Procs, SegOf[r.me]) \ {r.me}}

JoinTo(r, dests) ==
    {[type |-> "JOIN", from |-> r.me, to |-> q, reps |-> r.F_reps] : q \in dests \ {r.me}}

Send_join(r) ==
    JoinTo(r, (IF r.Token_alive THEN {} ELSE InSegment(Procs, SegOf[r.me]))
              \cup {r.Potential_reps[i].proc_id : i \in DOMAIN r.Potential_reps})

Refer(r, q, rep, type) ==
    {[type |-> "REFER", from |-> r.me, to |-> q, rep |-> rep, as |-> type]}

Memb_lookup_new_members(r) ==
    LET s == [r EXCEPT !.Potential_reps = <<>>, !.F_members = <<>>,
                       !.F_reps = <<Rep(r.me, "RING")>>]
        missing == IF Conf_num_segments = 1 THEN InSegment(Procs, SegOf[r.me])
                   ELSE Procs \ r.Reg_membership
    IN  IF r.State # "OP" THEN Result(r, {})
        ELSE Result(IF missing = {} THEN s ELSE Shift_to_gather(s), JoinTo(s, missing))

-----------------------------------------------------------------------------
(* Packet handlers: what daemon r.me does with packet m *)

\* Mutant: an ALIVE of my ring is taken for a lost token in every gathering.
Memb_handle_alive_gather(r, m) ==
    CASE r.State \in {"OP", "GATHER"} /\ m.from \in Procs -> LostWith(r, m.from)
      [] r.State = "SEG" -> [r EXCEPT !.F_members = Insert_member(@, m.from)]
      [] OTHER -> r

Memb_handle_alive(r, m) ==
    CASE r.State = "OP" /\ m.from \in r.Membership -> LostWith(r, m.from)
      [] r.State = "SEG" -> [r EXCEPT !.F_members = Insert_member(@, m.from)]
      [] r.State = "REPRESENTED" -> [r EXCEPT !.timers = @ \cup {"Shift_to_seg"}]
      [] r.State = "GATHER" /\ ~r.Token_alive ->
           [r EXCEPT !.F_members = Insert_member(@, m.from)]
      [] r.State = "GATHER" /\ r.Token_alive /\ m.from \in r.Membership ->
           LostWith(r, m.from)
      [] r.State = "EVS" /\ m.from \in r.Future_membership -> LostWith(r, m.from)
      [] OTHER -> r

JoinInOP(r, m) ==
    IF m.from \in r.Membership
    THEN Result(IF Conf_num_segments > 1 THEN Memb_token_loss(r) ELSE r, {})
    ELSE IF Conf_leader(r.Membership) = r.me
    THEN Result(Shift_to_gather([r EXCEPT !.Potential_reps = <<m.reps[1]>>,
                                          !.F_members = <<>>]), {})
    ELSE Result(r, IF \/ m.reps[1].seg_index # SegOf[r.me]
                      \/ Conf_seg_leader(r.Membership, SegOf[r.me]) = r.me
                   THEN Refer(r, m.from, Conf_leader(r.Membership), "RING") ELSE {})

\* The sender represents my segment.
IsMySegRep(r, m) == SegOf[m.from] = SegOf[r.me] /\ m.reps[1].type = "SEG"

JoinInGATHER(r, m) ==
    LET s == [r EXCEPT !.F_reps = Insert_rep(@, m.reps[1]),
                       !.Potential_reps = Insert_reps(@, m.reps)]
    IN  IF Smallest_rep(s.F_reps) = m.reps[1].proc_id
        THEN [s EXCEPT !.timers = @ \cup {"Form_or_fail"}] ELSE s

Memb_handle_join(r, m) ==
    CASE r.State = "OP" -> JoinInOP(r, m)
      [] r.State = "SEG" /\ IsMySegRep(r, m) ->
           Result(Shift_to_represented([r EXCEPT !.My_seg_rep = m.from]), Scast_alive(r))
      [] r.State = "REPRESENTED" /\ IsMySegRep(r, m) ->
           Result([r EXCEPT !.My_seg_rep = m.from, !.timers = @ \cup {"Shift_to_seg"}],
                  Scast_alive(r))
      [] r.State = "REPRESENTED" /\ ~IsMySegRep(r, m) ->
           Result(r, IF r.My_seg_rep # 0 THEN Refer(r, m.from, r.My_seg_rep, "SEG") ELSE {})
      [] r.State = "GATHER" -> Result(JoinInGATHER(r, m), {})
      [] r.State = "EVS" /\ m.from \in r.Future_membership -> Result(LostWith(r, m.from), {})
      [] OTHER -> Result(r, {})

Memb_handle_refer(r, m) ==
    IF r.State = "GATHER"
    THEN [r EXCEPT !.Potential_reps = Insert_rep(@, Rep(m.rep, m.as))] ELSE r

\* A regular packet of another membership, first sent by daemon m.from.
Memb_handle_foreign(r, m) ==
    IF r.State # "OP" THEN Result(r, {})
    ELSE IF Conf_leader(r.Membership) = r.me THEN Memb_lookup_new_members(r)
    ELSE IF Conf_seg_leader(r.Membership, SegOf[r.me]) = r.me /\ ~r.Foreign_found
    THEN Result([r EXCEPT !.Foreign_found = TRUE],
                {[type |-> "FOREIGN", from |-> m.from, to |-> Conf_leader(r.Membership)]})
    ELSE Result(r, {})

-----------------------------------------------------------------------------
(* Forming a membership *)

\* A token that p sends to q; seen: its receiver has processed a copy of it.
Token(type, p, q, body) ==
    [f \in DOMAIN body \cup {"type", "from", "to", "seen"} |->
        CASE f = "type" -> type [] f = "from" -> p [] f = "to" -> q [] f = "seen" -> FALSE
          [] OTHER -> body[f]]

\* Where the form token goes next; when every representative has filled it,
\* it becomes the FORM2 token and starts at the first member.
SendForm1(t, me) ==
    IF t.n < Len(t.members)
    THEN {Token("FORM1", me, t.members[t.n + 1], t)}
    ELSE IF t.rep_index <= Len(t.reps)
    THEN {Token("FORM1", me, t.reps[t.rep_index].proc_id, t)}
    ELSE LET m == Sort_members(t.members)
         IN  {Token("FORM2", me, m[1], [memb_id |-> t.memb_id, members |-> m,
               n |-> 0, m_id |-> NoId, rings |-> t.rings])}

\* Future representatives to try if this attempt fails.
PotentialOf(r, reps) ==
    Insert_reps(<<>>, [i \in 1 .. Len(SelectSeq(reps, LAMBDA x : x.seg_index # SegOf[r.me])) |->
        [SelectSeq(reps, LAMBDA x : x.seg_index # SegOf[r.me])[i] EXCEPT !.type = "POTENTIAL"]])

\* Both Create_form1 and Fill_form1 end by waiting for the FORM2 token.
ShiftToForm(r, id, reps) ==
    [r EXCEPT !.State = "FORM", !.Token_alive = FALSE, !.Form1_memb_id = id,
              !.Potential_reps = PotentialOf(r, reps),
              !.timers = (@ \ {"Send_join", "Form_or_fail", "Shift_to_seg"}) \cup {"token_loss"}]

MyRing(r) == [memb_id |-> r.Membership_id, trans |-> {r.me},
              commit |-> {r.me} \cup r.Commit_set.commit, trans_time |-> 0]

Create_form1(r, now) ==
    LET time == Later(now, r.Last_time_used + 1)
        id == [proc_id |-> r.me, time |-> time]
        all == IF r.F_reps[1].type = "RING" THEN SetToSortSeq(r.Membership, <)
               ELSE r.F_members
        others == {r.F_reps[i].proc_id : i \in DOMAIN r.F_reps} \ {r.me}
        reps == Sort_reps(r.F_reps)
        t == [memb_id |-> id, members |-> SelectSeq(all, LAMBDA p : p \notin others),
              n |-> 1, reps |-> reps, rep_index |-> 2, rings |-> {MyRing(r)}]
    IN  Result(ShiftToForm([r EXCEPT !.Last_time_used = time, !.F_reps = reps], id, reps),
               SendForm1(t, r.me))

Form_or_fail(r, now) ==
    IF r.Token_alive /\ (Smallest_rep(r.F_reps) # r.me \/ Len(r.F_reps) = 1)
    THEN Result(Shift_to_op([r EXCEPT !.timers = (@ \ {"Send_join"}) \cup {"lookup"}]), {})
    ELSE IF Smallest_rep(r.F_reps) = r.me THEN Create_form1(r, now)
    ELSE Result(Shift_to_gather([r EXCEPT !.F_members = <<r.me>>,
                                          !.Potential_reps = Insert_reps(<<>>, Tail(r.F_reps))]),
                {})

\* Fill_form1, members and representatives: is the token meant for me now,
\* and whom do I bring along.
Form1IsForMe(r, t) ==
    IF r.State \in {"OP", "REPRESENTED"}
    THEN t.n < Len(t.members) /\ t.members[t.n + 1] = r.me
    ELSE /\ t.n = Len(t.members)
         /\ t.rep_index <= Len(t.reps)
         /\ t.reps[t.rep_index].proc_id = r.me
         /\ t.reps[t.rep_index].type # (IF r.Token_alive THEN "SEG" ELSE "RING")

BroughtMembers(r, t) ==
    LET known == ToSet(t.members)
                 \cup ({t.reps[i].proc_id : i \in DOMAIN t.reps} \ {r.me})
                 \cup ({r.F_reps[i].proc_id : i \in DOMAIN r.F_reps} \ {r.me})
    IN  IF t.reps[t.rep_index].type = "SEG"
        THEN SelectSeq(r.F_members, LAMBDA p : p \notin known)
        ELSE SetToSortSeq(r.Membership, <)

FillMembers(r, t) ==
    IF r.State \in {"OP", "REPRESENTED"} THEN [t EXCEPT !.n = @ + 1]
    ELSE [t EXCEPT !.members = @ \o BroughtMembers(r, t), !.n = @ + 1, !.rep_index = @ + 1]

\* Mutant: my ring's entry is written anew instead of being extended.
FillRingsAlone(r, t) ==
    [t EXCEPT !.rings = {g \in @ : g.memb_id # r.Membership_id} \cup {MyRing(r)}]

\* Fill_form1, rings: my ring moves to the end of the list with me added to
\* those who survive it; a ring the token has no room for makes me step out.
FillRings(r, t) ==
    LET mine == {g \in t.rings : g.memb_id = r.Membership_id}
    IN  IF mine = {} /\ Cardinality(t.rings) + 1 > MAX_FORM_REPS
        THEN [t EXCEPT !.members = RemoveFirst(@, r.me), !.n = @ - 1]
        ELSE [t EXCEPT !.rings = (@ \ mine) \cup
                {[MyRing(r) EXCEPT !.trans = @ \cup UNION {g.trans : g \in mine},
                                   !.commit = @ \cup UNION {g.commit : g \in mine}]}]

Fill_form1(r, t) ==
    IF ~Form1IsForMe(r, t) THEN Result(r, {})
    ELSE IF \E g \in t.rings : g.memb_id = r.Membership_id /\ r.me \in g.trans
    THEN Result(Exit(r, "incorrect_trans_set"), {})
    ELSE Result(ShiftToForm(r, t.memb_id, t.reps),
                SendForm1(FillRings(r, FillMembers(r, t)), r.me))

Memb_handle_form1(r, t) ==
    IF \/ r.State \in {"REPRESENTED", "GATHER"}
       \/ r.State = "OP" /\ Conf_leader(r.Membership) # r.me
    THEN Fill_form1(r, t) ELSE Result(r, {})

\* The FORM2 token is the one I expect: of the attempt I filled, for me next,
\* and it knows my ring.
Form2IsForMe(r, t) ==
    /\ t.memb_id = r.Form1_memb_id
    /\ Len(t.members) < MAX_PROCS_RING
    /\ t.n < Len(t.members) /\ t.members[t.n + 1] = r.me
    /\ \E g \in t.rings : g.memb_id = r.Membership_id

\* The time stamp of a membership: the clock, but never one used before.
\* Mutant: the clock alone, which has a resolution of a second.
MembTimeClock(r, now) == now
MembTime(r, now) == Later(now, r.Last_time_used + 1)

\* The first of an old ring dates its transitional membership.
\* Mutant: everybody does.
StampAnew(ring, time) == [ring EXCEPT !.trans_time = time]
Stamp(ring, time) == IF ring.trans_time = 0 THEN [ring EXCEPT !.trans_time = time] ELSE ring

\* The first member names the membership; the first of every old ring stamps
\* the transitional membership of that ring.
Read_form2(r, t, now) ==
    LET first == t.n = 0
        ring == CHOOSE g \in t.rings : g.memb_id = r.Membership_id
        memb_time == MembTime(r, now)
        stamps == first \/ ring.trans_time = 0
        m_id == IF first THEN [proc_id |-> r.me, time |-> memb_time + 1] ELSE t.m_id
        ring2 == Stamp(ring, memb_time)
        t2 == [t EXCEPT !.n = @ + 1, !.m_id = m_id, !.rings = (@ \ {ring}) \cup {ring2}]
        memb == ToSet(t.members)
    IN  Result([r EXCEPT !.State = "EVS", !.Token_alive = TRUE,
                         !.Future_membership = memb, !.Future_membership_id = m_id,
                         !.Future_commit_set = [trans |-> ring.trans, commit |-> ring.commit],
                         !.F_trans_memb_time = ring2.trans_time,
                         !.Last_time_used = CASE first -> memb_time + 1
                                              [] ~first /\ stamps -> memb_time
                                              [] OTHER -> @,
                         !.Last_token = [arq |-> 0, aru |-> Low],
                         !.recovered = FALSE,
                         !.timers = @ \cup {"token_loss"}],
               IF Conf_last(memb) # r.me
               THEN {Token("FORM2", r.me, Token_address(memb, r.me), t2)}
               ELSE {Token("TOKEN", r.me, Token_address(memb, r.me),
                           [memb_id |-> m_id, arq |-> 0, aru |-> INT32_MAX, aru_last_id |-> 0])})

-----------------------------------------------------------------------------
(* The regular token while a formed membership is being installed *)

Memb_active(r) == IF r.State = "EVS" THEN r.Future_membership ELSE r.Membership
Memb_active_id(r) == IF r.State = "EVS" THEN r.Future_membership_id ELSE r.Membership_id

TokenAccepted(r, t) ==
    /\ r.Token_alive
    /\ t.memb_id = Memb_active_id(r)
    /\ t.from = Conf_previous(Memb_active(r), r.me)
    /\ t.arq = IF Conf_leader(Memb_active(r)) = r.me THEN r.Last_token.arq
               ELSE (r.Last_token.arq + 1) % 16

\* Prot_handle_token: Token->aru and Token->aru_last_id after my turn, where
\* mine is my own aru.  Two daemons that both still miss messages may miss
\* different ones, so either may be the one that lowered the aru.
TokenAru(r, t, mine) ==
    IF t.aru > mine \/ t.aru_last_id = r.me THEN {<<mine, r.me>>}
    ELSE IF t.aru = Low THEN {<<Low, t.aru_last_id>>, <<Low, r.me>>}
    ELSE {<<t.aru, t.aru_last_id>>}

Memb_commit(r) == [r EXCEPT !.Commit_set = r.Future_commit_set]

\* Memb_transitional and Memb_regular, as Discard_packets calls them.
Memb_regular(r) ==
    Shift_to_op([r EXCEPT
        !.Membership = r.Future_membership, !.Reg_membership = r.Future_membership,
        !.Membership_id = r.Future_membership_id,
        !.Commit_set = [trans |-> {r.me}, commit |-> {r.me}],
        !.Foreign_found = FALSE, !.recovered = FALSE,
        !.timers = IF Conf_leader(r.Future_membership) = r.me THEN @ \cup {"lookup"} ELSE @])

View(r) ==
    [proc |-> r.me, memb_id |-> r.Future_membership_id, members |-> r.Future_membership,
     prev |-> r.Membership_id, trans |-> r.Commit_set.trans,
     trans_id |-> [proc_id |-> Conf_leader(r.Commit_set.trans), time |-> r.F_trans_memb_time]]

\* One accepted token.  complete: I now hold every message of my old ring.
Prot_handle_token(r, t, complete, aru) ==
    LET leader == Conf_leader(Memb_active(r)) = r.me
        evs == r.State = "EVS"
        c == IF evs /\ complete /\ ~r.recovered
             THEN [Memb_commit(r) EXCEPT !.recovered = TRUE] ELSE r
        arq == IF leader THEN (t.arq + 1) % 16 ELSE t.arq
        Aru == IF aru[1] > r.Last_token.aru THEN r.Last_token.aru ELSE aru[1]
        s == [c EXCEPT !.Last_token = [arq |-> arq, aru |-> aru[1]]]
        token == Token("TOKEN", r.me, Token_address(Memb_active(r), r.me),
                       [memb_id |-> t.memb_id, arq |-> arq, aru |-> aru[1], aru_last_id |-> aru[2]])
    IN  IF evs /\ Aru = Last_seq
        THEN [d |-> Memb_regular(s), out |-> {token}, view |-> {View(s)}]
        ELSE [d |-> s, out |-> {token}, view |-> {}]

-----------------------------------------------------------------------------
Memb_init(p) ==
    Shift_to_seg([me |-> p, State |-> "OP", running |-> "up", Token_alive |-> FALSE,
        Membership |-> {p}, Membership_id |-> [proc_id |-> p, time |-> -1],
        Reg_membership |-> {p},
        Future_membership |-> {}, Future_membership_id |-> NoId,
        Form1_memb_id |-> NoId, F_trans_memb_time |-> 0, Last_time_used |-> -1,
        My_seg_rep |-> 0, Foreign_found |-> FALSE,
        F_members |-> <<>>, F_reps |-> <<>>,
        Potential_reps |-> Insert_reps(<<>>, SegmentHeads({p}, SegOf[p], "POTENTIAL")),
        Commit_set |-> [trans |-> {p}, commit |-> {p}],
        Future_commit_set |-> [trans |-> {}, commit |-> {}],
        recovered |-> FALSE, Last_token |-> [arq |-> 0, aru |-> Low],
        timers |-> {}])

\* A daemon that operates the membership ring, installed at time 0.
Operating(p, ring) ==
    [Memb_init(p) EXCEPT !.State = "OP", !.Token_alive = TRUE, !.Membership = ring,
        !.Reg_membership = ring,
        !.Membership_id = [proc_id |-> First(ring), time |-> 0], !.Last_time_used = 0,
        !.F_members = <<>>, !.Potential_reps = <<>>,
        !.timers = {"token_loss"} \cup (IF First(ring) = p THEN {"lookup"} ELSE {})]

\* The daemons of a start are up; those of its ring already operate it.
Init ==
    /\ \E s \in Starts :
         /\ left = s.bounds
         /\ d = [p \in Procs |-> CASE p \in s.ring -> Operating(p, s.ring)
                                   [] p \in s.up \ s.ring -> Memb_init(p)
                                   [] OTHER -> Down(Memb_init(p))]
    /\ tokens = {} /\ late = {}
    /\ clock = [p \in Procs |-> 1]
    /\ views = {}

\* Values nobody reads before they are written again are forgotten, so that
\* states that differ only in leftovers are the same state.
Forget(r) ==
    [r EXCEPT !.F_reps = IF r.State = "GATHER" THEN @ ELSE <<>>,
              !.F_members = IF r.State \in {"SEG", "GATHER"} THEN @ ELSE <<>>,
              !.Potential_reps = IF r.State \in {"OP", "EVS"} THEN <<>> ELSE @,
              !.My_seg_rep = IF r.State = "REPRESENTED" THEN @ ELSE 0,
              !.Form1_memb_id = IF r.State = "FORM" THEN @ ELSE NoId,
              !.Future_membership = IF r.State = "EVS" THEN @ ELSE {},
              !.Future_membership_id = IF r.State = "EVS" THEN @ ELSE NoId,
              !.Future_commit_set = IF r.State = "EVS" THEN @ ELSE [trans |-> {}, commit |-> {}],
              !.F_trans_memb_time = IF r.State = "EVS" THEN @ ELSE 0]

IsToken(m) == m.type \in {"FORM1", "FORM2", "TOKEN"}

Becomes(p, r) == d' = [d EXCEPT ![p] = Forget(r)]

\* Packets on their way: tokens stay available; of the others the network
\* delays at most MaxLate.
Sends(out) ==
    /\ tokens' = tokens \cup {m \in out : IsToken(m)}
    /\ \E keep \in SUBSET {m \in out : ~IsToken(m)} :
         late' = late \cup keep /\ Cardinality(late') <= left.late

\* Token m is processed and out is sent on.
Passed(m, out) ==
    tokens' = (IF out = {} THEN tokens
               ELSE (tokens \ {m}) \cup {[m EXCEPT !.seen = TRUE]}) \cup out

\* A token p sent, or processed, is out of the network by the time p has waited
\* for Token_timeout or Form_timeout, or has been started again.
Expired(p) == {m \in tokens : m.from = p \/ (m.to = p /\ m.seen)}

\* Copies of the form tokens p has processed do not outlive the rounds of the
\* regular token that install a membership.
Outlived(p) == {m \in tokens : m.to = p /\ m.seen /\ m.type # "TOKEN"}

\* Nor, unless LateForms, do those of a daemon whose membership breaks up.
Abandoned ==
    IF LateForms THEN {}
    ELSE UNION {Outlived(p) : p \in {q \in Procs : d[q].State = "EVS" /\ d'[q].State = "SEG"}}

\* One of the bounds is used up by one.
Spend(bound) == left[bound] > 0 /\ left' = [left EXCEPT ![bound] = @ - 1]

\* Expiry of a timer queued with E_queue.
Expire(p, timer) ==
    /\ timer \in d[p].timers
    /\ UNCHANGED <<clock, views>>

Popped(p, timer) == [d[p] EXCEPT !.timers = @ \ {timer}]

Memb_token_loss_event(p) ==
    /\ Expire(p, "token_loss")
    /\ Becomes(p, Memb_token_loss(Popped(p, "token_loss")))
    /\ tokens' = tokens \ Expired(p)
    /\ Spend("losses")
    /\ UNCHANGED late

Gather_or_represented_event(p) ==
    /\ Expire(p, "Gather_or_represented")
    /\ Becomes(p, Gather_or_represented(Popped(p, "Gather_or_represented")))
    /\ UNCHANGED <<tokens, late, left>>

Shift_to_seg_event(p) ==
    /\ Expire(p, "Shift_to_seg")
    /\ Becomes(p, Shift_to_seg(Popped(p, "Shift_to_seg")))
    /\ Spend("losses")
    /\ UNCHANGED <<tokens, late>>

Form_or_fail_event(p) ==
    /\ Expire(p, "Form_or_fail")
    /\ LET res == Form_or_fail(Popped(p, "Form_or_fail"), clock[p])
       IN  /\ Becomes(p, res.d) /\ Sends(res.out)
           /\ IF res.d.State = "FORM" THEN Spend("forms") ELSE UNCHANGED left

Memb_lookup_new_members_event(p) ==
    /\ Expire(p, "lookup")
    /\ LET res == Memb_lookup_new_members(Popped(p, "lookup"))
       IN  Becomes(p, res.d) /\ Sends(res.out)
    /\ Spend("losses")

\* The periodic sends: the receiver q gets the packet now, or it is delayed.
Scast_alive_event(p) ==
    /\ Expire(p, "Scast_alive")
    /\ Sends(Scast_alive(d[p]))
    /\ UNCHANGED <<d, left>>

Send_join_event(p) ==
    /\ Expire(p, "Send_join")
    /\ Sends(Send_join(d[p]))
    /\ UNCHANGED <<d, left>>

\* Packets daemon q may receive now: the delayed ones, and those of a daemon
\* that is sending periodically.
Arriving(q) ==
    {m \in late : m.to = q}
    \cup {m \in UNION {IF "Scast_alive" \in d[p].timers THEN Scast_alive(d[p])
                       ELSE IF "Send_join" \in d[p].timers THEN Send_join(d[p])
                       ELSE {} : p \in Procs \ {q}} : m.to = q}

Arrives(p, m, type) ==
    /\ d[p].running = "up"
    /\ m.type = type /\ m.to = p
    /\ IF IsToken(m) THEN UNCHANGED left ELSE Spend("arrivals")
    /\ UNCHANGED clock

Recv_alive(p, m) ==
    /\ Arrives(p, m, "ALIVE")
    /\ Becomes(p, Memb_handle_alive(d[p], m))
    /\ late' = late \ {m} /\ tokens' = tokens \ Abandoned
    /\ UNCHANGED views

\* The answer (an ALIVE to the segment or a REFER to the sender) is received
\* at once by one daemon, or delayed, or lost.
Recv_join(p, m) ==
    /\ Arrives(p, m, "JOIN")
    /\ LET res == Memb_handle_join(d[p], m)
           r == [d EXCEPT ![p] = Forget(res.d)]
           Answered(a) == IF a.type = "ALIVE" THEN Memb_handle_alive(d[a.to], a)
                          ELSE Memb_handle_refer(d[a.to], a)
       IN  \/ d' = r /\ late' = late \ {m}
           \/ \E a \in res.out : d[a.to].running = "up"
                                 /\ d' = [r EXCEPT ![a.to] = Forget(Answered(a))]
                                 /\ late' = late \ {m}
           \/ \E a \in res.out : d' = r /\ late' = (late \ {m}) \cup {a}
                                 /\ Cardinality(late') <= left.late
    /\ tokens' = tokens \ Abandoned
    /\ UNCHANGED views

Recv_refer(p, m) ==
    /\ Arrives(p, m, "REFER")
    /\ Becomes(p, Memb_handle_refer(d[p], m))
    /\ late' = late \ {m}
    /\ UNCHANGED <<tokens, views>>

Recv_form1(p, m) ==
    /\ Arrives(p, m, "FORM1")
    /\ LET res == Memb_handle_form1(d[p], m)
       IN  Becomes(p, res.d) /\ Passed(m, res.out)
    /\ UNCHANGED <<late, views>>

Recv_form2(p, m) ==
    /\ Arrives(p, m, "FORM2")
    /\ d[p].State = "FORM" /\ Form2IsForMe(d[p], m)
    /\ LET res == Read_form2(d[p], m, clock[p])
       IN  Becomes(p, res.d) /\ Passed(m, res.out)
    /\ UNCHANGED <<late, views>>

Recv_token(p, m) ==
    /\ Arrives(p, m, "TOKEN")
    /\ TokenAccepted(d[p], m)
    /\ m.arq < MaxArq
    /\ \E complete \in BOOLEAN :
         LET mine == IF d[p].State = "EVS" /\ (complete \/ d[p].recovered) THEN Last_seq ELSE Low
         IN  \E aru \in TokenAru(d[p], m, mine) :
               LET res == Prot_handle_token(d[p], m, complete, aru)
               IN  /\ Becomes(p, res.d)
                   /\ views' = views \cup res.view
                   /\ tokens' = (tokens \ (IF res.view = {} THEN {m} ELSE {m} \cup Outlived(p)))
                                \cup {[m EXCEPT !.seen = TRUE]} \cup res.out
    /\ UNCHANGED late

\* A data packet of a ring that q operates reaches p: directly from its
\* sender, or handed to the ring leader by the leader of a segment.
Recv_foreign(p, q) ==
    /\ d[p].running = "up" /\ d[q].running = "up"
    /\ \/ d[q].State = "OP" /\ d[q].Membership_id # d[p].Membership_id
       \/ [type |-> "FOREIGN", from |-> q, to |-> p] \in late
    /\ LET res == Memb_handle_foreign(d[p], [from |-> q])
       IN  Becomes(p, res.d) /\ Sends(res.out)
    /\ Spend("arrivals")
    /\ UNCHANGED <<clock, views>>

\* A daemon is killed and started again, or started late; its clock has moved
\* past every time it used.
Restart(p) ==
    /\ Spend("restarts")
    /\ d' = [d EXCEPT ![p] = Memb_init(p)]
    /\ clock' = [clock EXCEPT ![p] = Later(@, d[p].Last_time_used + 1)]
    /\ tokens' = tokens \ Expired(p)
    /\ UNCHANGED <<late, views>>

Next ==
    \E p \in Procs :
      \/ Memb_token_loss_event(p)
      \/ Scast_alive_event(p)
      \/ Gather_or_represented_event(p)
      \/ Shift_to_seg_event(p)
      \/ Send_join_event(p)
      \/ Form_or_fail_event(p)
      \/ Memb_lookup_new_members_event(p)
      \/ \E m \in Arriving(p) : Recv_alive(p, m)
      \/ \E m \in Arriving(p) : Recv_join(p, m)
      \/ \E m \in Arriving(p) : Recv_refer(p, m)
      \/ \E m \in tokens : Recv_form1(p, m)
      \/ \E m \in tokens : Recv_form2(p, m)
      \/ \E m \in tokens : Recv_token(p, m)
      \/ \E q \in Procs \ {p} : Recv_foreign(p, q)
      \/ Restart(p)

Spec == Init /\ [][Next]_vars

-----------------------------------------------------------------------------
(* The author's assertion in Memb_token_loss (membership.c:808 and :815): a    *)
(* daemon that has lost its token, and has not got another, is never told      *)
(* again that it lost it, by a timer or by a packet.                           *)
TokenLostOnce == \A p \in Procs : d[p].running # "lost_twice"

(* The author's assertion in Fill_form1 (membership.c:1941): no daemon finds   *)
(* itself already counted among those of its ring that join.                   *)
CountedOnce == \A p \in Procs : d[p].running # "incorrect_trans_set"

(* A membership identifier names one membership: daemons that deliver a       *)
(* regular membership with the same (proc_id, time) deliver the same members. *)
OneMembershipPerId ==
    \A v, w \in views : v.memb_id = w.memb_id => v.members = w.members

(* Transitional sets agree: if two daemons go from the same membership to the *)
(* same next one, each is in the transitional set of the other and the sets   *)
(* are equal.  Message recovery and the transitional signal of Discard_packets *)
(* rest on it.                                                                *)
TransitionalAgreement ==
    \A v, w \in views :
        v.memb_id = w.memb_id /\ v.prev = w.prev => v.trans = w.trans /\ w.proc \in v.trans

(* "there is one per Trans_membership view" (comment at membership.c:2159):    *)
(* daemons that come together carry the same identifier of the transitional   *)
(* membership, which becomes the identifier of the groups that changed.       *)
OneTransIdPerView ==
    \A v, w \in views :
        v.memb_id = w.memb_id /\ v.prev = w.prev => v.trans_id = w.trans_id
=============================================================================
