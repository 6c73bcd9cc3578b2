----------------------- MODULE SpreadMembershipProofs -----------------------
(***************************************************************************)
(* Why the daemon membership protocol names every membership once and      *)
(* splits an old one alike at all its daemons, for any number of daemons,  *)
(* segments, losses, packets and restarts.                                 *)
(*                                                                         *)
(* First part: what the handlers do to the record of a daemon.  Only three *)
(* things matter later: a daemon enters FORM by creating or filling a      *)
(* FORM1 token, enters EVS by reading a FORM2 token, and leaves either     *)
(* when it loses the token, installs the membership, hears a packet of the *)
(* new membership or is started again.                                     *)
(***************************************************************************)
EXTENDS SpreadMembership, FiniteSetTheorems, TLAPS

Fields == {"me", "State", "running", "timers", "Token_alive", "Membership", "Membership_id",
           "Reg_membership", "Future_membership", "Future_membership_id", "Form1_memb_id",
           "F_trans_memb_time", "Last_time_used", "My_seg_rep", "Foreign_found", "F_members",
           "F_reps", "Potential_reps", "Commit_set", "Future_commit_set", "recovered",
           "Last_token"}

\* The states in which a daemon has no token to lose.
Tokenless(r) == r.State \in {"SEG", "REPRESENTED"} \/ (r.State = "GATHER" /\ ~r.Token_alive)

\* The record of a daemon: which timers may be queued in which state.
Sound(r) ==
  /\ DOMAIN r = Fields
  /\ r.running # "lost_twice"
  /\ r.State \in {"OP", "EVS"} => r.Token_alive
  /\ "token_loss" \in r.timers => ~Tokenless(r)
  /\ "Gather_or_represented" \in r.timers => r.State = "SEG"
  /\ "Shift_to_seg" \in r.timers => r.State = "REPRESENTED"
  /\ "Form_or_fail" \in r.timers => r.State = "GATHER"
  /\ r.Last_time_used \in Int
  /\ DOMAIN r.Last_token = {"arq", "aru"}
  /\ r.Last_token.aru \in Nat
  /\ (r.State = "EVS" /\ r.recovered) => r.Commit_set = r.Future_commit_set

\* What daemon r keeps when it becomes s without forming or reading.
Quiet(r, s) ==
  /\ s.me = r.me
  /\ s.State = "EVS" => /\ r.State = "EVS"
                        /\ s.Membership_id = r.Membership_id
                        /\ s.Future_membership = r.Future_membership
                        /\ s.Future_membership_id = r.Future_membership_id
                        /\ s.Future_commit_set = r.Future_commit_set
                        /\ s.F_trans_memb_time = r.F_trans_memb_time
  /\ s.State = "FORM" => /\ r.State = "FORM"
                         /\ s.Membership_id = r.Membership_id
                         /\ s.Form1_memb_id = r.Form1_memb_id

Calm(r, s) == Sound(s) /\ Quiet(r, s) /\ r.Last_time_used <= s.Last_time_used

\* It does not leave a membership that it forms or installs.
Stays(r, s) == r.State \in {"FORM", "EVS"} => s.State = r.State

\* It may leave one because of a packet.
Breaks(r, s) == Stays(r, s) \/ (r.State = "EVS" /\ s.State = "SEG")

LEMMA CalmRefl == ASSUME NEW r, Sound(r) PROVE Calm(r, r) /\ Stays(r, r)
  BY DEF Calm, Quiet, Sound, Stays

LEMMA CalmTrans ==
  ASSUME NEW r, NEW s, NEW t, Sound(r), Calm(r, s), Calm(s, t) PROVE Calm(r, t)
  BY DEF Calm, Quiet, Sound

LEMMA ForgetCalm == ASSUME NEW r, Sound(r) PROVE Calm(r, Forget(r)) /\ Forget(r).State = r.State
<1> DEFINE s == Forget(r)
<1>1. DOMAIN r = Fields
  BY DEF Sound
<1>2. DOMAIN s = Fields
  BY <1>1 DEF Forget
<1>3. s.me = r.me /\ s.State = r.State /\ s.running = r.running
  BY <1>1 DEF Forget, Fields
<1>4. s.Last_time_used = r.Last_time_used /\ s.Last_token = r.Last_token
  BY <1>1 DEF Forget, Fields
<1>5. s.recovered = r.recovered /\ s.Commit_set = r.Commit_set
  BY <1>1 DEF Forget, Fields
<1>6. s.Membership_id = r.Membership_id
  BY <1>1 DEF Forget, Fields
<1>7. s.timers = r.timers /\ s.Token_alive = r.Token_alive
  BY <1>1 DEF Forget, Fields
<1>8. ASSUME r.State = "EVS"
      PROVE  /\ s.Future_membership = r.Future_membership
             /\ s.Future_membership_id = r.Future_membership_id
             /\ s.Future_commit_set = r.Future_commit_set
             /\ s.F_trans_memb_time = r.F_trans_memb_time
  BY <1>1, <1>8 DEF Forget, Fields
<1>9. ASSUME r.State = "FORM" PROVE s.Form1_memb_id = r.Form1_memb_id
  BY <1>1, <1>9 DEF Forget, Fields
<1> HIDE DEF s
<1>10. Sound(s)
  BY <1>1, <1>2, <1>3, <1>4, <1>5, <1>7, <1>8 DEF Sound, Tokenless
<1>11. Quiet(r, s)
  BY <1>3, <1>6, <1>8, <1>9 DEF Quiet
<1>12. Calm(r, s) /\ s.State = r.State
  BY <1>3, <1>4, <1>10, <1>11 DEF Calm, Sound
<1> QED
  BY <1>12 DEF s

\* Fields that the conditions above do not read.
SetMembers(r, x) == [r EXCEPT !.F_members = x]
SetReps(r, x) == [r EXCEPT !.F_reps = x]
SetPotential(r, x) == [r EXCEPT !.Potential_reps = x]
SetSegRep(r, x) == [r EXCEPT !.My_seg_rep = x]
SetForeign(r, x) == [r EXCEPT !.Foreign_found = x]
SetTimers(r, x) == [r EXCEPT !.timers = x]

LEMMA SetCalm ==
  ASSUME NEW r, Sound(r), NEW x
  PROVE  /\ Calm(r, SetMembers(r, x)) /\ SetMembers(r, x).State = r.State
         /\ Calm(r, SetReps(r, x)) /\ SetReps(r, x).State = r.State
         /\ Calm(r, SetPotential(r, x)) /\ SetPotential(r, x).State = r.State
         /\ Calm(r, SetSegRep(r, x)) /\ SetSegRep(r, x).State = r.State
         /\ Calm(r, SetForeign(r, x)) /\ SetForeign(r, x).State = r.State
<1>1. Calm(r, SetMembers(r, x)) /\ SetMembers(r, x).State = r.State
  BY DEF Calm, Quiet, Sound, Tokenless, Fields, SetMembers
<1>2. Calm(r, SetReps(r, x)) /\ SetReps(r, x).State = r.State
  BY DEF Calm, Quiet, Sound, Tokenless, Fields, SetReps
<1>3. Calm(r, SetPotential(r, x)) /\ SetPotential(r, x).State = r.State
  BY DEF Calm, Quiet, Sound, Tokenless, Fields, SetPotential
<1>4. Calm(r, SetSegRep(r, x)) /\ SetSegRep(r, x).State = r.State
  BY DEF Calm, Quiet, Sound, Tokenless, Fields, SetSegRep
<1>5. Calm(r, SetForeign(r, x)) /\ SetForeign(r, x).State = r.State
  BY DEF Calm, Quiet, Sound, Tokenless, Fields, SetForeign
<1> QED
  BY <1>1, <1>2, <1>3, <1>4, <1>5

\* A timer is dropped, or queued in the state it belongs to.
LEMMA TimersCalm ==
  ASSUME NEW r, Sound(r), NEW x,
         \A timer \in x : \/ timer \in r.timers \cup {"lookup"}
                          \/ timer = "Shift_to_seg" /\ r.State = "REPRESENTED"
                          \/ timer = "Form_or_fail" /\ r.State = "GATHER"
  PROVE  Calm(r, SetTimers(r, x)) /\ SetTimers(r, x).State = r.State
  BY DEF Calm, Quiet, Sound, Tokenless, Fields, SetTimers

LEMMA ExitCalm ==
  ASSUME NEW r, Sound(r), NEW why, why # "lost_twice"
  PROVE  Calm(r, Exit(r, why)) /\ Exit(r, why).State = r.State
  BY DEF Calm, Quiet, Sound, Tokenless, Exit, Fields

-----------------------------------------------------------------------------
(* The state shifts *)

LEMMA TokenLossCalm ==
  ASSUME NEW r, Sound(r), ~Tokenless(r)
  PROVE  Calm(r, Memb_token_loss(r)) /\ Memb_token_loss(r).State = "SEG"
<1> DEFINE x == PotentialAfterLoss(r)
           s == Memb_token_loss(r)
<1>1. s = Shift_to_seg([r EXCEPT !.Potential_reps = x,
                     !.Token_alive = FALSE,
                     !.recovered = FALSE,
                     !.timers = @ \ {"token_loss", "Send_join", "Form_or_fail", "lookup"},
                     !.Last_token = [arq |-> 0, aru |-> Low],
                     !.Membership = {r.me}])
  BY DEF Memb_token_loss, Tokenless
<1> HIDE DEF x, s
<1>2. DOMAIN r = Fields /\ r.Last_time_used \in Int /\ r.running # "lost_twice"
  BY DEF Sound
<1>3. /\ DOMAIN s = Fields /\ s.me = r.me /\ s.State = "SEG" /\ s.running = r.running
      /\ s.Last_time_used = r.Last_time_used /\ s.Last_token = [arq |-> 0, aru |-> Low]
  BY <1>1, <1>2 DEF Shift_to_seg, Fields
<1>4. s.timers = (r.timers \ {"token_loss", "Send_join", "Form_or_fail", "lookup"})
                    \cup {"Scast_alive", "Gather_or_represented"}
  BY <1>1, <1>2 DEF Shift_to_seg, Fields
<1>5. "Shift_to_seg" \notin r.timers
  BY DEF Sound, Tokenless
<1>6. Sound(s)
  BY <1>2, <1>3, <1>4, <1>5 DEF Sound, Tokenless, Low
<1> QED
  BY <1>2, <1>3, <1>6 DEF Calm, Quiet, s

LEMMA LostWithCalm ==
  ASSUME NEW r, Sound(r), ~Tokenless(r), NEW q
  PROVE  Calm(r, LostWith(r, q)) /\ LostWith(r, q).State = "SEG"
<1> DEFINE s == Memb_token_loss(r)
           x == Insert_member(s.F_members, q)
<1>1. Calm(r, s) /\ s.State = "SEG"
  BY TokenLossCalm
<1>2. LostWith(r, q) = SetMembers(s, x)
  BY DEF LostWith, SetMembers
<1> HIDE DEF s, x
<1>3. Sound(s)
  BY <1>1 DEF Calm
<1> QED
  BY <1>1, <1>2, <1>3, SetCalm, CalmTrans

LEMMA ShiftGatherCalm ==
  ASSUME NEW r, Sound(r), r.State \in {"OP", "SEG", "GATHER"},
         "Gather_or_represented" \notin r.timers
  PROVE  Calm(r, Shift_to_gather(r)) /\ Shift_to_gather(r).State = "GATHER"
<1> DEFINE s == Shift_to_gather(r)
<1>1. DOMAIN r = Fields /\ r.Last_time_used \in Int /\ r.running # "lost_twice"
  BY DEF Sound
<1>2. /\ DOMAIN s = Fields /\ s.me = r.me /\ s.State = "GATHER" /\ s.running = r.running
      /\ s.Last_time_used = r.Last_time_used /\ s.Last_token = r.Last_token
      /\ s.Token_alive = r.Token_alive
  BY <1>1 DEF Shift_to_gather, Fields
<1>3. s.timers = (r.timers \ {"Scast_alive", "lookup"}) \cup {"Send_join", "Form_or_fail"}
  BY <1>1 DEF Shift_to_gather, Fields
<1> HIDE DEF s
<1>4. "token_loss" \in r.timers => r.Token_alive
  BY DEF Sound, Tokenless
<1>5. Sound(s)
  BY <1>1, <1>2, <1>3, <1>4 DEF Sound, Tokenless
<1> QED
  BY <1>1, <1>2, <1>5 DEF Calm, Quiet, s

LEMMA ShiftRepresentedCalm ==
  ASSUME NEW r, Sound(r), r.State = "SEG"
  PROVE  Calm(r, Shift_to_represented(r)) /\ Shift_to_represented(r).State = "REPRESENTED"
<1> DEFINE s == Shift_to_represented(r)
<1>1. DOMAIN r = Fields /\ r.Last_time_used \in Int /\ r.running # "lost_twice"
  BY DEF Sound
<1>2. /\ DOMAIN s = Fields /\ s.me = r.me /\ s.State = "REPRESENTED" /\ s.running = r.running
      /\ s.Last_time_used = r.Last_time_used /\ s.Last_token = r.Last_token
  BY <1>1 DEF Shift_to_represented, Fields
<1>3. s.timers = (r.timers \ {"Scast_alive", "Gather_or_represented"}) \cup {"Shift_to_seg"}
  BY <1>1 DEF Shift_to_represented, Fields
<1> HIDE DEF s
<1>4. "token_loss" \notin r.timers /\ "Form_or_fail" \notin r.timers
  BY DEF Sound, Tokenless
<1>5. Sound(s)
  BY <1>1, <1>2, <1>3, <1>4 DEF Sound, Tokenless
<1> QED
  BY <1>1, <1>2, <1>5 DEF Calm, Quiet, s

LEMMA ShiftSegCalm ==
  ASSUME NEW r, Sound(r), r.State = "REPRESENTED", "Shift_to_seg" \notin r.timers
  PROVE  Calm(r, Shift_to_seg(r)) /\ Shift_to_seg(r).State = "SEG"
<1> DEFINE s == Shift_to_seg(r)
<1>1. DOMAIN r = Fields /\ r.Last_time_used \in Int /\ r.running # "lost_twice"
  BY DEF Sound
<1>2. /\ DOMAIN s = Fields /\ s.me = r.me /\ s.State = "SEG" /\ s.running = r.running
      /\ s.Last_time_used = r.Last_time_used /\ s.Last_token = r.Last_token
  BY <1>1 DEF Shift_to_seg, Fields
<1>3. s.timers = r.timers \cup {"Scast_alive", "Gather_or_represented"}
  BY <1>1 DEF Shift_to_seg, Fields
<1> HIDE DEF s
<1>4. "token_loss" \notin r.timers /\ "Form_or_fail" \notin r.timers
  BY DEF Sound, Tokenless
<1>5. Sound(s)
  BY <1>1, <1>2, <1>3, <1>4 DEF Sound, Tokenless
<1> QED
  BY <1>1, <1>2, <1>5 DEF Calm, Quiet, s

LEMMA ShiftOpCalm ==
  ASSUME NEW r, Sound(r), r.State = "GATHER", r.Token_alive, "Form_or_fail" \notin r.timers
  PROVE  Calm(r, Shift_to_op(r)) /\ Shift_to_op(r).State = "OP"
  BY DEF Calm, Quiet, Sound, Tokenless, Shift_to_op, Fields

-----------------------------------------------------------------------------
(* The packet handlers and the other timers *)

NoTokens(out) == \A m \in out : ~IsToken(m)

LEMMA PacketsAreNoTokens ==
  ASSUME NEW r, NEW q, NEW x, NEW y
  PROVE  NoTokens({}) /\ NoTokens(Scast_alive(r)) /\ NoTokens(JoinTo(r, x))
         /\ NoTokens(Refer(r, q, x, y))
  BY DEF NoTokens, IsToken, Scast_alive, JoinTo, Refer

LEMMA AliveCalm ==
  ASSUME NEW r, Sound(r), NEW m
  PROVE  Calm(r, Memb_handle_alive(r, m)) /\ Breaks(r, Memb_handle_alive(r, m))
<1> DEFINE s == Memb_handle_alive(r, m)
           x == Insert_member(r.F_members, m.from)
<1>1. CASE ~Tokenless(r) /\ s = LostWith(r, m.from) /\ r.State # "FORM"
  <2>1. Calm(r, LostWith(r, m.from)) /\ LostWith(r, m.from).State = "SEG"
    BY <1>1, LostWithCalm
  <2> HIDE DEF s
  <2> QED
    BY <1>1, <2>1 DEF Breaks, Stays, s
<1>2. CASE s = SetMembers(r, x)
  BY <1>2, SetCalm DEF Breaks, Stays
<1>3. CASE r.State = "REPRESENTED" /\ s = SetTimers(r, r.timers \cup {"Shift_to_seg"})
  BY <1>3, TimersCalm DEF Breaks, Stays
<1>4. CASE s = r
  BY <1>4, CalmRefl DEF Breaks
<1>5. \/ ~Tokenless(r) /\ s = LostWith(r, m.from) /\ r.State # "FORM"
      \/ s = SetMembers(r, x)
      \/ r.State = "REPRESENTED" /\ s = SetTimers(r, r.timers \cup {"Shift_to_seg"})
      \/ s = r
  <2> HIDE DEF x
  <2>1. CASE r.State = "OP"
    BY <2>1 DEF Memb_handle_alive, Tokenless
  <2>2. CASE r.State = "SEG"
    BY <2>2 DEF Memb_handle_alive, SetMembers, x
  <2>3. CASE r.State = "REPRESENTED"
    BY <2>3 DEF Memb_handle_alive, SetTimers
  <2>4. CASE r.State = "GATHER" /\ ~r.Token_alive
    BY <2>4 DEF Memb_handle_alive, SetMembers, x
  <2>5. CASE r.State = "GATHER" /\ r.Token_alive
    BY <2>5 DEF Memb_handle_alive, Tokenless
  <2>6. CASE r.State = "EVS"
    BY <2>6 DEF Memb_handle_alive, Tokenless
  <2>7. CASE r.State \notin {"OP", "SEG", "REPRESENTED", "GATHER", "EVS"}
    BY <2>7 DEF Memb_handle_alive
  <2> QED
    BY <2>1, <2>2, <2>3, <2>4, <2>5, <2>6, <2>7
<1> QED
  BY <1>1, <1>2, <1>3, <1>4, <1>5

LEMMA ReferCalm ==
  ASSUME NEW r, Sound(r), NEW m
  PROVE  Calm(r, Memb_handle_refer(r, m)) /\ Stays(r, Memb_handle_refer(r, m))
<1> DEFINE x == Insert_rep(r.Potential_reps, Rep(m.rep, m.as))
<1>1. Memb_handle_refer(r, m) = SetPotential(r, x) \/ Memb_handle_refer(r, m) = r
  BY DEF Memb_handle_refer, SetPotential
<1> HIDE DEF x
<1> QED
  BY <1>1, SetCalm, CalmRefl DEF Stays

\* A JOIN in OP: the token is lost, the leader gathers, others refer.
LEMMA JoinInOPCalm ==
  ASSUME NEW r, Sound(r), r.State = "OP", NEW m
  PROVE  /\ Calm(r, JoinInOP(r, m).d)
         /\ NoTokens(JoinInOP(r, m).out)
<1> DEFINE res == JoinInOP(r, m)
           x == <<m.reps[1]>>
           s == SetMembers(SetPotential(r, x), <<>>)
<1>1. DOMAIN r = Fields
  BY DEF Sound
<1>2. Calm(r, SetPotential(r, x)) /\ SetPotential(r, x).State = "OP"
  BY SetCalm
<1>3. Calm(r, s) /\ s.State = "OP" /\ Sound(s)
  <2> HIDE DEF x
  <2>1. Sound(SetPotential(r, x))
    BY <1>2 DEF Calm
  <2> QED
    BY <1>2, <2>1, SetCalm, CalmTrans DEF Calm
<1>4. "Gather_or_represented" \notin s.timers
  BY <1>3 DEF Sound
<1>5. Calm(s, Shift_to_gather(s))
  <2> HIDE DEF s
  <2> QED
    BY <1>3, <1>4, ShiftGatherCalm
<1>6. Calm(r, Shift_to_gather(s))
  <2> HIDE DEF s
  <2> QED
    BY <1>3, <1>5, CalmTrans
<1>7. s = [r EXCEPT !.Potential_reps = x, !.F_members = <<>>]
  BY <1>1 DEF SetMembers, SetPotential
<1>8. \/ res = Result(Memb_token_loss(r), {})
      \/ res = Result(r, {})
      \/ res = Result(Shift_to_gather(s), {})
      \/ res = Result(r, Refer(r, m.from, Conf_leader(r.Membership), "RING"))
  <2> DEFINE s1 == [r EXCEPT !.Potential_reps = x, !.F_members = <<>>]
  <2>1. \/ res = Result(Memb_token_loss(r), {})
        \/ res = Result(r, {})
        \/ res = Result(Shift_to_gather(s1), {})
        \/ res = Result(r, Refer(r, m.from, Conf_leader(r.Membership), "RING"))
    BY DEF JoinInOP
  <2> HIDE DEF s1, s, res
  <2> QED
    BY <1>7, <2>1 DEF s1
<1>9. Calm(r, Memb_token_loss(r))
  BY TokenLossCalm DEF Tokenless
<1> HIDE DEF res, s, x
<1> QED
  BY <1>6, <1>8, <1>9, CalmRefl, PacketsAreNoTokens DEF Result, res

LEMMA JoinCalm ==
  ASSUME NEW r, Sound(r), NEW m
  PROVE  /\ Calm(r, Memb_handle_join(r, m).d)
         /\ Breaks(r, Memb_handle_join(r, m).d)
         /\ NoTokens(Memb_handle_join(r, m).out)
<1> DEFINE res == Memb_handle_join(r, m)
           seg == SetSegRep(r, m.from)
<1>1. Calm(r, seg) /\ Sound(seg) /\ seg.State = r.State
  <2>1. Calm(r, seg) /\ seg.State = r.State
    BY SetCalm
  <2> QED
    BY <2>1 DEF Calm
<1>2. CASE r.State = "OP"
  <2>1. res = JoinInOP(r, m)
    BY <1>2 DEF Memb_handle_join
  <2> HIDE DEF res
  <2> QED
    BY <1>2, <2>1, JoinInOPCalm DEF Breaks, Stays, res
<1>3. CASE r.State = "SEG" /\ IsMySegRep(r, m)
  <2>1. res = Result(Shift_to_represented(seg), Scast_alive(r))
    BY <1>3 DEF Memb_handle_join, SetSegRep
  <2> HIDE DEF res, seg
  <2>2. Calm(seg, Shift_to_represented(seg))
    BY <1>1, <1>3, ShiftRepresentedCalm
  <2>3. Calm(r, Shift_to_represented(seg))
    BY <1>1, <2>2, CalmTrans
  <2> QED
    BY <1>3, <2>1, <2>3, PacketsAreNoTokens DEF Breaks, Stays, Result, res
<1>4. CASE r.State = "REPRESENTED" /\ IsMySegRep(r, m)
  <2> DEFINE x == seg.timers \cup {"Shift_to_seg"}
  <2>1. DOMAIN r = Fields
    BY DEF Sound
  <2>2. res = Result(SetTimers(seg, x), Scast_alive(r))
    BY <1>4, <2>1 DEF Memb_handle_join, SetSegRep, SetTimers, Fields
  <2> HIDE DEF res, seg
  <2>3. Calm(seg, SetTimers(seg, x))
    BY <1>1, <1>4, TimersCalm
  <2>4. Calm(r, SetTimers(seg, x))
    BY <1>1, <2>3, CalmTrans
  <2> QED
    BY <1>4, <2>2, <2>4, PacketsAreNoTokens DEF Breaks, Stays, Result, res
<1>5. CASE r.State = "REPRESENTED" /\ ~IsMySegRep(r, m)
  <2>1. res = Result(r, {}) \/ res = Result(r, Refer(r, m.from, r.My_seg_rep, "SEG"))
    BY <1>5 DEF Memb_handle_join
  <2> HIDE DEF res
  <2> QED
    BY <2>1, CalmRefl, PacketsAreNoTokens DEF Breaks, Result, res
<1>6. CASE r.State = "GATHER"
  <2> DEFINE x == Insert_rep(r.F_reps, m.reps[1])
             y == Insert_reps(r.Potential_reps, m.reps)
             s == SetPotential(SetReps(r, x), y)
             z == s.timers \cup {"Form_or_fail"}
  <2>1. DOMAIN r = Fields
    BY DEF Sound
  <2>2. res = Result(JoinInGATHER(r, m), {})
    BY <1>6 DEF Memb_handle_join
  <2>3. JoinInGATHER(r, m) \in {s, SetTimers(s, z)}
    <3>1. s = [r EXCEPT !.F_reps = x, !.Potential_reps = y]
      BY <2>1 DEF SetReps, SetPotential, Fields
    <3>2. s = [r EXCEPT !.F_reps = Insert_rep(@, m.reps[1]),
                        !.Potential_reps = Insert_reps(@, m.reps)]
      BY <3>1
    <3> HIDE DEF s
    <3> QED
      BY <3>2 DEF JoinInGATHER, SetTimers
  <2>4. Calm(r, SetReps(r, x)) /\ SetReps(r, x).State = r.State
    BY SetCalm
  <2> HIDE DEF x, y
  <2>5. Sound(SetReps(r, x))
    BY <2>4 DEF Calm
  <2>6. Calm(SetReps(r, x), s) /\ s.State = r.State
    BY <2>4, <2>5, SetCalm
  <2>7. Calm(r, s) /\ Sound(s)
    BY <2>4, <2>6, CalmTrans DEF Calm
  <2> HIDE DEF s
  <2>8. Calm(s, SetTimers(s, z))
    BY <1>6, <2>6, <2>7, TimersCalm
  <2>9. Calm(r, SetTimers(s, z))
    BY <2>7, <2>8, CalmTrans
  <2> HIDE DEF res, z
  <2> QED
    BY <1>6, <2>2, <2>3, <2>7, <2>9, PacketsAreNoTokens DEF Breaks, Stays, Result, res
<1>7. CASE r.State = "EVS" /\ m.from \in r.Future_membership
  <2>1. res = Result(LostWith(r, m.from), {})
    BY <1>7 DEF Memb_handle_join
  <2>2. Calm(r, LostWith(r, m.from)) /\ LostWith(r, m.from).State = "SEG"
    BY <1>7, LostWithCalm DEF Tokenless
  <2> HIDE DEF res
  <2> QED
    BY <1>7, <2>1, <2>2, PacketsAreNoTokens DEF Breaks, Stays, Result, res
<1>8. CASE /\ r.State \notin {"OP", "REPRESENTED", "GATHER"}
           /\ ~(r.State = "SEG" /\ IsMySegRep(r, m))
           /\ ~(r.State = "EVS" /\ m.from \in r.Future_membership)
  <2>1. res = Result(r, {})
    BY <1>8 DEF Memb_handle_join
  <2> HIDE DEF res
  <2> QED
    BY <2>1, CalmRefl, PacketsAreNoTokens DEF Breaks, Result, res
<1> QED
  BY <1>2, <1>3, <1>4, <1>5, <1>6, <1>7, <1>8

LEMMA LookupCalm ==
  ASSUME NEW r, Sound(r)
  PROVE  /\ Calm(r, Memb_lookup_new_members(r).d)
         /\ Stays(r, Memb_lookup_new_members(r).d)
         /\ NoTokens(Memb_lookup_new_members(r).out)
<1> DEFINE res == Memb_lookup_new_members(r)
           x == <<Rep(r.me, "RING")>>
           s == SetReps(SetMembers(SetPotential(r, <<>>), <<>>), x)
           missing == IF Conf_num_segments = 1 THEN InSegment(Procs, SegOf[r.me])
                      ELSE Procs \ r.Reg_membership
<1>1. CASE r.State # "OP"
  <2>1. res = Result(r, {})
    BY <1>1 DEF Memb_lookup_new_members
  <2> HIDE DEF res
  <2> QED
    BY <2>1, CalmRefl, PacketsAreNoTokens DEF Result, res
<1>2. CASE r.State = "OP"
  <2>1. DOMAIN r = Fields
    BY DEF Sound
  <2>2. s = [r EXCEPT !.Potential_reps = <<>>, !.F_members = <<>>,
                       !.F_reps = <<Rep(r.me, "RING")>>]
    BY <2>1 DEF SetReps, SetMembers, SetPotential, Fields
  <2> HIDE DEF x
  <2>3. Calm(r, SetPotential(r, <<>>)) /\ SetPotential(r, <<>>).State = "OP"
    BY <1>2, SetCalm
  <2>4. Calm(SetPotential(r, <<>>), SetMembers(SetPotential(r, <<>>), <<>>))
        /\ SetMembers(SetPotential(r, <<>>), <<>>).State = "OP"
    BY <2>3, SetCalm DEF Calm
  <2>5. Calm(SetMembers(SetPotential(r, <<>>), <<>>), s) /\ s.State = "OP"
    BY <2>4, SetCalm DEF Calm
  <2>6. Calm(r, s) /\ Sound(s)
    <3>1. Calm(r, SetMembers(SetPotential(r, <<>>), <<>>))
      BY <2>3, <2>4, CalmTrans
    <3> HIDE DEF s
    <3> QED
      BY <2>5, <3>1, CalmTrans DEF Calm
  <2> HIDE DEF s
  <2>7. Calm(s, Shift_to_gather(s))
    <3>1. "Gather_or_represented" \notin s.timers
      BY <2>5, <2>6 DEF Sound
    <3> QED
      BY <2>5, <2>6, <3>1, ShiftGatherCalm
  <2>8. Calm(r, Shift_to_gather(s))
    BY <2>6, <2>7, CalmTrans
  <2>9. res = Result(s, JoinTo(s, missing))
        \/ res = Result(Shift_to_gather(s), JoinTo(s, missing))
    <3> DEFINE s1 == [r EXCEPT !.Potential_reps = <<>>, !.F_members = <<>>,
                       !.F_reps = <<Rep(r.me, "RING")>>]
    <3>1. res = Result(IF missing = {} THEN s1 ELSE Shift_to_gather(s1), JoinTo(s1, missing))
      BY <1>2 DEF Memb_lookup_new_members
    <3> HIDE DEF s1, missing, res
    <3>2. s1 = s
      BY <2>2 DEF s1
    <3> QED
      BY <3>1, <3>2
  <2> HIDE DEF res, missing
  <2> QED
    BY <1>2, <2>6, <2>8, <2>9, PacketsAreNoTokens DEF Stays, Result, res
<1> QED
  BY <1>1, <1>2

LEMMA ForeignCalm ==
  ASSUME NEW r, Sound(r), NEW m
  PROVE  /\ Calm(r, Memb_handle_foreign(r, m).d)
         /\ Stays(r, Memb_handle_foreign(r, m).d)
         /\ NoTokens(Memb_handle_foreign(r, m).out)
<1> DEFINE res == Memb_handle_foreign(r, m)
           s == SetForeign(r, TRUE)
           sent == {[type |-> "FOREIGN", from |-> m.from, to |-> Conf_leader(r.Membership)]}
<1>1. \/ res = Result(r, {})
      \/ res = Memb_lookup_new_members(r)
      \/ res = Result(s, sent)
  BY DEF Memb_handle_foreign, SetForeign
<1>2. NoTokens(sent)
  BY DEF NoTokens, IsToken
<1>3. Calm(r, s) /\ s.State = r.State
  BY SetCalm
<1> HIDE DEF res, sent, s
<1>4. CASE res = Result(r, {})
  BY <1>4, CalmRefl, PacketsAreNoTokens DEF Result, res
<1>5. CASE res = Memb_lookup_new_members(r)
  BY <1>5, LookupCalm DEF res
<1>6. CASE res = Result(s, sent)
  BY <1>2, <1>3, <1>6 DEF Stays, Result, res
<1> QED
  BY <1>1, <1>4, <1>5, <1>6

LEMMA GatherOrRepresentedCalm ==
  ASSUME NEW r, Sound(r), r.State = "SEG", "Gather_or_represented" \notin r.timers
  PROVE  /\ Calm(r, Gather_or_represented(r))
         /\ Stays(r, Gather_or_represented(r))
<1> DEFINE s == SetSegRep(r, 0)
<1>1. Calm(r, s) /\ Sound(s) /\ s.State = "SEG" /\ s.timers = r.timers
  <2>1. Calm(r, s) /\ s.State = "SEG"
    BY SetCalm
  <2>2. s.timers = r.timers
    BY DEF SetSegRep, Sound, Fields
  <2> QED
    BY <2>1, <2>2 DEF Calm
<1>2. Gather_or_represented(r) \in {Shift_to_gather(s), Shift_to_represented(s)}
  BY DEF Gather_or_represented, SetSegRep
<1> HIDE DEF s
<1>3. Calm(s, Shift_to_gather(s)) /\ Calm(s, Shift_to_represented(s))
  BY <1>1, ShiftGatherCalm, ShiftRepresentedCalm
<1>4. Calm(r, Shift_to_gather(s)) /\ Calm(r, Shift_to_represented(s))
  BY <1>1, <1>3, CalmTrans
<1> QED
  BY <1>2, <1>4 DEF Stays

\* The fields of a daemon that creates or has filled a FORM1 token.
LEMMA ShiftToFormSound ==
  ASSUME NEW r, Sound(r), NEW id, NEW reps, r.State \in {"OP", "REPRESENTED", "GATHER"}
  PROVE  LET s == ShiftToForm(r, id, reps)
         IN  /\ Sound(s) /\ s.me = r.me /\ s.State = "FORM" /\ s.Form1_memb_id = id
             /\ s.Membership_id = r.Membership_id /\ s.Last_time_used = r.Last_time_used
<1> DEFINE x == PotentialOf(r, reps)
           s == ShiftToForm(r, id, reps)
<1>1. DOMAIN r = Fields /\ r.running # "lost_twice"
  BY DEF Sound
<1>2. s = [r EXCEPT !.State = "FORM", !.Token_alive = FALSE, !.Form1_memb_id = id,
              !.Potential_reps = x,
              !.timers = (@ \ {"Send_join", "Form_or_fail", "Shift_to_seg"}) \cup {"token_loss"}]
  BY DEF ShiftToForm
<1> HIDE DEF x, s
<1>3. /\ DOMAIN s = Fields /\ s.me = r.me /\ s.State = "FORM" /\ s.Form1_memb_id = id
      /\ s.Membership_id = r.Membership_id /\ s.Last_time_used = r.Last_time_used
      /\ s.Last_token = r.Last_token /\ s.running = r.running
  BY <1>1, <1>2 DEF Fields
<1>4. s.timers = (r.timers \ {"Send_join", "Form_or_fail", "Shift_to_seg"}) \cup {"token_loss"}
  BY <1>1, <1>2 DEF Fields
<1>5. Sound(s)
  BY <1>1, <1>3, <1>4 DEF Sound, Tokenless
<1> QED
  BY <1>3, <1>5 DEF s

\* What Create_form1 does: the daemon is in FORM under an identifier it never
\* used, and the token lists its ring with it in the transitional set.
FormId(r, now) == [proc_id |-> r.me, time |-> MembTime(r, now)]

SendsFirst(r, now, out) ==
  \E members, reps :
    out = SendForm1([memb_id |-> FormId(r, now), members |-> members, n |-> 1,
                     reps |-> reps, rep_index |-> 2, rings |-> {MyRing(r)}], r.me)

LEMMA CreateForm1 ==
  ASSUME NEW r, Sound(r), NEW now \in Int, r.State = "GATHER"
  PROVE  LET s == Create_form1(r, now).d
         IN  /\ Sound(s) /\ s.me = r.me /\ s.State = "FORM"
             /\ s.Form1_memb_id = FormId(r, now) /\ s.Last_time_used = MembTime(r, now)
             /\ s.Membership_id = r.Membership_id
             /\ SendsFirst(r, now, Create_form1(r, now).out)
<1> DEFINE time == MembTime(r, now)
           id == FormId(r, now)
           all == IF r.F_reps[1].type = "RING" THEN SetToSortSeq(r.Membership, <)
                  ELSE r.F_members
           others == {r.F_reps[i].proc_id : i \in DOMAIN r.F_reps} \ {r.me}
           reps == Sort_reps(r.F_reps)
           members == SelectSeq(all, LAMBDA p : p \notin others)
           r2 == [r EXCEPT !.Last_time_used = time, !.F_reps = reps]
           t == [memb_id |-> id, members |-> members, n |-> 1, reps |-> reps,
                 rep_index |-> 2, rings |-> {MyRing(r)}]
           res == Create_form1(r, now)
<1>1. res = Result(ShiftToForm(r2, id, reps), SendForm1(t, r.me))
  BY DEF Create_form1, MembTime, FormId
<1> HIDE DEF members, reps, res
<1>2. DOMAIN r = Fields /\ time \in Int
  BY DEF Sound, MembTime, Later
<1>3. Sound(r2) /\ r2.me = r.me /\ r2.State = "GATHER" /\ r2.Membership_id = r.Membership_id
      /\ r2.Last_time_used = time
  <2> HIDE DEF time
  <2> QED
    BY <1>2 DEF Sound, Tokenless, Fields
<1> HIDE DEF r2, time
<1>4. LET s == ShiftToForm(r2, id, reps)
      IN  /\ Sound(s) /\ s.me = r2.me /\ s.State = "FORM" /\ s.Form1_memb_id = id
          /\ s.Membership_id = r2.Membership_id /\ s.Last_time_used = r2.Last_time_used
  BY <1>3, ShiftToFormSound
<1>5. res.d = ShiftToForm(r2, id, reps) /\ res.out = SendForm1(t, r.me)
  BY <1>1 DEF Result
<1>6. SendsFirst(r, now, res.out)
  BY <1>5 DEF SendsFirst
<1> QED
  BY <1>3, <1>4, <1>5, <1>6 DEF res, time

\* Form_or_fail: back to OP, a new attempt, or another round of gathering.
LEMMA FormOrFail ==
  ASSUME NEW r, Sound(r), r.State = "GATHER", "Form_or_fail" \notin r.timers, NEW now
  PROVE  LET res == Form_or_fail(r, now)
         IN  \/ Calm(r, res.d) /\ NoTokens(res.out) /\ res.d.State # "FORM"
             \/ res = Create_form1(r, now)
<1> DEFINE x == (r.timers \ {"Send_join"}) \cup {"lookup"}
           s == SetTimers(r, x)
           y == Insert_reps(<<>>, Tail(r.F_reps))
           u == SetPotential(SetMembers(r, <<r.me>>), y)
           res == Form_or_fail(r, now)
<1>1. DOMAIN r = Fields
  BY DEF Sound
<1>2. s = [r EXCEPT !.timers = (@ \ {"Send_join"}) \cup {"lookup"}]
  BY DEF SetTimers
<1>3. u = [r EXCEPT !.F_members = <<r.me>>, !.Potential_reps = Insert_reps(<<>>, Tail(r.F_reps))]
  BY <1>1 DEF SetMembers, SetPotential, Fields
<1>4. \/ r.Token_alive /\ res = Result(Shift_to_op(s), {})
      \/ res = Create_form1(r, now)
      \/ res = Result(Shift_to_gather(u), {})
  <2> HIDE DEF s, u
  <2> QED
    BY <1>2, <1>3 DEF Form_or_fail
<1>5. CASE r.Token_alive /\ res = Result(Shift_to_op(s), {})
  <2>1. Calm(r, s) /\ s.State = "GATHER"
    BY TimersCalm
  <2>2. s.Token_alive /\ s.timers = x
    BY <1>1, <1>5 DEF SetTimers, Fields
  <2> HIDE DEF s
  <2>3. Calm(s, Shift_to_op(s)) /\ Shift_to_op(s).State = "OP"
    BY <2>1, <2>2, ShiftOpCalm DEF Calm
  <2>4. Calm(r, Shift_to_op(s))
    BY <2>1, <2>3, CalmTrans
  <2> HIDE DEF res
  <2> QED
    BY <1>5, <2>3, <2>4, PacketsAreNoTokens DEF Result, res
<1>6. CASE res = Result(Shift_to_gather(u), {})
  <2>1. Calm(r, SetMembers(r, <<r.me>>)) /\ SetMembers(r, <<r.me>>).State = "GATHER"
    BY SetCalm
  <2> HIDE DEF y
  <2>2. Calm(SetMembers(r, <<r.me>>), u) /\ u.State = "GATHER"
    BY <2>1, SetCalm DEF Calm
  <2>3. Calm(r, u) /\ Sound(u)
    BY <2>1, <2>2, CalmTrans DEF Calm
  <2> HIDE DEF u
  <2>4. Calm(u, Shift_to_gather(u)) /\ Shift_to_gather(u).State = "GATHER"
    BY <2>2, <2>3, ShiftGatherCalm DEF Sound
  <2>5. Calm(r, Shift_to_gather(u))
    BY <2>3, <2>4, CalmTrans
  <2> HIDE DEF res
  <2> QED
    BY <1>6, <2>4, <2>5, PacketsAreNoTokens DEF Result, res
<1> HIDE DEF res
<1> QED
  BY <1>4, <1>5, <1>6 DEF res

-----------------------------------------------------------------------------
(* Tokens *)

Header == {"type", "from", "to", "seen"}
Form1Fields == Header \cup {"memb_id", "members", "n", "reps", "rep_index", "rings"}
Form2Fields == Header \cup {"memb_id", "members", "n", "m_id", "rings"}
TokenFields == Header \cup {"memb_id", "arq", "aru", "aru_last_id"}

\* One entry per old ring.
RingsOK(rings) ==
  /\ IsFiniteSet(rings)
  /\ \A g \in rings : DOMAIN g = {"memb_id", "trans", "commit", "trans_time"}
  /\ \A g, h \in rings : g.memb_id = h.memb_id => g = h

TokenOK(m) ==
  /\ m.type \in {"FORM1", "FORM2", "TOKEN"}
  /\ m.seen \in BOOLEAN
  /\ m.type = "FORM1" => DOMAIN m = Form1Fields /\ RingsOK(m.rings)
  /\ m.type = "FORM2" => DOMAIN m = Form2Fields /\ RingsOK(m.rings) /\ m.n \in Nat
  /\ m.type = "TOKEN" => DOMAIN m = TokenFields /\ m.aru \in Nat

\* x is a token of that header and body.
IsTokenOf(x, type, p, q, body) ==
  /\ DOMAIN x = DOMAIN body \cup Header
  /\ x.type = type /\ x.from = p /\ x.to = q /\ x.seen = FALSE
  /\ \A f \in DOMAIN body \ Header : x[f] = body[f]

LEMMA TokenIs ==
  ASSUME NEW type, NEW p, NEW q, NEW body
  PROVE  IsTokenOf(Token(type, p, q, body), type, p, q, body)
<1> DEFINE x == Token(type, p, q, body)
<1>1. DOMAIN x = DOMAIN body \cup Header
  BY DEF Token, Header
<1>2. x.type = type /\ x.from = p /\ x.to = q
  BY DEF Token
<1>3. x.seen = FALSE
  BY DEF Token
<1>4. \A f \in DOMAIN body \ Header : x[f] = body[f]
  BY DEF Token, Header
<1> QED
  BY <1>1, <1>2, <1>3, <1>4 DEF IsTokenOf

\* The form token that carries on the attempt of t.
Carries(x, t, me) ==
  /\ TokenOK(x) /\ x.type \in {"FORM1", "FORM2"}
  /\ x.from = me /\ x.seen = FALSE
  /\ x.memb_id = t.memb_id /\ x.rings = t.rings
  /\ x.type = "FORM2" => x.n = 0

LEMMA SendForm1Is ==
  ASSUME NEW t, NEW me, RingsOK(t.rings),
         DOMAIN t \cup Header = Form1Fields,
         {"memb_id", "members", "n", "reps", "rep_index", "rings"} \subseteq DOMAIN t
  PROVE  \E x : SendForm1(t, me) = {x} /\ Carries(x, t, me)
<1>1. ASSUME NEW q PROVE Carries(Token("FORM1", me, q, t), t, me)
  <2> DEFINE x == Token("FORM1", me, q, t)
  <2>1. IsTokenOf(x, "FORM1", me, q, t)
    BY TokenIs
  <2> HIDE DEF x
  <2>2. /\ DOMAIN x = Form1Fields /\ x.type = "FORM1" /\ x.from = me /\ x.seen = FALSE
        /\ x.memb_id = t.memb_id /\ x.rings = t.rings
    BY <2>1 DEF Header, IsTokenOf
  <2>3. Carries(x, t, me)
    BY <2>2 DEF Carries, TokenOK
  <2> QED
    BY <2>3 DEF x
<1>2. ASSUME NEW q, NEW ms
      PROVE  Carries(Token("FORM2", me, q, [memb_id |-> t.memb_id, members |-> ms, n |-> 0,
                                            m_id |-> NoId, rings |-> t.rings]), t, me)
  <2> DEFINE body == [memb_id |-> t.memb_id, members |-> ms, n |-> 0, m_id |-> NoId,
                      rings |-> t.rings]
             x == Token("FORM2", me, q, body)
  <2>1. IsTokenOf(x, "FORM2", me, q, body)
    <3> HIDE DEF body
    <3> QED
      BY TokenIs
  <2>2. DOMAIN body = {"memb_id", "members", "n", "m_id", "rings"}
    OBVIOUS
  <2>3. body.memb_id = t.memb_id /\ body.rings = t.rings /\ body.n = 0
    OBVIOUS
  <2> HIDE DEF x, body
  <2>4. DOMAIN x = Form2Fields /\ x.type = "FORM2" /\ x.from = me /\ x.seen = FALSE
    BY <2>1, <2>2 DEF Form2Fields, Header, IsTokenOf
  <2>5. x.memb_id = t.memb_id /\ x.rings = t.rings /\ x.n = 0
    BY <2>1, <2>2, <2>3 DEF Header, IsTokenOf
  <2>6. TokenOK(x)
    <3>1. x.n \in Nat
      BY <2>5
    <3>2. RingsOK(x.rings)
      BY <2>5
    <3>3. x.seen \in BOOLEAN
      BY <2>4
    <3> QED
      BY <2>4, <3>1, <3>2, <3>3 DEF TokenOK
  <2>7. Carries(x, t, me)
    BY <2>4, <2>5, <2>6 DEF Carries
  <2> QED
    BY <2>7 DEF x, body
<1>3. CASE t.n < Len(t.members)
  <2>1. SendForm1(t, me) = {Token("FORM1", me, t.members[t.n + 1], t)}
    BY <1>3 DEF SendForm1
  <2> QED
    BY <1>1, <2>1
<1>4. CASE ~(t.n < Len(t.members)) /\ t.rep_index <= Len(t.reps)
  <2>1. SendForm1(t, me) = {Token("FORM1", me, t.reps[t.rep_index].proc_id, t)}
    BY <1>4 DEF SendForm1
  <2> QED
    BY <1>1, <2>1
<1>5. CASE ~(t.n < Len(t.members)) /\ ~(t.rep_index <= Len(t.reps))
  <2> DEFINE ms == Sort_members(t.members)
             x == Token("FORM2", me, ms[1], [memb_id |-> t.memb_id, members |-> ms, n |-> 0,
                                             m_id |-> NoId, rings |-> t.rings])
  <2>1. SendForm1(t, me) = {x}
    BY <1>5 DEF SendForm1
  <2> HIDE DEF ms
  <2>2. Carries(x, t, me)
    BY <1>2
  <2> HIDE DEF x
  <2> QED
    BY <2>1, <2>2
<1> QED
  BY <1>3, <1>4, <1>5

-----------------------------------------------------------------------------
(* Filling a FORM1 token *)

Mine(r, rings) == {g \in rings : g.memb_id = r.Membership_id}

\* An old ring for which the token has no room.
NoRoom(rings) == Cardinality(rings) + 1 > MAX_FORM_REPS

\* What filling leaves of the other rings and makes of my own.
RingsFilled(r, old, new) ==
  /\ RingsOK(new)
  /\ \A g \in new : \/ g \in old /\ g.memb_id # r.Membership_id
                   \/ /\ g.memb_id = r.Membership_id /\ r.me \in g.trans
                      /\ \A h \in Mine(r, old) : h.trans \subseteq g.trans
  /\ \A g \in old : g.memb_id # r.Membership_id => g \in new
  /\ Mine(r, new) = {} => NoRoom(new)
  /\ NoRoom(old) => (NoRoom(new) /\ (Mine(r, old) = {} => Mine(r, new) = {}))

\* The token as Create_form1 makes it or Fill_form1 has advanced it.
FormBody(t) ==
  /\ DOMAIN t \cup Header = Form1Fields
  /\ {"memb_id", "members", "n", "reps", "rep_index", "rings"} \subseteq DOMAIN t

LEMMA FillRingsIs ==
  ASSUME NEW r, NEW t, RingsOK(t.rings), FormBody(t)
  PROVE  LET u == FillRings(r, t)
         IN  FormBody(u) /\ u.memb_id = t.memb_id /\ RingsFilled(r, t.rings, u.rings)
<1> DEFINE u == FillRings(r, t)
           mine == Mine(r, t.rings)
           rest == t.rings \ mine
           entry == [MyRing(r) EXCEPT !.trans = @ \cup UNION {g.trans : g \in mine},
                                      !.commit = @ \cup UNION {g.commit : g \in mine}]
           out == [t EXCEPT !.members = RemoveFirst(@, r.me), !.n = @ - 1]
           in == [t EXCEPT !.rings = rest \cup {entry}]
<1>1. u = IF mine = {} /\ NoRoom(t.rings) THEN out ELSE in
  BY DEF FillRings, Mine, NoRoom
<1>2. CASE mine = {} /\ NoRoom(t.rings)
  <2>1. u = out
    BY <1>1, <1>2
  <2>2. FormBody(out) /\ out.memb_id = t.memb_id /\ out.rings = t.rings
    BY DEF FormBody
  <2> HIDE DEF u, out
  <2>3. RingsFilled(r, t.rings, t.rings)
    BY <1>2 DEF RingsFilled, Mine
  <2> QED
    BY <2>1, <2>2, <2>3 DEF u
<1>3. CASE ~(mine = {} /\ NoRoom(t.rings))
  <2> HIDE DEF entry
  <2>1. u = in
    BY <1>1, <1>3
  <2>2. FormBody(in) /\ in.memb_id = t.memb_id /\ in.rings = rest \cup {entry}
    BY DEF FormBody
  <2> HIDE DEF u, in
  <2>3. DOMAIN entry = {"memb_id", "trans", "commit", "trans_time"}
    BY DEF entry, MyRing
  <2>4. entry.memb_id = r.Membership_id
    BY DEF entry, MyRing
  <2>5. r.me \in entry.trans
    BY DEF entry, MyRing
  <2>6. ASSUME NEW h \in mine PROVE h.trans \subseteq entry.trans
    BY DEF entry, MyRing
  <2>7. entry \notin rest
    BY <2>4 DEF Mine
  <2>8. IsFiniteSet(rest) /\ IsFiniteSet(rest \cup {entry})
    <3>1. IsFiniteSet(t.rings)
      BY DEF RingsOK
    <3>2. IsFiniteSet(rest)
      BY <3>1, FS_Subset
    <3> HIDE DEF rest
    <3> QED
      BY <3>2, FS_AddElement
  <2>9. RingsOK(rest \cup {entry})
    BY <2>3, <2>4, <2>8 DEF RingsOK, Mine
  <2>10. Mine(r, rest \cup {entry}) = {entry}
    BY <2>4 DEF Mine
  <2>11. ASSUME NoRoom(t.rings) PROVE NoRoom(rest \cup {entry})
    <3>1. PICK h \in mine : TRUE
      BY <1>3, <2>11
    <3>2. mine = {h}
      BY DEF RingsOK, Mine
    <3>3. Cardinality(rest) = Cardinality(t.rings) - 1
      BY <3>2, FS_RemoveElement DEF RingsOK, Mine
    <3>4. Cardinality(rest \cup {entry}) = Cardinality(rest) + 1
      BY <2>7, <2>8, FS_AddElement
    <3>5. Cardinality(t.rings) \in Nat
      BY FS_CardinalityType DEF RingsOK
    <3>6. Cardinality(rest \cup {entry}) = Cardinality(t.rings)
      BY <3>3, <3>4, <3>5
    <3> QED
      BY <2>11, <3>6 DEF NoRoom
  <2>12. \A g \in rest \cup {entry} :
            \/ g \in t.rings /\ g.memb_id # r.Membership_id
            \/ /\ g.memb_id = r.Membership_id /\ r.me \in g.trans
               /\ \A h \in mine : h.trans \subseteq g.trans
    BY <2>4, <2>5, <2>6 DEF Mine
  <2> HIDE DEF mine, rest
  <2>13. NoRoom(t.rings) => mine # {}
    BY <1>3
  <2>14. \A g \in t.rings : g.memb_id # r.Membership_id => g \in rest
    BY DEF rest, mine, Mine
  <2>15. RingsFilled(r, t.rings, rest \cup {entry})
    BY <2>9, <2>10, <2>11, <2>12, <2>13, <2>14 DEF RingsFilled, mine
  <2> QED
    BY <2>1, <2>2, <2>15 DEF u
<1> QED
  BY <1>2, <1>3

\* r joins the attempt of t, as s, and sends out.
Fills(r, t, s, out) ==
  /\ r.State \in {"OP", "REPRESENTED", "GATHER"}
  /\ Sound(s) /\ s.me = r.me /\ s.State = "FORM"
  /\ s.Form1_memb_id = t.memb_id /\ s.Membership_id = r.Membership_id
  /\ s.Last_time_used = r.Last_time_used
  /\ \E x : /\ out = {x} /\ TokenOK(x)
            /\ x.type \in {"FORM1", "FORM2"} /\ x.seen = FALSE
            /\ x.memb_id = t.memb_id
            /\ x.type = "FORM2" => x.n = 0
            /\ RingsFilled(r, t.rings, x.rings)

\* A daemon that does not wait for the token ignores it, or dies of it.
LEMMA FillForm1 ==
  ASSUME NEW r, Sound(r), NEW t, TokenOK(t), t.type = "FORM1"
  PROVE  LET res == Memb_handle_form1(r, t)
         IN  \/ Calm(r, res.d) /\ Stays(r, res.d) /\ res.out = {}
             \/ Fills(r, t, res.d, res.out)
<1> DEFINE res == Memb_handle_form1(r, t)
           t1 == FillMembers(r, t)
           u == FillRings(r, t1)
           e == Exit(r, "incorrect_trans_set")
           s == ShiftToForm(r, t.memb_id, t.reps)
<1>1. \/ res = Result(r, {})
      \/ res = Result(e, {})
      \/ /\ r.State \in {"OP", "REPRESENTED", "GATHER"}
         /\ res = Result(s, SendForm1(u, r.me))
  <2> HIDE DEF e, s, u
  <2> QED
    BY DEF Memb_handle_form1, Fill_form1, e, s, u
<1>2. CASE res = Result(r, {})
  <2> HIDE DEF res
  <2>1. res.d = r /\ res.out = {}
    BY <1>2 DEF Result
  <2> QED
    BY <2>1, CalmRefl DEF res
<1>3. CASE res = Result(e, {})
  <2>1. Calm(r, e) /\ e.State = r.State
    BY ExitCalm
  <2> HIDE DEF res, e
  <2>2. res.d = e /\ res.out = {}
    BY <1>3 DEF Result
  <2>3. Stays(r, e)
    BY <2>1 DEF Stays
  <2> QED
    BY <2>1, <2>2, <2>3 DEF res
<1>4. CASE /\ r.State \in {"OP", "REPRESENTED", "GATHER"}
           /\ res = Result(s, SendForm1(u, r.me))
  <2>1. FormBody(t1) /\ t1.memb_id = t.memb_id /\ t1.rings = t.rings
    <3>1. DOMAIN t = Form1Fields
      BY DEF TokenOK
    <3> QED
      BY <3>1 DEF FillMembers, FormBody, Form1Fields, Header
  <2> HIDE DEF t1
  <2>2. RingsOK(t1.rings)
    BY <2>1 DEF TokenOK
  <2>3. FormBody(u) /\ u.memb_id = t.memb_id /\ RingsFilled(r, t.rings, u.rings)
    BY <2>1, <2>2, FillRingsIs
  <2> HIDE DEF u
  <2>4. PICK x : SendForm1(u, r.me) = {x} /\ Carries(x, u, r.me)
    BY <2>3, SendForm1Is DEF FormBody, RingsFilled
  <2>5. /\ Sound(s) /\ s.me = r.me /\ s.State = "FORM" /\ s.Form1_memb_id = t.memb_id
        /\ s.Membership_id = r.Membership_id /\ s.Last_time_used = r.Last_time_used
    BY <1>4, ShiftToFormSound
  <2> HIDE DEF res, s
  <2>6. res.d = s /\ res.out = {x}
    BY <1>4, <2>4 DEF Result
  <2>7. /\ TokenOK(x) /\ x.type \in {"FORM1", "FORM2"}
        /\ x.seen = FALSE /\ x.memb_id = t.memb_id
        /\ x.type = "FORM2" => x.n = 0
        /\ RingsFilled(r, t.rings, x.rings)
    BY <2>3, <2>4 DEF Carries
  <2> QED
    BY <1>4, <2>5, <2>6, <2>7 DEF res, Fills
<1> QED
  BY <1>1, <1>2, <1>3, <1>4

-----------------------------------------------------------------------------
(* Reading the FORM2 token *)

RingOf(r, rings) == CHOOSE g \in rings : g.memb_id = r.Membership_id

\* The token after r has read it, and the identifier it then carries.
ReadId(r, t, now) ==
  IF t.n = 0 THEN [proc_id |-> r.me, time |-> MembTime(r, now) + 1] ELSE t.m_id
ReadRings(r, t, now) ==
  (t.rings \ {RingOf(r, t.rings)}) \cup {Stamp(RingOf(r, t.rings), MembTime(r, now))}

\* Reading stamps my ring, ring, as ring2.
RingsRead(r, old, new, ring, ring2) ==
  /\ ring \in old /\ ring.memb_id = r.Membership_id
  /\ RingsOK(new) /\ ring2 \in new
  /\ ring2.memb_id = ring.memb_id /\ ring2.trans = ring.trans
  /\ \A g \in new : \/ g \in old /\ g.memb_id # r.Membership_id
                   \/ g = ring2

LEMMA ReadRingsIs ==
  ASSUME NEW r, NEW t, NEW now, RingsOK(t.rings), Mine(r, t.rings) # {}
  PROVE  LET ring == RingOf(r, t.rings)
             ring2 == Stamp(ring, MembTime(r, now))
         IN  /\ RingsRead(r, t.rings, ReadRings(r, t, now), ring, ring2)
             /\ ring2.trans_time = IF ring.trans_time = 0 THEN MembTime(r, now)
                                   ELSE ring.trans_time
<1> DEFINE ring == RingOf(r, t.rings)
           time == MembTime(r, now)
           ring2 == Stamp(ring, time)
           new == ReadRings(r, t, now)
<1>1. ring \in t.rings /\ ring.memb_id = r.Membership_id
  BY DEF RingOf, Mine
<1> HIDE DEF ring, time
<1>2. DOMAIN ring = {"memb_id", "trans", "commit", "trans_time"}
  BY <1>1 DEF RingsOK
<1>3. /\ DOMAIN ring2 = {"memb_id", "trans", "commit", "trans_time"}
      /\ ring2.memb_id = ring.memb_id /\ ring2.trans = ring.trans
      /\ ring2.trans_time = IF ring.trans_time = 0 THEN time ELSE ring.trans_time
  BY <1>2 DEF Stamp
<1>4. new = (t.rings \ {ring}) \cup {ring2}
  BY DEF ReadRings, ring, time
<1> HIDE DEF ring2, new
<1>5. IsFiniteSet(new)
  <2>1. IsFiniteSet(t.rings)
    BY DEF RingsOK
  <2>2. IsFiniteSet(t.rings \ {ring})
    BY <2>1, FS_Subset
  <2> QED
    BY <1>4, <2>2, FS_AddElement
<1>6. \A g \in new : \/ g \in t.rings /\ g.memb_id # r.Membership_id
                    \/ g = ring2
  BY <1>1, <1>4 DEF RingsOK
<1>7. RingsOK(new)
  BY <1>1, <1>3, <1>5, <1>6 DEF RingsOK
<1>8. ring2 \in new
  BY <1>4
<1> QED
  BY <1>1, <1>3, <1>6, <1>7, <1>8 DEF ring, ring2, new, time, RingsRead

\* What reading makes of the daemon, and the token sent on.
Reads(r, t, now, s) ==
  /\ Sound(s) /\ s.me = r.me /\ s.State = "EVS"
  /\ s.Membership_id = r.Membership_id
  /\ s.Future_membership = ToSet(t.members)
  /\ s.Future_membership_id = ReadId(r, t, now)
  /\ s.Future_commit_set.trans = RingOf(r, t.rings).trans
  /\ s.F_trans_memb_time = Stamp(RingOf(r, t.rings), MembTime(r, now)).trans_time
  /\ r.Last_time_used <= s.Last_time_used
  /\ t.n = 0 => s.Last_time_used = MembTime(r, now) + 1

PassesOn(r, t, now, x) ==
  /\ TokenOK(x) /\ x.type \in {"FORM2", "TOKEN"} /\ x.seen = FALSE
  /\ x.type = "FORM2" =>
       /\ x.memb_id = t.memb_id /\ x.members = t.members
       /\ x.n = t.n + 1 /\ x.m_id = ReadId(r, t, now)
       /\ x.rings = ReadRings(r, t, now)

LEMMA ReadForm2 ==
  ASSUME NEW r, Sound(r), r.State = "FORM", NEW now \in Int,
         NEW t, TokenOK(t), t.type = "FORM2", Form2IsForMe(r, t)
  PROVE  /\ Mine(r, t.rings) # {}
         /\ Reads(r, t, now, Read_form2(r, t, now).d)
         /\ \E x : Read_form2(r, t, now).out = {x} /\ PassesOn(r, t, now, x)
<1> DEFINE first == t.n = 0
           ring == RingOf(r, t.rings)
           time == MembTime(r, now)
           ring2 == Stamp(ring, time)
           id == ReadId(r, t, now)
           t2 == [t EXCEPT !.n = @ + 1, !.m_id = id, !.rings = ReadRings(r, t, now)]
           memb == ToSet(t.members)
           last == CASE first -> time + 1
                     [] ~first /\ (first \/ ring.trans_time = 0) -> time
                     [] OTHER -> r.Last_time_used
           s == [r EXCEPT !.State = "EVS", !.Token_alive = TRUE,
                          !.Future_membership = memb, !.Future_membership_id = id,
                          !.Future_commit_set = [trans |-> ring.trans, commit |-> ring.commit],
                          !.F_trans_memb_time = ring2.trans_time,
                          !.Last_time_used = last,
                          !.Last_token = [arq |-> 0, aru |-> Low],
                          !.recovered = FALSE,
                          !.timers = @ \cup {"token_loss"}]
           x1 == Token("FORM2", r.me, Token_address(memb, r.me), t2)
           body == [memb_id |-> id, arq |-> 0, aru |-> INT32_MAX, aru_last_id |-> 0]
           x2 == Token("TOKEN", r.me, Token_address(memb, r.me), body)
           res == Read_form2(r, t, now)
<1>1. res = Result(s, IF Conf_last(memb) # r.me THEN {x1} ELSE {x2})
  BY DEF Read_form2, RingOf, ReadId, ReadRings
<1>2. Mine(r, t.rings) # {} /\ RingsOK(t.rings)
  BY DEF Form2IsForMe, Mine, TokenOK
<1>3. RingsOK(ReadRings(r, t, now))
  BY <1>2, ReadRingsIs DEF RingsRead
<1>4. DOMAIN r = Fields /\ r.Last_time_used \in Int /\ r.running # "lost_twice"
  BY DEF Sound
<1>5. time \in Int /\ r.Last_time_used < time
  BY <1>4 DEF MembTime, Later
<1> HIDE DEF id, time, ring, ring2, memb
<1>6. last \in Int /\ r.Last_time_used <= last
  BY <1>4, <1>5
<1>7. first => last = time + 1
  OBVIOUS
<1> HIDE DEF last
<1>8. /\ DOMAIN s = Fields /\ s.me = r.me /\ s.State = "EVS" /\ s.Membership_id = r.Membership_id
      /\ s.running = r.running
  BY <1>4 DEF Fields
<1>9. s.Future_membership = memb /\ s.Future_membership_id = id
  BY <1>4 DEF Fields
<1>10. s.Future_commit_set.trans = ring.trans /\ s.F_trans_memb_time = ring2.trans_time
  BY <1>4 DEF Fields
<1>11. s.Last_time_used = last /\ s.Last_token = [arq |-> 0, aru |-> Low]
  BY <1>4 DEF Fields
<1>12. s.timers = r.timers \cup {"token_loss"}
  BY <1>4 DEF Fields
<1>13. s.Token_alive /\ ~s.recovered
  BY <1>4 DEF Fields
<1> HIDE DEF s
<1>14. Sound(s)
  BY <1>4, <1>6, <1>8, <1>11, <1>12, <1>13 DEF Sound, Tokenless, Low
<1>15. DOMAIN t = Form2Fields /\ t.n \in Nat
  BY DEF TokenOK
<1>16. /\ DOMAIN t2 = Form2Fields /\ t2.memb_id = t.memb_id /\ t2.members = t.members
       /\ t2.n = t.n + 1 /\ t2.m_id = id /\ t2.rings = ReadRings(r, t, now)
  BY <1>15 DEF Form2Fields
<1> HIDE DEF t2
<1>17. IsTokenOf(x1, "FORM2", r.me, Token_address(memb, r.me), t2)
  BY TokenIs
<1>18. IsTokenOf(x2, "TOKEN", r.me, Token_address(memb, r.me), body)
  BY TokenIs
<1>19. DOMAIN body = {"memb_id", "arq", "aru", "aru_last_id"} /\ body.aru = INT32_MAX
  OBVIOUS
<1> HIDE DEF x1, x2, body
<1>20. /\ x1.type = "FORM2" /\ x1.seen = FALSE /\ x1.memb_id = t.memb_id
       /\ x1.members = t.members /\ x1.n = t.n + 1 /\ x1.m_id = id
       /\ x1.rings = ReadRings(r, t, now) /\ DOMAIN x1 = Form2Fields
  BY <1>16, <1>17 DEF IsTokenOf, Form2Fields, Header
<1>21. TokenOK(x1)
  <2>1. x1.n \in Nat
    BY <1>15, <1>20
  <2>2. RingsOK(x1.rings)
    BY <1>3, <1>20
  <2>3. x1.seen \in BOOLEAN
    BY <1>20
  <2> QED
    BY <1>20, <2>1, <2>2, <2>3 DEF TokenOK
<1>22. /\ x2.type = "TOKEN" /\ x2.seen = FALSE /\ x2.aru = INT32_MAX /\ DOMAIN x2 = TokenFields
  BY <1>18, <1>19 DEF IsTokenOf, TokenFields, Header
<1>23. TokenOK(x2)
  <2>1. x2.aru \in Nat
    BY <1>22 DEF INT32_MAX
  <2>2. x2.seen \in BOOLEAN
    BY <1>22
  <2> QED
    BY <1>22, <2>1, <2>2 DEF TokenOK
<1>24. res.d = s /\ (res.out = {x1} \/ res.out = {x2})
  <2> HIDE DEF res
  <2> QED
    BY <1>1 DEF Result
<1> HIDE DEF res
<1>25. PassesOn(r, t, now, x1) /\ PassesOn(r, t, now, x2)
  BY <1>20, <1>21, <1>22, <1>23 DEF PassesOn, id
<1>26. Reads(r, t, now, s)
  BY <1>6, <1>7, <1>8, <1>9, <1>10, <1>11, <1>14 DEF Reads, ring2, ring, time, id, memb
<1> QED
  BY <1>2, <1>24, <1>25, <1>26 DEF res

-----------------------------------------------------------------------------
(* The regular token *)

\* v is what daemon r delivers when it installs the membership it reads of.
Installs(r, v) ==
  /\ r.State = "EVS"
  /\ v.proc = r.me /\ v.memb_id = r.Future_membership_id
  /\ v.members = r.Future_membership /\ v.prev = r.Membership_id
  /\ v.trans = r.Future_commit_set.trans
  /\ v.trans_id = [proc_id |-> Conf_leader(v.trans), time |-> r.F_trans_memb_time]

\* A daemon that still misses messages lowers the aru.
LEMMA TokenAruIs ==
  ASSUME NEW r, NEW t, t.aru \in Nat, NEW mine \in {Low, Last_seq},
         NEW aru \in TokenAru(r, t, mine)
  PROVE  aru[1] \in Nat /\ (mine = Low => aru[1] = Low)
  BY DEF TokenAru, Low, Last_seq

LEMMA InstallCalm ==
  ASSUME NEW r, Sound(r), r.State = "EVS"
  PROVE  Calm(r, Memb_regular(r)) /\ Memb_regular(r).State = "OP"
<1> DEFINE s == Memb_regular(r)
           x == IF Conf_leader(r.Future_membership) = r.me THEN r.timers \cup {"lookup"}
                ELSE r.timers
<1>1. DOMAIN r = Fields /\ r.running # "lost_twice" /\ r.Last_time_used \in Int
  BY DEF Sound
<1>2. s = Shift_to_op([r EXCEPT
        !.Membership = r.Future_membership, !.Reg_membership = r.Future_membership,
        !.Membership_id = r.Future_membership_id,
        !.Commit_set = [trans |-> {r.me}, commit |-> {r.me}],
        !.Foreign_found = FALSE, !.recovered = FALSE,
        !.timers = x])
  BY DEF Memb_regular
<1>3. x \subseteq r.timers \cup {"lookup"}
  OBVIOUS
<1> HIDE DEF s, x
<1>4. /\ DOMAIN s = Fields /\ s.me = r.me /\ s.State = "OP" /\ s.running = r.running
      /\ s.Last_time_used = r.Last_time_used /\ s.Last_token = r.Last_token
  BY <1>1, <1>2 DEF Shift_to_op, Fields
<1>5. s.timers = x
  BY <1>1, <1>2 DEF Shift_to_op, Fields
<1>6. s.Token_alive = r.Token_alive
  BY <1>1, <1>2 DEF Shift_to_op, Fields
<1>7. Sound(s)
  BY <1>1, <1>3, <1>4, <1>5, <1>6 DEF Sound, Tokenless
<1> QED
  BY <1>1, <1>4, <1>7 DEF Calm, Quiet, s

LEMMA HandleToken ==
  ASSUME NEW r, Sound(r), NEW t, TokenOK(t), t.type = "TOKEN", NEW complete \in BOOLEAN,
         NEW aru \in TokenAru(r, t, IF r.State = "EVS" /\ (complete \/ r.recovered)
                                    THEN Last_seq ELSE Low)
  PROVE  LET res == Prot_handle_token(r, t, complete, aru)
         IN  /\ Calm(r, res.d)
             /\ \A v \in res.view : Installs(r, v)
             /\ res.view = {} => Stays(r, res.d)
             /\ Stays(r, res.d) \/ r.State = "EVS"
             /\ \A x \in res.out : TokenOK(x) /\ x.type = "TOKEN"
<1> DEFINE evs == r.State = "EVS"
           commits == evs /\ complete /\ ~r.recovered
           c == IF commits THEN [Memb_commit(r) EXCEPT !.recovered = TRUE] ELSE r
           arq == IF Conf_leader(Memb_active(r)) = r.me THEN (t.arq + 1) % 16 ELSE t.arq
           Aru == IF aru[1] > r.Last_token.aru THEN r.Last_token.aru ELSE aru[1]
           last == [arq |-> arq, aru |-> aru[1]]
           s == [c EXCEPT !.Last_token = last]
           body == [memb_id |-> t.memb_id, arq |-> arq, aru |-> aru[1], aru_last_id |-> aru[2]]
           x == Token("TOKEN", r.me, Token_address(Memb_active(r), r.me), body)
           mine == IF r.State = "EVS" /\ (complete \/ r.recovered) THEN Last_seq ELSE Low
           res == Prot_handle_token(r, t, complete, aru)
<1>1. res = IF evs /\ Aru = Last_seq
            THEN [d |-> Memb_regular(s), out |-> {x}, view |-> {View(s)}]
            ELSE [d |-> s, out |-> {x}, view |-> {}]
  BY DEF Prot_handle_token
<1>2. aru[1] \in Nat /\ (mine = Low => aru[1] = Low)
  <2>1. mine \in {Low, Last_seq} /\ t.aru \in Nat
    BY DEF TokenOK
  <2> HIDE DEF mine
  <2>2. aru \in TokenAru(r, t, mine)
    BY DEF mine
  <2> QED
    BY <2>1, <2>2, TokenAruIs
<1> HIDE DEF res, x, arq
<1>3. DOMAIN r = Fields /\ r.running # "lost_twice" /\ r.Last_time_used \in Int
      /\ r.Last_token.aru \in Nat
  BY DEF Sound
<1>4. /\ DOMAIN c = Fields /\ c.me = r.me /\ c.State = r.State /\ c.running = r.running
      /\ c.timers = r.timers /\ c.Token_alive = r.Token_alive
      /\ c.Membership_id = r.Membership_id
  BY <1>3 DEF Memb_commit, Fields
<1>5. /\ c.Future_membership = r.Future_membership
      /\ c.Future_membership_id = r.Future_membership_id
      /\ c.Future_commit_set = r.Future_commit_set
      /\ c.F_trans_memb_time = r.F_trans_memb_time
      /\ c.Form1_memb_id = r.Form1_memb_id /\ c.Last_time_used = r.Last_time_used
  BY <1>3 DEF Memb_commit, Fields
<1>6. ASSUME evs, complete \/ r.recovered PROVE c.Commit_set = r.Future_commit_set
  <2>1. CASE commits
    BY <1>3, <2>1 DEF Memb_commit, Fields
  <2>2. CASE ~commits
    BY <1>6, <2>2 DEF Sound
  <2> QED
    BY <2>1, <2>2
<1>7. ASSUME evs, c.recovered PROVE c.Commit_set = r.Future_commit_set
  <2>1. CASE commits
    BY <1>3, <2>1 DEF Memb_commit, Fields
  <2>2. CASE ~commits
    BY <1>7, <2>2 DEF Sound
  <2> QED
    BY <2>1, <2>2
<1> HIDE DEF c
<1>8. last.aru = aru[1] /\ DOMAIN last = {"arq", "aru"}
  OBVIOUS
<1> HIDE DEF last
<1>9. /\ DOMAIN s = Fields /\ s.me = r.me /\ s.State = r.State /\ s.running = r.running
      /\ s.timers = r.timers /\ s.Token_alive = r.Token_alive
      /\ s.Membership_id = r.Membership_id
  BY <1>4 DEF Fields
<1>10. /\ s.Future_membership = r.Future_membership
       /\ s.Future_membership_id = r.Future_membership_id
       /\ s.Future_commit_set = r.Future_commit_set
       /\ s.F_trans_memb_time = r.F_trans_memb_time
       /\ s.Form1_memb_id = r.Form1_memb_id /\ s.Last_time_used = r.Last_time_used
  BY <1>4, <1>5 DEF Fields
<1>11. s.Commit_set = c.Commit_set /\ s.recovered = c.recovered /\ s.Last_token = last
  BY <1>4 DEF Fields
<1> HIDE DEF s
<1>12. Sound(s)
  BY <1>2, <1>3, <1>7, <1>8, <1>9, <1>10, <1>11 DEF Sound, Tokenless
<1>13. Calm(r, s) /\ s.State = r.State
  BY <1>3, <1>9, <1>10, <1>12 DEF Calm, Quiet
<1>14. IsTokenOf(x, "TOKEN", r.me, Token_address(Memb_active(r), r.me), body)
  BY TokenIs DEF x
<1>15. DOMAIN body = {"memb_id", "arq", "aru", "aru_last_id"} /\ body.aru = aru[1]
  OBVIOUS
<1> HIDE DEF body
<1>16. x.type = "TOKEN" /\ x.seen = FALSE /\ x.aru \in Nat /\ DOMAIN x = TokenFields
  BY <1>2, <1>14, <1>15 DEF IsTokenOf, TokenFields, Header
<1>17. TokenOK(x)
  <2>1. x.seen \in BOOLEAN
    BY <1>16
  <2> QED
    BY <1>16, <2>1 DEF TokenOK
<1>18. CASE evs /\ Aru = Last_seq
  <2>1. complete \/ r.recovered
    BY <1>2, <1>3, <1>18 DEF Low, Last_seq
  <2>2. s.Commit_set = r.Future_commit_set
    BY <1>6, <1>11, <1>18, <2>1
  <2>3. Installs(r, View(s))
    BY <1>9, <1>10, <1>18, <2>2 DEF Installs, View
  <2>4. Calm(s, Memb_regular(s))
    BY <1>12, <1>13, <1>18, InstallCalm
  <2>5. Calm(r, Memb_regular(s))
    BY <1>13, <2>4, CalmTrans
  <2>6. res.d = Memb_regular(s) /\ res.out = {x} /\ res.view = {View(s)}
    BY <1>1, <1>18
  <2> QED
    BY <1>16, <1>17, <1>18, <2>3, <2>5, <2>6 DEF res
<1>19. CASE ~(evs /\ Aru = Last_seq)
  <2>1. res.d = s /\ res.out = {x} /\ res.view = {}
    BY <1>1, <1>19
  <2>2. Stays(r, s)
    BY <1>13 DEF Stays
  <2> QED
    BY <1>13, <1>16, <1>17, <2>1, <2>2 DEF res
<1> QED
  BY <1>18, <1>19

-----------------------------------------------------------------------------
(* The records of a start *)

LEMMA MembInitSound ==
  ASSUME NEW p
  PROVE  LET r == Memb_init(p) IN Sound(r) /\ r.me = p /\ r.State = "SEG"
<1> DEFINE x == Insert_reps(<<>>, SegmentHeads({p}, SegOf[p], "POTENTIAL"))
<1> HIDE DEF x
<1>1. Memb_init(p) =
    Shift_to_seg([me |-> p, State |-> "OP", running |-> "up", Token_alive |-> FALSE,
        Membership |-> {p}, Membership_id |-> [proc_id |-> p, time |-> -1],
        Reg_membership |-> {p},
        Future_membership |-> {}, Future_membership_id |-> NoId,
        Form1_memb_id |-> NoId, F_trans_memb_time |-> 0, Last_time_used |-> -1,
        My_seg_rep |-> 0, Foreign_found |-> FALSE,
        F_members |-> <<>>, F_reps |-> <<>>,
        Potential_reps |-> x,
        Commit_set |-> [trans |-> {p}, commit |-> {p}],
        Future_commit_set |-> [trans |-> {}, commit |-> {}],
        recovered |-> FALSE, Last_token |-> [arq |-> 0, aru |-> Low],
        timers |-> {}])
  BY DEF Memb_init, x
<1> DEFINE s == Memb_init(p)
<1> HIDE DEF s
<1>2. DOMAIN s = Fields
  BY <1>1 DEF Shift_to_seg, Fields, s
<1>3. /\ s.me = p /\ s.State = "SEG" /\ s.running = "up" /\ s.Last_time_used = -1
      /\ s.Last_token = [arq |-> 0, aru |-> Low]
      /\ s.timers = {"Scast_alive", "Gather_or_represented"}
  BY <1>1 DEF Shift_to_seg, s
<1>4. Sound(s)
  BY <1>2, <1>3 DEF Sound, Tokenless, Low
<1> QED
  BY <1>3, <1>4 DEF s

LEMMA OperatingSound ==
  ASSUME NEW p, NEW ring
  PROVE  LET r == Operating(p, ring) IN Sound(r) /\ r.me = p /\ r.State = "OP"
<1> DEFINE i == Memb_init(p)
           x == {"token_loss"} \cup (IF First(ring) = p THEN {"lookup"} ELSE {})
           s == Operating(p, ring)
<1>1. Sound(i) /\ i.me = p
  BY MembInitSound
<1> HIDE DEF i
<1>2. s = [i EXCEPT !.State = "OP", !.Token_alive = TRUE, !.Membership = ring,
        !.Reg_membership = ring,
        !.Membership_id = [proc_id |-> First(ring), time |-> 0], !.Last_time_used = 0,
        !.F_members = <<>>, !.Potential_reps = <<>>,
        !.timers = x]
  BY DEF Operating, i
<1>3. x \subseteq {"token_loss", "lookup"}
  OBVIOUS
<1>4. DOMAIN i = Fields /\ i.running # "lost_twice" /\ i.Last_token.aru \in Nat
      /\ DOMAIN i.Last_token = {"arq", "aru"}
  BY <1>1 DEF Sound
<1> HIDE DEF s, x
<1>5. /\ DOMAIN s = Fields /\ s.me = i.me /\ s.State = "OP" /\ s.running = i.running
      /\ s.Last_time_used = 0 /\ s.Last_token = i.Last_token /\ s.timers = x
  BY <1>2, <1>4 DEF Fields
<1>6. s.Token_alive
  BY <1>2, <1>4 DEF Fields
<1>7. Sound(s)
  BY <1>3, <1>4, <1>5, <1>6 DEF Sound, Tokenless
<1> QED
  BY <1>1, <1>5, <1>7 DEF s

LEMMA DownSound ==
  ASSUME NEW p
  PROVE  LET r == Down(Memb_init(p)) IN Sound(r) /\ r.me = p /\ r.State = "SEG"
<1> DEFINE i == Memb_init(p)
           s == Down(i)
<1>1. Sound(i) /\ i.me = p /\ i.State = "SEG"
  BY MembInitSound
<1> HIDE DEF i
<1>2. DOMAIN i = Fields
  BY <1>1 DEF Sound
<1>3. /\ DOMAIN s = Fields /\ s.me = i.me /\ s.State = i.State /\ s.running = "down"
      /\ s.Last_time_used = i.Last_time_used /\ s.Last_token = i.Last_token /\ s.timers = {}
  BY <1>2 DEF Down, Fields
<1> HIDE DEF s
<1>4. Sound(s)
  BY <1>1, <1>3 DEF Sound, Tokenless
<1> QED
  BY <1>1, <1>3, <1>4 DEF s, i

-----------------------------------------------------------------------------
(* The steps of the system *)

IsForm(m) == m.type \in {"FORM1", "FORM2"}

Base ==
  /\ DOMAIN d = Procs /\ DOMAIN clock = Procs
  /\ \A p \in Procs : Sound(d[p]) /\ d[p].me = p
  /\ \A p \in Procs : clock[p] \in Int /\ clock[p] >= 1
  /\ \A m \in tokens : TokenOK(m)

\* A daemon that leaves a membership it formed or installed leaves no form
\* token behind that it has processed.
Kept(q) == \/ Stays(d[q], d'[q])
           \/ LateForms
           \/ \A m \in tokens' : (IsForm(m) /\ m.to = q) => m.seen = FALSE

\* No daemon enters FORM or EVS.
QuietStep ==
  /\ \A q \in Procs : Quiet(d[q], d'[q]) /\ Kept(q)
  /\ \A q \in Procs : MembTime(d[q], clock[q]) <= MembTime(d'[q], clock'[q])
  /\ \A m \in tokens' : IsForm(m) => m \in tokens
  /\ \A v \in views' : v \in views \/ \E q \in Procs : Installs(d[q], v)

OthersStay(p) == views' = views /\ clock' = clock /\ \A q \in Procs \ {p} : d'[q] = d[q]

\* Daemon p starts an attempt under an identifier of its own.
CreateStep(p) ==
  /\ OthersStay(p)
  /\ d[p].State = "GATHER"
  /\ d'[p].State = "FORM" /\ d'[p].Form1_memb_id = FormId(d[p], clock[p])
  /\ d'[p].Last_time_used = MembTime(d[p], clock[p])
  /\ d'[p].Membership_id = d[p].Membership_id
  /\ \E x : /\ tokens' = tokens \cup {x}
            /\ x.type \in {"FORM1", "FORM2"} /\ x.seen = FALSE
            /\ x.type = "FORM2" => x.n = 0
            /\ x.memb_id = FormId(d[p], clock[p])
            /\ \A g \in x.rings : p \in g.trans
            /\ Mine(d[p], x.rings) # {}

\* Daemon p joins the attempt of the FORM1 token m.
FillStep(p, m) ==
  /\ OthersStay(p)
  /\ d[p].State \in {"OP", "REPRESENTED", "GATHER"}
  /\ m \in tokens /\ m.type = "FORM1" /\ m.to = p
  /\ d'[p].State = "FORM" /\ d'[p].Form1_memb_id = m.memb_id
  /\ d'[p].Last_time_used = d[p].Last_time_used
  /\ d'[p].Membership_id = d[p].Membership_id
  /\ \E x : /\ tokens' = (tokens \ {m}) \cup {[m EXCEPT !.seen = TRUE]} \cup {x}
            /\ x.type \in {"FORM1", "FORM2"} /\ x.seen = FALSE
            /\ x.type = "FORM2" => x.n = 0
            /\ x.memb_id = m.memb_id
            /\ RingsFilled(d[p], m.rings, x.rings)

\* Daemon p learns from the FORM2 token m what becomes of it.
ReadStep(p, m) ==
  /\ OthersStay(p)
  /\ m \in tokens /\ m.type = "FORM2" /\ m.to = p
  /\ d[p].State = "FORM" /\ m.memb_id = d[p].Form1_memb_id
  /\ Mine(d[p], m.rings) # {}
  /\ Reads(d[p], m, clock[p], d'[p])
  /\ \E x : /\ tokens' = (tokens \ {m}) \cup {[m EXCEPT !.seen = TRUE]} \cup {x}
            /\ PassesOn(d[p], m, clock[p], x)

LEMMA CalmBecomes ==
  ASSUME Base, NEW p \in Procs, NEW r, Calm(d[p], r), Becomes(p, r)
  PROVE  /\ DOMAIN d' = Procs /\ d'[p].State = r.State
         /\ \A q \in Procs : Calm(d[q], d'[q])
         /\ \A q \in Procs \ {p} : d'[q] = d[q]
<1>1. DOMAIN d' = Procs /\ d'[p] = Forget(r) /\ \A q \in Procs \ {p} : d'[q] = d[q]
  BY DEF Becomes, Base
<1>2. Sound(d[p]) /\ Sound(r)
  BY DEF Base, Calm
<1>3. Calm(r, Forget(r)) /\ Forget(r).State = r.State
  BY <1>2, ForgetCalm
<1>4. Calm(d[p], Forget(r))
  BY <1>2, <1>3, CalmTrans
<1>5. \A q \in Procs : Calm(d[q], d[q])
  BY CalmRefl DEF Base
<1> QED
  BY <1>1, <1>3, <1>4, <1>5

LEMMA CalmQuiet ==
  ASSUME Base, DOMAIN d' = Procs, clock' = clock,
         \A q \in Procs : Calm(d[q], d'[q]),
         \A q \in Procs : Kept(q),
         \A m \in tokens' : m \in tokens \/ (TokenOK(m) /\ m.type = "TOKEN"),
         \A v \in views' : v \in views \/ \E q \in Procs : Installs(d[q], v)
  PROVE  Base' /\ QuietStep
<1>1. Base'
  <2>1. \A p \in Procs : Sound(d'[p]) /\ d'[p].me = p
    BY DEF Base, Calm, Quiet
  <2>2. \A m \in tokens' : TokenOK(m)
    BY DEF Base
  <2> QED
    BY <2>1, <2>2 DEF Base
<1>2. \A q \in Procs : MembTime(d[q], clock[q]) <= MembTime(d'[q], clock'[q])
  BY DEF Base, Calm, Sound, MembTime, Later
<1>3. \A q \in Procs : Quiet(d[q], d'[q])
  BY DEF Calm
<1>4. \A m \in tokens' : IsForm(m) => m \in tokens
  BY DEF IsForm
<1> QED
  BY <1>1, <1>2, <1>3, <1>4 DEF QuietStep

\* One daemon changes, and stays in what it forms or installs.
LEMMA StaysQuiet ==
  ASSUME Base, NEW p \in Procs, NEW r, Calm(d[p], r), Stays(d[p], r), Becomes(p, r),
         tokens' = tokens, clock' = clock, views' = views
  PROVE  Base' /\ QuietStep
<1>1. /\ DOMAIN d' = Procs /\ d'[p].State = r.State
      /\ \A q \in Procs : Calm(d[q], d'[q])
      /\ \A q \in Procs \ {p} : d'[q] = d[q]
  BY CalmBecomes
<1>2. \A q \in Procs : Kept(q)
  BY <1>1 DEF Kept, Stays
<1> QED
  BY <1>1, <1>2, CalmQuiet

LEMMA SendsNoTokens ==
  ASSUME NEW out, NoTokens(out), Sends(out) PROVE tokens' = tokens
  BY DEF NoTokens, Sends

LEMMA PoppedCalm ==
  ASSUME Base, NEW p \in Procs, NEW timer, Expire(p, timer)
  PROVE  LET r == Popped(p, timer)
         IN  /\ Calm(d[p], r) /\ Sound(r) /\ r.State = d[p].State
             /\ timer \notin r.timers /\ Tokenless(r) = Tokenless(d[p])
             /\ r.me = p /\ r.Membership_id = d[p].Membership_id
             /\ r.Last_time_used = d[p].Last_time_used
<1> DEFINE x == d[p].timers \ {timer}
           r == Popped(p, timer)
<1>1. r = SetTimers(d[p], x)
  BY DEF Popped, SetTimers
<1>2. Sound(d[p]) /\ d[p].me = p
  BY DEF Base
<1>3. DOMAIN d[p] = Fields
  BY <1>2 DEF Sound
<1>4. Calm(d[p], SetTimers(d[p], x)) /\ SetTimers(d[p], x).State = d[p].State
  BY <1>2, TimersCalm
<1>5. r.timers = x /\ r.Token_alive = d[p].Token_alive
  BY <1>3 DEF Popped, Fields
<1>6. r.me = p /\ r.Membership_id = d[p].Membership_id
      /\ r.Last_time_used = d[p].Last_time_used
  BY <1>2, <1>3 DEF Popped, Fields
<1> HIDE DEF r
<1>7. Calm(d[p], r) /\ Sound(r) /\ r.State = d[p].State
  BY <1>1, <1>4 DEF Calm
<1> QED
  BY <1>5, <1>6, <1>7 DEF Tokenless, r

LEMMA TokenLossStep ==
  ASSUME Base, NEW p \in Procs, Memb_token_loss_event(p) PROVE Base' /\ QuietStep
<1> DEFINE r == Popped(p, "token_loss")
           s == Memb_token_loss(r)
<1>1. /\ Expire(p, "token_loss") /\ Becomes(p, s) /\ tokens' = tokens \ Expired(p)
      /\ clock' = clock /\ views' = views
  BY DEF Memb_token_loss_event, Expire
<1>2. Calm(d[p], r) /\ Sound(r) /\ Tokenless(r) = Tokenless(d[p])
  BY <1>1, PoppedCalm
<1> HIDE DEF r
<1>3. ~Tokenless(d[p])
  BY <1>1 DEF Base, Sound, Expire
<1>4. Calm(r, s)
  BY <1>2, <1>3, TokenLossCalm
<1>5. Calm(d[p], s)
  BY <1>2, <1>4, CalmTrans DEF Base
<1> HIDE DEF s
<1>6. /\ DOMAIN d' = Procs /\ \A q \in Procs : Calm(d[q], d'[q])
      /\ \A q \in Procs \ {p} : d'[q] = d[q]
  BY <1>1, <1>5, CalmBecomes
<1>7. Kept(p)
  <2> SUFFICES ASSUME NEW m \in tokens', m.to = p, IsForm(m) PROVE m.seen = FALSE
    BY DEF Kept
  <2>1. m \in tokens /\ m \notin Expired(p)
    BY <1>1
  <2>2. m.seen \in BOOLEAN
    BY <2>1 DEF Base, TokenOK
  <2> QED
    BY <2>1, <2>2 DEF Expired
<1>8. \A q \in Procs : Kept(q)
  BY <1>6, <1>7 DEF Kept, Stays
<1> QED
  BY <1>1, <1>6, <1>8, CalmQuiet

LEMMA GatherStep ==
  ASSUME Base, NEW p \in Procs, Gather_or_represented_event(p) PROVE Base' /\ QuietStep
<1> DEFINE r == Popped(p, "Gather_or_represented")
           s == Gather_or_represented(r)
<1>1. /\ Expire(p, "Gather_or_represented") /\ Becomes(p, s) /\ tokens' = tokens
      /\ clock' = clock /\ views' = views
  BY DEF Gather_or_represented_event, Expire
<1>2. /\ Calm(d[p], r) /\ Sound(r) /\ r.State = d[p].State
      /\ "Gather_or_represented" \notin r.timers
  BY <1>1, PoppedCalm
<1> HIDE DEF r
<1>3. d[p].State = "SEG"
  BY <1>1 DEF Base, Sound, Expire
<1>4. Calm(r, s) /\ Stays(r, s)
  BY <1>2, <1>3, GatherOrRepresentedCalm
<1> HIDE DEF s
<1>5. Calm(d[p], s) /\ Stays(d[p], s)
  BY <1>2, <1>3, <1>4, CalmTrans DEF Base, Stays
<1> QED
  BY <1>1, <1>5, StaysQuiet

LEMMA ShiftToSegStep ==
  ASSUME Base, NEW p \in Procs, Shift_to_seg_event(p) PROVE Base' /\ QuietStep
<1> DEFINE r == Popped(p, "Shift_to_seg")
           s == Shift_to_seg(r)
<1>1. /\ Expire(p, "Shift_to_seg") /\ Becomes(p, s) /\ tokens' = tokens
      /\ clock' = clock /\ views' = views
  BY DEF Shift_to_seg_event, Expire
<1>2. /\ Calm(d[p], r) /\ Sound(r) /\ r.State = d[p].State
      /\ "Shift_to_seg" \notin r.timers
  BY <1>1, PoppedCalm
<1> HIDE DEF r
<1>3. d[p].State = "REPRESENTED"
  BY <1>1 DEF Base, Sound, Expire
<1>4. Calm(r, s)
  BY <1>2, <1>3, ShiftSegCalm
<1> HIDE DEF s
<1>5. Calm(d[p], s) /\ Stays(d[p], s)
  BY <1>2, <1>3, <1>4, CalmTrans DEF Base, Stays
<1> QED
  BY <1>1, <1>5, StaysQuiet

LEMMA LookupStep ==
  ASSUME Base, NEW p \in Procs, Memb_lookup_new_members_event(p) PROVE Base' /\ QuietStep
<1> DEFINE r == Popped(p, "lookup")
           res == Memb_lookup_new_members(r)
<1>1. /\ Expire(p, "lookup") /\ Becomes(p, res.d) /\ Sends(res.out)
      /\ clock' = clock /\ views' = views
  BY DEF Memb_lookup_new_members_event, Expire
<1>2. Calm(d[p], r) /\ Sound(r) /\ r.State = d[p].State
  BY <1>1, PoppedCalm
<1> HIDE DEF r
<1>3. Calm(r, res.d) /\ Stays(r, res.d) /\ NoTokens(res.out)
  BY <1>2, LookupCalm
<1> HIDE DEF res
<1>4. Calm(d[p], res.d) /\ Stays(d[p], res.d)
  BY <1>2, <1>3, CalmTrans DEF Base, Stays
<1>5. tokens' = tokens
  BY <1>1, <1>3, SendsNoTokens
<1> QED
  BY <1>1, <1>4, <1>5, StaysQuiet

\* d does not change, and no form token comes up.
LEMMA IdleQuiet ==
  ASSUME Base, d' = d, clock' = clock, views' = views, tokens' = tokens
  PROVE  Base' /\ QuietStep
<1>1. \A q \in Procs : Calm(d[q], d'[q]) /\ Stays(d[q], d'[q])
  BY CalmRefl DEF Base
<1>2. \A q \in Procs : Kept(q)
  BY <1>1 DEF Kept
<1>3. DOMAIN d' = Procs
  BY DEF Base
<1> QED
  BY <1>1, <1>2, <1>3, CalmQuiet

LEMMA PeriodicSendsStep ==
  ASSUME Base, NEW p \in Procs, Scast_alive_event(p) \/ Send_join_event(p)
  PROVE  Base' /\ QuietStep
<1>1. NoTokens(Scast_alive(d[p]))
  BY PacketsAreNoTokens
<1>2. NoTokens(Send_join(d[p]))
  BY PacketsAreNoTokens DEF Send_join
<1>3. tokens' = tokens
  BY <1>1, <1>2, SendsNoTokens DEF Scast_alive_event, Send_join_event
<1>4. d' = d /\ clock' = clock /\ views' = views
  BY DEF Scast_alive_event, Send_join_event, Expire
<1> QED
  BY <1>3, <1>4, IdleQuiet

LEMMA FormOrFailStep ==
  ASSUME Base, NEW p \in Procs, Form_or_fail_event(p)
  PROVE  Base' /\ (QuietStep \/ CreateStep(p))
<1> DEFINE r == Popped(p, "Form_or_fail")
           now == clock[p]
           res == Form_or_fail(r, now)
<1>1. /\ Expire(p, "Form_or_fail") /\ Becomes(p, res.d) /\ Sends(res.out)
      /\ clock' = clock /\ views' = views
  BY DEF Form_or_fail_event, Expire
<1>2. /\ Calm(d[p], r) /\ Sound(r) /\ r.State = d[p].State /\ r.me = p
      /\ r.Membership_id = d[p].Membership_id /\ r.Last_time_used = d[p].Last_time_used
      /\ "Form_or_fail" \notin r.timers
  BY <1>1, PoppedCalm
<1> HIDE DEF r
<1>3. d[p].State = "GATHER" /\ now \in Int
  BY <1>1 DEF Base, Sound, Expire
<1> HIDE DEF now
<1>4. \/ Calm(r, res.d) /\ NoTokens(res.out)
      \/ res = Create_form1(r, now)
  BY <1>2, <1>3, FormOrFail
<1> HIDE DEF res
<1>5. CASE Calm(r, res.d) /\ NoTokens(res.out)
  <2>1. Calm(d[p], res.d) /\ Stays(d[p], res.d)
    BY <1>2, <1>3, <1>5, CalmTrans DEF Base, Stays
  <2>2. tokens' = tokens
    BY <1>1, <1>5, SendsNoTokens
  <2> QED
    BY <1>1, <2>1, <2>2, StaysQuiet
<1>6. CASE res = Create_form1(r, now)
  <2> DEFINE s == res.d
             id == FormId(d[p], now)
  <2>1. id = FormId(r, now) /\ MembTime(r, now) = MembTime(d[p], now)
    <3>1. d[p].me = p
      BY DEF Base
    <3> QED
      BY <1>2, <3>1 DEF FormId, MembTime
  <2>2. /\ Sound(s) /\ s.me = p /\ s.State = "FORM"
        /\ s.Form1_memb_id = id /\ s.Last_time_used = MembTime(d[p], now)
        /\ s.Membership_id = d[p].Membership_id
    BY <1>2, <1>3, <1>6, <2>1, CreateForm1
  <2>3. SendsFirst(r, now, res.out)
    BY <1>2, <1>3, <1>6, CreateForm1
  <2>4. PICK members, reps :
          res.out = SendForm1([memb_id |-> FormId(r, now), members |-> members, n |-> 1,
                               reps |-> reps, rep_index |-> 2, rings |-> {MyRing(r)}], r.me)
    BY <2>3 DEF SendsFirst
  <2> DEFINE t == [memb_id |-> FormId(r, now), members |-> members, n |-> 1,
                   reps |-> reps, rep_index |-> 2, rings |-> {MyRing(r)}]
  <2>5. RingsOK({MyRing(r)})
    <3>1. DOMAIN MyRing(r) = {"memb_id", "trans", "commit", "trans_time"}
      BY DEF MyRing
    <3> QED
      BY <3>1, FS_Singleton DEF RingsOK
  <2>6. p \in MyRing(r).trans /\ MyRing(r).memb_id = d[p].Membership_id
    BY <1>2 DEF MyRing
  <2>7. /\ t.memb_id = FormId(r, now) /\ t.rings = {MyRing(r)}
        /\ DOMAIN t = {"memb_id", "members", "n", "reps", "rep_index", "rings"}
    OBVIOUS
  <2>8. res.out = SendForm1(t, r.me)
    BY <2>4
  <2> HIDE DEF t
  <2>9. PICK x : SendForm1(t, r.me) = {x} /\ Carries(x, t, r.me)
    BY <2>5, <2>7, SendForm1Is DEF Form1Fields
  <2>10. /\ x.type \in {"FORM1", "FORM2"} /\ x.seen = FALSE /\ TokenOK(x)
         /\ x.type = "FORM2" => x.n = 0
         /\ x.memb_id = id
         /\ \A g \in x.rings : p \in g.trans
         /\ Mine(d[p], x.rings) # {}
    BY <2>1, <2>6, <2>7, <2>9 DEF Carries, Mine
  <2> HIDE DEF s, id
  <2>11. tokens' = tokens \cup {x}
    BY <1>1, <2>8, <2>9, <2>10 DEF Sends, IsToken
  <2>12. DOMAIN d' = Procs /\ d'[p] = Forget(s) /\ \A q \in Procs \ {p} : d'[q] = d[q]
    BY <1>1 DEF Becomes, Base, s
  <2>13. Calm(s, Forget(s)) /\ Forget(s).State = "FORM"
    BY <2>2, ForgetCalm
  <2>14. /\ Sound(d'[p]) /\ d'[p].me = p /\ d'[p].State = "FORM" /\ d'[p].Form1_memb_id = id
         /\ d'[p].Membership_id = d[p].Membership_id
    BY <2>2, <2>12, <2>13 DEF Calm, Quiet
  <2>15. d'[p].Last_time_used = MembTime(d[p], now)
    <3>1. DOMAIN s = Fields
      BY <2>2 DEF Sound
    <3>2. Forget(s).Last_time_used = s.Last_time_used
      BY <3>1 DEF Forget, Fields
    <3> QED
      BY <2>2, <2>12, <3>2
  <2>16. Base'
    BY <1>1, <2>10, <2>11, <2>12, <2>14 DEF Base
  <2>17. OthersStay(p)
    BY <1>1, <2>12 DEF OthersStay
  <2>18. CreateStep(p)
    BY <1>3, <2>10, <2>11, <2>14, <2>15, <2>17 DEF CreateStep, id, now
  <2> QED
    BY <2>16, <2>18
<1> QED
  BY <1>4, <1>5, <1>6

\* Packets of the new membership that make a daemon leave EVS.
LEMMA BreaksQuiet ==
  ASSUME Base, DOMAIN d' = Procs, \A q \in Procs : Calm(d[q], d'[q]),
         \A q \in Procs : Breaks(d[q], d'[q]),
         tokens' = tokens \ Abandoned, clock' = clock, views' = views
  PROVE  Base' /\ QuietStep
<1>1. ASSUME NEW q \in Procs PROVE Kept(q)
  <2>1. CASE Stays(d[q], d'[q])
    BY <2>1 DEF Kept
  <2>2. CASE LateForms
    BY <2>2 DEF Kept
  <2>3. CASE d[q].State = "EVS" /\ d'[q].State = "SEG" /\ ~LateForms
    <3> SUFFICES ASSUME NEW m \in tokens', m.to = q, IsForm(m) PROVE m.seen = FALSE
      BY DEF Kept
    <3>1. m \in tokens /\ m \notin Abandoned
      OBVIOUS
    <3>2. m.seen \in BOOLEAN
      BY <3>1 DEF Base, TokenOK
    <3>3. m \notin Outlived(q)
      BY <2>3, <3>1 DEF Abandoned
    <3> QED
      BY <3>1, <3>2, <3>3 DEF Outlived, IsForm
  <2> QED
    BY <2>1, <2>2, <2>3 DEF Breaks
<1> QED
  BY <1>1, CalmQuiet

LEMMA BreaksForget ==
  ASSUME NEW r, NEW s, Sound(r), Calm(r, s), Breaks(r, s)
  PROVE  Calm(r, Forget(s)) /\ Breaks(r, Forget(s))
<1>1. Calm(s, Forget(s)) /\ Forget(s).State = s.State
  BY ForgetCalm DEF Calm
<1> QED
  BY <1>1, CalmTrans DEF Breaks, Stays

LEMMA RecvAliveStep ==
  ASSUME Base, NEW p \in Procs, NEW m, Recv_alive(p, m) PROVE Base' /\ QuietStep
<1> DEFINE s == Memb_handle_alive(d[p], m)
<1>1. /\ Becomes(p, s) /\ tokens' = tokens \ Abandoned /\ clock' = clock /\ views' = views
  BY DEF Recv_alive, Arrives
<1>2. Calm(d[p], s) /\ Breaks(d[p], s)
  BY AliveCalm DEF Base
<1> HIDE DEF s
<1>3. /\ DOMAIN d' = Procs /\ d'[p].State = s.State
      /\ \A q \in Procs : Calm(d[q], d'[q])
      /\ \A q \in Procs \ {p} : d'[q] = d[q]
  BY <1>1, <1>2, CalmBecomes
<1>4. \A q \in Procs : Breaks(d[q], d'[q])
  BY <1>2, <1>3 DEF Breaks, Stays
<1> QED
  BY <1>1, <1>3, <1>4, BreaksQuiet

LEMMA RecvJoinStep ==
  ASSUME Base, NEW p \in Procs, NEW m, Recv_join(p, m) PROVE Base' /\ QuietStep
<1> DEFINE res == Memb_handle_join(d[p], m)
           s == Forget(res.d)
           r == [d EXCEPT ![p] = s]
           Answered(a) == IF a.type = "ALIVE" THEN Memb_handle_alive(d[a.to], a)
                          ELSE Memb_handle_refer(d[a.to], a)
<1>1. /\ \/ d' = r
         \/ \E a \in res.out : d' = [r EXCEPT ![a.to] = Forget(Answered(a))]
      /\ tokens' = tokens \ Abandoned /\ clock' = clock /\ views' = views
  BY DEF Recv_join, Arrives
<1>2. Calm(d[p], res.d) /\ Breaks(d[p], res.d) /\ Sound(d[p])
  BY JoinCalm DEF Base
<1> HIDE DEF res
<1>3. Calm(d[p], s) /\ Breaks(d[p], s)
  BY <1>2, BreaksForget
<1>4. \A q \in Procs : Calm(d[q], d[q]) /\ Breaks(d[q], d[q])
  BY CalmRefl DEF Base, Breaks
<1> HIDE DEF s
<1>5. /\ DOMAIN r = Procs
      /\ \A q \in Procs : Calm(d[q], r[q]) /\ Breaks(d[q], r[q])
  BY <1>3, <1>4 DEF Base
<1> HIDE DEF r
<1>6. ASSUME NEW a, a.to \in Procs
      PROVE  Calm(d[a.to], Forget(Answered(a))) /\ Breaks(d[a.to], Forget(Answered(a)))
  <2> DEFINE q == a.to
  <2>1. Sound(d[q])
    BY <1>6 DEF Base
  <2> HIDE DEF q
  <2>2. Calm(d[q], Memb_handle_alive(d[q], a)) /\ Breaks(d[q], Memb_handle_alive(d[q], a))
    BY <2>1, AliveCalm
  <2>3. Calm(d[q], Memb_handle_refer(d[q], a)) /\ Breaks(d[q], Memb_handle_refer(d[q], a))
    BY <2>1, ReferCalm DEF Breaks
  <2>4. Calm(d[q], Answered(a)) /\ Breaks(d[q], Answered(a))
    BY <2>2, <2>3 DEF q
  <2> HIDE DEF Answered
  <2>5. Calm(d[q], Forget(Answered(a))) /\ Breaks(d[q], Forget(Answered(a)))
    BY <2>1, <2>4, BreaksForget
  <2> QED
    BY <2>5 DEF q
<1>7. /\ DOMAIN d' = Procs
      /\ \A q \in Procs : Calm(d[q], d'[q]) /\ Breaks(d[q], d'[q])
  <2>1. CASE d' = r
    BY <1>5, <2>1
  <2>2. CASE \E a \in res.out : d' = [r EXCEPT ![a.to] = Forget(Answered(a))]
    <3> HIDE DEF Answered
    <3>1. PICK a \in res.out : d' = [r EXCEPT ![a.to] = Forget(Answered(a))]
      BY <2>2
    <3>2. DOMAIN d' = Procs
      BY <1>5, <3>1
    <3>3. ASSUME NEW q \in Procs PROVE Calm(d[q], d'[q]) /\ Breaks(d[q], d'[q])
      <4>1. CASE q = a.to
        <5>1. d'[q] = Forget(Answered(a))
          BY <1>5, <3>1, <4>1
        <5> QED
          BY <1>6, <4>1, <5>1
      <4>2. CASE q # a.to
        <5>1. d'[q] = r[q]
          BY <1>5, <3>1, <4>2
        <5> QED
          BY <1>5, <5>1
      <4> QED
        BY <4>1, <4>2
    <3> QED
      BY <3>2, <3>3
  <2> QED
    BY <1>1, <2>1, <2>2
<1> QED
  BY <1>1, <1>7, BreaksQuiet

LEMMA RecvReferStep ==
  ASSUME Base, NEW p \in Procs, NEW m, Recv_refer(p, m) PROVE Base' /\ QuietStep
<1> DEFINE s == Memb_handle_refer(d[p], m)
<1>1. /\ Becomes(p, s) /\ tokens' = tokens /\ clock' = clock /\ views' = views
  BY DEF Recv_refer, Arrives
<1>2. Calm(d[p], s) /\ Stays(d[p], s)
  BY ReferCalm DEF Base
<1> HIDE DEF s
<1> QED
  BY <1>1, <1>2, StaysQuiet

LEMMA RecvForeignStep ==
  ASSUME Base, NEW p \in Procs, NEW q, Recv_foreign(p, q) PROVE Base' /\ QuietStep
<1> DEFINE res == Memb_handle_foreign(d[p], [from |-> q])
<1>1. /\ Becomes(p, res.d) /\ Sends(res.out) /\ clock' = clock /\ views' = views
  BY DEF Recv_foreign
<1>2. Calm(d[p], res.d) /\ Stays(d[p], res.d) /\ NoTokens(res.out)
  <2>1. Sound(d[p])
    BY DEF Base
  <2> DEFINE m == [from |-> q]
  <2> HIDE DEF m
  <2>2. LET x == Memb_handle_foreign(d[p], m)
        IN  Calm(d[p], x.d) /\ Stays(d[p], x.d) /\ NoTokens(x.out)
    BY <2>1, ForeignCalm
  <2> QED
    BY <2>2 DEF m
<1> HIDE DEF res
<1>3. tokens' = tokens
  BY <1>1, <1>2, SendsNoTokens
<1> QED
  BY <1>1, <1>2, <1>3, StaysQuiet

LEMMA RestartStep ==
  ASSUME Base, NEW p \in Procs, Restart(p) PROVE Base' /\ QuietStep
<1> DEFINE s == Memb_init(p)
<1>1. /\ d' = [d EXCEPT ![p] = s]
      /\ clock' = [clock EXCEPT ![p] = Later(@, d[p].Last_time_used + 1)]
      /\ tokens' = tokens \ Expired(p) /\ views' = views
  BY DEF Restart
<1>2. Sound(s) /\ s.me = p /\ s.State = "SEG"
  BY MembInitSound
<1> HIDE DEF s
<1>3. /\ DOMAIN d' = Procs /\ d'[p] = s /\ \A q \in Procs \ {p} : d'[q] = d[q]
      /\ DOMAIN clock' = Procs /\ clock'[p] = Later(clock[p], d[p].Last_time_used + 1)
      /\ \A q \in Procs \ {p} : clock'[q] = clock[q]
  BY <1>1 DEF Base
<1>4. d[p].Last_time_used \in Int /\ clock[p] \in Int /\ clock[p] >= 1 /\ d[p].me = p
      /\ s.Last_time_used \in Int
  BY <1>2 DEF Base, Sound
<1>5. clock'[p] \in Int /\ clock'[p] >= 1
  BY <1>3, <1>4 DEF Later
<1>6. MembTime(d[p], clock[p]) <= MembTime(d'[p], clock'[p])
  BY <1>3, <1>4 DEF MembTime, Later
<1>7. Base'
  BY <1>1, <1>2, <1>3, <1>5 DEF Base
<1>8. ASSUME NEW q \in Procs \ {p}
      PROVE  Quiet(d[q], d'[q]) /\ Kept(q) /\ MembTime(d[q], clock[q]) <= MembTime(d'[q], clock'[q])
  <2>1. d'[q] = d[q] /\ clock'[q] = clock[q]
    BY <1>3
  <2>2. d[q].Last_time_used \in Int /\ clock[q] \in Int
    BY DEF Base, Sound
  <2>3. MembTime(d[q], clock[q]) \in Int
    BY <2>2 DEF MembTime, Later
  <2> QED
    BY <2>1, <2>3 DEF Quiet, Kept, Stays
<1>9. Quiet(d[p], d'[p])
  BY <1>2, <1>3, <1>4 DEF Quiet
<1>10. Kept(p)
  <2> SUFFICES ASSUME NEW m \in tokens', m.to = p, IsForm(m) PROVE m.seen = FALSE
    BY DEF Kept
  <2>1. m \in tokens /\ m \notin Expired(p)
    BY <1>1
  <2>2. m.seen \in BOOLEAN
    BY <2>1 DEF Base, TokenOK
  <2> QED
    BY <2>1, <2>2 DEF Expired
<1>11. \A m \in tokens' : IsForm(m) => m \in tokens
  BY <1>1
<1> QED
  BY <1>1, <1>6, <1>7, <1>8, <1>9, <1>10, <1>11 DEF QuietStep

Seen(m) == [m EXCEPT !.seen = TRUE]

LEMMA SeenIs ==
  ASSUME NEW m, TokenOK(m)
  PROVE  /\ TokenOK(Seen(m)) /\ Seen(m).type = m.type /\ Seen(m).seen = TRUE
         /\ Seen(m).to = m.to /\ Seen(m).memb_id = m.memb_id
         /\ IsForm(m) => Seen(m).rings = m.rings
         /\ m.type = "FORM2" =>
              /\ Seen(m).n = m.n /\ Seen(m).m_id = m.m_id
              /\ Seen(m).members = m.members
<1> DEFINE x == Seen(m)
<1>1. CASE m.type = "FORM1"
  <2>1. DOMAIN m = Form1Fields /\ RingsOK(m.rings)
    BY <1>1 DEF TokenOK
  <2>2. /\ DOMAIN x = Form1Fields /\ x.type = m.type /\ x.to = m.to /\ x.memb_id = m.memb_id
        /\ x.rings = m.rings
    BY <2>1 DEF Seen, Form1Fields, Header
  <2>3. x.seen = TRUE
    BY <2>1 DEF Seen, Form1Fields, Header
  <2> HIDE DEF x
  <2>4. TokenOK(x)
    BY <1>1, <2>1, <2>2, <2>3 DEF TokenOK
  <2> QED
    BY <1>1, <2>2, <2>3, <2>4 DEF x
<1>2. CASE m.type = "FORM2"
  <2>1. DOMAIN m = Form2Fields /\ RingsOK(m.rings) /\ m.n \in Nat
    BY <1>2 DEF TokenOK
  <2>2. /\ DOMAIN x = Form2Fields /\ x.type = m.type /\ x.to = m.to /\ x.memb_id = m.memb_id
        /\ x.rings = m.rings
    BY <2>1 DEF Seen, Form2Fields, Header
  <2>3. x.n = m.n /\ x.m_id = m.m_id /\ x.members = m.members
    BY <2>1 DEF Seen, Form2Fields, Header
  <2>4. x.seen = TRUE
    BY <2>1 DEF Seen, Form2Fields, Header
  <2> HIDE DEF x
  <2>5. x.n \in Nat /\ RingsOK(x.rings)
    BY <2>1, <2>2, <2>3
  <2>6. TokenOK(x)
    BY <1>2, <2>2, <2>4, <2>5 DEF TokenOK
  <2> QED
    BY <1>2, <2>2, <2>3, <2>4, <2>6 DEF x
<1>3. CASE m.type = "TOKEN"
  <2>1. DOMAIN m = TokenFields /\ m.aru \in Nat
    BY <1>3 DEF TokenOK
  <2>2. /\ DOMAIN x = TokenFields /\ x.type = m.type /\ x.to = m.to /\ x.memb_id = m.memb_id
        /\ x.aru = m.aru
    BY <2>1 DEF Seen, TokenFields, Header
  <2>3. x.seen = TRUE
    BY <2>1 DEF Seen, TokenFields, Header
  <2> HIDE DEF x
  <2>4. x.aru \in Nat
    BY <2>1, <2>2
  <2>5. TokenOK(x)
    BY <1>3, <2>2, <2>3, <2>4 DEF TokenOK
  <2> QED
    BY <1>3, <2>2, <2>3, <2>5 DEF x, IsForm
<1> QED
  BY <1>1, <1>2, <1>3 DEF TokenOK

LEMMA RecvForm1Step ==
  ASSUME Base, NEW p \in Procs, NEW m \in tokens, Recv_form1(p, m)
  PROVE  Base' /\ (QuietStep \/ FillStep(p, m))
<1> DEFINE res == Memb_handle_form1(d[p], m)
           s == res.d
<1>1. /\ m.type = "FORM1" /\ m.to = p /\ Becomes(p, s) /\ Passed(m, res.out)
      /\ clock' = clock /\ views' = views
  BY DEF Recv_form1, Arrives
<1>2. Sound(d[p]) /\ TokenOK(m) /\ d[p].me = p
  BY DEF Base
<1>3. \/ Calm(d[p], s) /\ Stays(d[p], s) /\ res.out = {}
      \/ Fills(d[p], m, s, res.out)
  BY <1>1, <1>2, FillForm1
<1> HIDE DEF res
<1>4. CASE Calm(d[p], s) /\ Stays(d[p], s) /\ res.out = {}
  <2>1. tokens' = tokens
    BY <1>1, <1>4 DEF Passed
  <2> HIDE DEF s
  <2> QED
    BY <1>1, <1>4, <2>1, StaysQuiet
<1>5. CASE Fills(d[p], m, s, res.out)
  <2> HIDE DEF s
  <2>1. PICK x : /\ res.out = {x} /\ TokenOK(x)
                 /\ x.type \in {"FORM1", "FORM2"}
                 /\ x.seen = FALSE /\ x.memb_id = m.memb_id
                 /\ x.type = "FORM2" => x.n = 0
                 /\ RingsFilled(d[p], m.rings, x.rings)
    BY <1>5 DEF Fills
  <2>2. tokens' = (tokens \ {m}) \cup {[m EXCEPT !.seen = TRUE]} \cup {x}
    BY <1>1, <2>1 DEF Passed
  <2>3. DOMAIN d' = Procs /\ d'[p] = Forget(s) /\ \A q \in Procs \ {p} : d'[q] = d[q]
    BY <1>1 DEF Becomes, Base
  <2>4. Calm(s, Forget(s)) /\ Forget(s).State = "FORM"
    BY <1>5, ForgetCalm DEF Fills
  <2>5. /\ Sound(d'[p]) /\ d'[p].me = p /\ d'[p].State = "FORM" /\ d'[p].Form1_memb_id = m.memb_id
        /\ d'[p].Membership_id = d[p].Membership_id
    BY <1>2, <1>5, <2>3, <2>4 DEF Calm, Quiet, Fills
  <2>6. d'[p].Last_time_used = d[p].Last_time_used
    <3>1. DOMAIN s = Fields
      BY <1>5 DEF Sound, Fills
    <3>2. Forget(s).Last_time_used = s.Last_time_used
      BY <3>1 DEF Forget, Fields
    <3> QED
      BY <1>5, <2>3, <3>2 DEF Fills
  <2>7. TokenOK(Seen(m))
    BY <1>2, SeenIs
  <2>8. \A y \in tokens' : TokenOK(y)
    BY <2>1, <2>2, <2>7 DEF Base, Seen
  <2>9. Base'
    BY <1>1, <2>3, <2>5, <2>8 DEF Base
  <2>10. OthersStay(p)
    BY <1>1, <2>3 DEF OthersStay
  <2>11. FillStep(p, m)
    BY <1>1, <1>5, <2>1, <2>2, <2>5, <2>6, <2>10 DEF FillStep, Fills
  <2> QED
    BY <2>9, <2>11
<1> QED
  BY <1>3, <1>4, <1>5

LEMMA RecvForm2Step ==
  ASSUME Base, NEW p \in Procs, NEW m \in tokens, Recv_form2(p, m)
  PROVE  Base' /\ ReadStep(p, m)
<1> DEFINE res == Read_form2(d[p], m, clock[p])
           s == res.d
<1>1. /\ m.type = "FORM2" /\ m.to = p /\ Becomes(p, s) /\ Passed(m, res.out)
      /\ clock' = clock /\ views' = views /\ d[p].State = "FORM" /\ Form2IsForMe(d[p], m)
  BY DEF Recv_form2, Arrives
<1>2. Sound(d[p]) /\ TokenOK(m) /\ d[p].me = p /\ clock[p] \in Int
  BY DEF Base
<1>3. /\ Mine(d[p], m.rings) # {}
      /\ Reads(d[p], m, clock[p], s)
      /\ \E x : res.out = {x} /\ PassesOn(d[p], m, clock[p], x)
  BY <1>1, <1>2, ReadForm2
<1> HIDE DEF res, s
<1>4. PICK x : res.out = {x} /\ PassesOn(d[p], m, clock[p], x)
  BY <1>3
<1>5. tokens' = (tokens \ {m}) \cup {[m EXCEPT !.seen = TRUE]} \cup {x}
  BY <1>1, <1>4 DEF Passed
<1>6. DOMAIN d' = Procs /\ d'[p] = Forget(s) /\ \A q \in Procs \ {p} : d'[q] = d[q]
  BY <1>1 DEF Becomes, Base
<1>7. Sound(s) /\ s.State = "EVS" /\ s.me = p
  BY <1>2, <1>3 DEF Reads
<1>8. DOMAIN s = Fields
  BY <1>7 DEF Sound
<1>9. /\ Forget(s).Future_membership = s.Future_membership
      /\ Forget(s).Future_membership_id = s.Future_membership_id
      /\ Forget(s).Future_commit_set = s.Future_commit_set
      /\ Forget(s).F_trans_memb_time = s.F_trans_memb_time
      /\ Forget(s).Last_time_used = s.Last_time_used
      /\ Forget(s).Membership_id = s.Membership_id
  BY <1>7, <1>8 DEF Forget, Fields
<1>10. Calm(s, Forget(s)) /\ Forget(s).State = "EVS"
  BY <1>7, ForgetCalm
<1>11. Sound(Forget(s)) /\ Forget(s).me = p
  BY <1>7, <1>10 DEF Calm, Quiet
<1>12. Reads(d[p], m, clock[p], d'[p])
  BY <1>2, <1>3, <1>6, <1>9, <1>10, <1>11 DEF Reads
<1>13. \A y \in tokens' : TokenOK(y)
  <2>1. TokenOK(Seen(m))
    BY <1>2, SeenIs
  <2> QED
    BY <1>4, <1>5, <2>1 DEF Base, Seen, PassesOn
<1>14. Base'
  BY <1>1, <1>6, <1>11, <1>13 DEF Base
<1>15. OthersStay(p)
  BY <1>1, <1>6 DEF OthersStay
<1>16. m.memb_id = d[p].Form1_memb_id
  BY <1>1 DEF Form2IsForMe
<1> QED
  BY <1>1, <1>3, <1>4, <1>5, <1>12, <1>14, <1>15, <1>16 DEF ReadStep

LEMMA RecvTokenStep ==
  ASSUME Base, NEW p \in Procs, NEW m \in tokens, Recv_token(p, m) PROVE Base' /\ QuietStep
<1>1. m.type = "TOKEN" /\ clock' = clock
  BY DEF Recv_token, Arrives
<1> DEFINE Mine1(complete) ==
              IF d[p].State = "EVS" /\ (complete \/ d[p].recovered) THEN Last_seq ELSE Low
           Handled(complete, aru) ==
              LET res == Prot_handle_token(d[p], m, complete, aru)
              IN  /\ Becomes(p, res.d)
                  /\ views' = views \cup res.view
                  /\ tokens' = (tokens \ (IF res.view = {} THEN {m} ELSE {m} \cup Outlived(p)))
                               \cup {[m EXCEPT !.seen = TRUE]} \cup res.out
<1>2. \E complete \in BOOLEAN : \E aru \in TokenAru(d[p], m, Mine1(complete)) :
         Handled(complete, aru)
  BY DEF Recv_token
<1> HIDE DEF Handled
<1>3. PICK complete \in BOOLEAN : \E aru \in TokenAru(d[p], m, Mine1(complete)) :
         Handled(complete, aru)
  BY <1>2
<1>4. PICK aru \in TokenAru(d[p], m, Mine1(complete)) : Handled(complete, aru)
  BY <1>3
<1> DEFINE res == Prot_handle_token(d[p], m, complete, aru)
           s == res.d
<1>5. Sound(d[p]) /\ TokenOK(m) /\ d[p].me = p
  BY DEF Base
<1>6. /\ Calm(d[p], s)
      /\ \A v \in res.view : Installs(d[p], v)
      /\ res.view = {} => Stays(d[p], s)
      /\ \A x \in res.out : TokenOK(x) /\ x.type = "TOKEN"
  BY <1>1, <1>5, HandleToken
<1>7. /\ Becomes(p, s) /\ views' = views \cup res.view
      /\ tokens' = (tokens \ (IF res.view = {} THEN {m} ELSE {m} \cup Outlived(p)))
                    \cup {Seen(m)} \cup res.out
  BY <1>4 DEF Seen, Handled
<1> HIDE DEF res, s
<1>8. /\ DOMAIN d' = Procs /\ d'[p].State = s.State
      /\ \A q \in Procs : Calm(d[q], d'[q])
      /\ \A q \in Procs \ {p} : d'[q] = d[q]
  BY <1>6, <1>7, CalmBecomes
<1>9. TokenOK(Seen(m)) /\ Seen(m).type = "TOKEN"
  BY <1>1, <1>5, SeenIs
<1>10. \A y \in tokens' : y \in tokens \/ (TokenOK(y) /\ y.type = "TOKEN")
  BY <1>6, <1>7, <1>9
<1>11. Kept(p)
  <2>1. CASE res.view = {}
    BY <1>6, <1>8, <2>1 DEF Kept, Stays
  <2>2. CASE res.view # {}
    <3> SUFFICES ASSUME NEW y \in tokens', y.to = p, IsForm(y) PROVE y.seen = FALSE
      BY DEF Kept
    <3>1. y \in tokens /\ y \notin Outlived(p)
      BY <1>6, <1>7, <1>9, <2>2 DEF IsForm
    <3>2. y.seen \in BOOLEAN
      BY <3>1 DEF Base, TokenOK
    <3> QED
      BY <3>1, <3>2 DEF Outlived, IsForm
  <2> QED
    BY <2>1, <2>2
<1>12. \A q \in Procs : Kept(q)
  BY <1>8, <1>11 DEF Kept, Stays
<1>13. \A v \in views' : v \in views \/ \E q \in Procs : Installs(d[q], v)
  BY <1>6, <1>7
<1> QED
  BY <1>1, <1>8, <1>10, <1>12, <1>13, CalmQuiet

\* Every step is of one of the four kinds.
LEMMA BaseStep ==
  ASSUME Base, [Next]_vars
  PROVE  /\ Base'
         /\ \/ QuietStep
            \/ \E p \in Procs : CreateStep(p)
            \/ \E p \in Procs : \E m \in tokens : FillStep(p, m) \/ ReadStep(p, m)
<1>1. CASE UNCHANGED vars
  BY <1>1, IdleQuiet DEF vars
<1>2. CASE Next
  <2>1. PICK p \in Procs :
          \/ Memb_token_loss_event(p)
          \/ Scast_alive_event(p)
          \/ Gather_or_represented_event(p)
          \/ Shift_to_seg_event(p)
          \/ Send_join_event(p)
          \/ Form_or_fail_event(p)
          \/ Memb_lookup_new_members_event(p)
          \/ \E m \in Arriving(p) : Recv_alive(p, m)
          \/ \E m \in Arriving(p) : Recv_join(p, m)
          \/ \E m \in Arriving(p) : Recv_refer(p, m)
          \/ \E m \in tokens : Recv_form1(p, m)
          \/ \E m \in tokens : Recv_form2(p, m)
          \/ \E m \in tokens : Recv_token(p, m)
          \/ \E q \in Procs \ {p} : Recv_foreign(p, q)
          \/ Restart(p)
    BY <1>2 DEF Next
  <2>2. CASE Memb_token_loss_event(p)
    BY <2>2, TokenLossStep
  <2>3. CASE Scast_alive_event(p) \/ Send_join_event(p)
    BY <2>3, PeriodicSendsStep
  <2>4. CASE Gather_or_represented_event(p)
    BY <2>4, GatherStep
  <2>5. CASE Shift_to_seg_event(p)
    BY <2>5, ShiftToSegStep
  <2>6. CASE Form_or_fail_event(p)
    BY <2>6, FormOrFailStep
  <2>7. CASE Memb_lookup_new_members_event(p)
    BY <2>7, LookupStep
  <2>8. CASE \E m \in Arriving(p) : Recv_alive(p, m)
    BY <2>8, RecvAliveStep
  <2>9. CASE \E m \in Arriving(p) : Recv_join(p, m)
    BY <2>9, RecvJoinStep
  <2>10. CASE \E m \in Arriving(p) : Recv_refer(p, m)
    BY <2>10, RecvReferStep
  <2>11. CASE \E m \in tokens : Recv_form1(p, m)
    BY <2>11, RecvForm1Step
  <2>12. CASE \E m \in tokens : Recv_form2(p, m)
    BY <2>12, RecvForm2Step
  <2>13. CASE \E m \in tokens : Recv_token(p, m)
    BY <2>13, RecvTokenStep
  <2>14. CASE \E q \in Procs \ {p} : Recv_foreign(p, q)
    BY <2>14, RecvForeignStep
  <2>15. CASE Restart(p)
    BY <2>15, RestartStep
  <2> QED
    BY <2>1, <2>2, <2>3, <2>4, <2>5, <2>6, <2>7, <2>8, <2>9, <2>10, <2>11, <2>12, <2>13,
       <2>14, <2>15
<1> QED
  BY <1>1, <1>2

LEMMA BaseInit == ASSUME Init PROVE Base
<1>1. /\ tokens = {}
      /\ clock = [p \in Procs |-> 1]
      /\ \E s : d = [p \in Procs |-> CASE p \in s.ring -> Operating(p, s.ring)
                                   [] p \in s.up \ s.ring -> Memb_init(p)
                                   [] OTHER -> Down(Memb_init(p))]
  BY DEF Init
<1>2. PICK s : d = [p \in Procs |-> CASE p \in s.ring -> Operating(p, s.ring)
                                   [] p \in s.up \ s.ring -> Memb_init(p)
                                   [] OTHER -> Down(Memb_init(p))]
  BY <1>1
<1>3. ASSUME NEW p \in Procs PROVE Sound(d[p]) /\ d[p].me = p
  <2>1. \/ d[p] = Operating(p, s.ring)
        \/ d[p] = Memb_init(p)
        \/ d[p] = Down(Memb_init(p))
    BY <1>2
  <2>2. Sound(Operating(p, s.ring)) /\ Operating(p, s.ring).me = p
    BY OperatingSound
  <2>3. Sound(Memb_init(p)) /\ Memb_init(p).me = p
    BY MembInitSound
  <2>4. Sound(Down(Memb_init(p))) /\ Down(Memb_init(p)).me = p
    BY DownSound
  <2> QED
    BY <2>1, <2>2, <2>3, <2>4
<1>4. DOMAIN d = Procs
  BY <1>2
<1> QED
  BY <1>1, <1>3, <1>4 DEF Base

(***************************************************************************)
(* The author's assertion in Memb_token_loss (membership.c:808 and :815):  *)
(* no daemon that has lost its token and has not got another is told again *)
(* that it lost it.                                                        *)
(***************************************************************************)
THEOREM TokenLostOnceHolds == Spec => []TokenLostOnce
<1>1. Init => Base
  BY BaseInit
<1>2. Base /\ [Next]_vars => Base'
  BY BaseStep
<1>3. Base => TokenLostOnce
  BY DEF Base, Sound, TokenLostOnce
<1> QED
  BY <1>1, <1>2, <1>3, PTL DEF Spec

-----------------------------------------------------------------------------
(***************************************************************************)
(* Second part: what is said of a membership.  The FORM2 token that has    *)
(* been read, a daemon that installs, and a view delivered each make       *)
(* claims about a membership identifier: its members, the attempt that     *)
(* formed it, and who survives of an old ring.  The first reader makes the *)
(* identifier from a time later than any it used, so it says nothing about *)
(* an identifier spoken of before; every other claim repeats the token.    *)
(***************************************************************************)

Say(id, members, form, rings) ==
  {<<id, "members", NoId, members>>, <<id, "form", NoId, form>>}
  \cup {<<id, "trans", g.memb_id, g.trans>> : g \in rings}

Said(m) ==
  IF m.type = "FORM2" /\ m.n # 0 THEN Say(m.m_id, ToSet(m.members), m.memb_id, m.rings) ELSE {}

Heard(r) ==
  IF r.State = "EVS"
  THEN {<<r.Future_membership_id, "members", NoId, r.Future_membership>>,
        <<r.Future_membership_id, "trans", r.Membership_id, r.Future_commit_set.trans>>}
  ELSE {}

Told(v) ==
  {<<v.memb_id, "members", NoId, v.members>>, <<v.memb_id, "trans", v.prev, v.trans>>}

ClaimsOf(D, T, V) ==
  (UNION {Heard(D[p]) : p \in Procs}) \cup (UNION {Said(m) : m \in T})
  \cup (UNION {Told(v) : v \in V})

Claims == ClaimsOf(d, tokens, views)

Agreeing(S) ==
  \A a, b \in S : (a[1] = b[1] /\ a[2] = b[2] /\ a[3] = b[3]) => a[4] = b[4]

\* An identifier that its maker can not make again.
Past(id) ==
  /\ id.proc_id \in Procs /\ id.time \in Int
  /\ id.time < MembTime(d[id.proc_id], clock[id.proc_id])

Spoken ==
  /\ Agreeing(Claims)
  /\ \A a \in Claims : Past(a[1])

LEMMA SayIs ==
  ASSUME NEW id, NEW ms, NEW form, NEW rings, NEW a
  PROVE  a \in Say(id, ms, form, rings) <=>
           \/ a = <<id, "members", NoId, ms>>
           \/ a = <<id, "form", NoId, form>>
           \/ \E g \in rings : a = <<id, "trans", g.memb_id, g.trans>>
  BY DEF Say

LEMMA SayAgrees ==
  ASSUME NEW id, NEW ms, NEW form, NEW rings, RingsOK(rings)
  PROVE  /\ Agreeing(Say(id, ms, form, rings))
         /\ \A a \in Say(id, ms, form, rings) : a[1] = id
<1>1. ASSUME NEW a \in Say(id, ms, form, rings) PROVE a[1] = id
  BY SayIs
<1>2. ASSUME NEW a \in Say(id, ms, form, rings), NEW b \in Say(id, ms, form, rings),
             a[2] = b[2], a[3] = b[3]
      PROVE  a[4] = b[4]
  <2>1. CASE a = <<id, "members", NoId, ms>>
    BY <1>2, <2>1, SayIs
  <2>2. CASE a = <<id, "form", NoId, form>>
    BY <1>2, <2>2, SayIs
  <2>3. CASE \E g \in rings : a = <<id, "trans", g.memb_id, g.trans>>
    <3>1. PICK g \in rings : a = <<id, "trans", g.memb_id, g.trans>>
      BY <2>3
    <3>2. \E h \in rings : b = <<id, "trans", h.memb_id, h.trans>>
      BY <1>2, <3>1, SayIs
    <3>3. PICK h \in rings : b = <<id, "trans", h.memb_id, h.trans>>
      BY <3>2
    <3>4. g.memb_id = h.memb_id
      BY <1>2, <3>1, <3>3
    <3>5. g = h
      BY <3>4 DEF RingsOK
    <3> QED
      BY <3>1, <3>3, <3>5
  <2> QED
    BY <2>1, <2>2, <2>3, SayIs
<1> QED
  BY <1>1, <1>2 DEF Agreeing

LEMMA ClaimsFrom ==
  ASSUME NEW D, NEW T, NEW V, NEW a
  PROVE  a \in ClaimsOf(D, T, V) <=>
           \/ \E p \in Procs : a \in Heard(D[p])
           \/ \E m \in T : a \in Said(m)
           \/ \E v \in V : a \in Told(v)
  BY DEF ClaimsOf

\* Times only move on.
LEMMA PastStays ==
  ASSUME Base, Base',
         \A q \in Procs : MembTime(d[q], clock[q]) <= MembTime(d'[q], clock'[q]),
         NEW id, Past(id)
  PROVE  Past(id)'
<1>1. \A q \in Procs : MembTime(d[q], clock[q]) \in Int /\ MembTime(d'[q], clock'[q]) \in Int
  BY DEF Base, Sound, MembTime, Later
<1>2. id.proc_id \in Procs /\ id.time \in Int
      /\ id.time < MembTime(d[id.proc_id], clock[id.proc_id])
  BY DEF Past
<1>3. MembTime(d[id.proc_id], clock[id.proc_id]) <= MembTime(d'[id.proc_id], clock'[id.proc_id])
  BY <1>2
<1> QED
  BY <1>1, <1>2, <1>3 DEF Past

\* Every step keeps what was said, or speaks of a new identifier.
LEMMA SpokenGrows ==
  ASSUME Base, Base', Spoken, NEW S, NEW id,
         \A a \in Claims' : a \in Claims \/ a \in S,
         \A q \in Procs : MembTime(d[q], clock[q]) <= MembTime(d'[q], clock'[q]),
         \/ \A a \in S : a \in Claims
         \/ ~Past(id) /\ Past(id)' /\ Agreeing(S) /\ \A a \in S : a[1] = id
  PROVE  Spoken'
<1>1. \A a \in Claims : Past(a[1])'
  BY PastStays DEF Spoken
<1>2. CASE \A a \in S : a \in Claims
  BY <1>1, <1>2 DEF Spoken, Agreeing
<1>3. CASE ~Past(id) /\ Past(id)' /\ Agreeing(S) /\ \A a \in S : a[1] = id
  <2>1. \A a \in Claims : a[1] # id
    BY <1>3 DEF Spoken
  <2>2. \A a \in Claims' : Past(a[1])'
    BY <1>1, <1>3
  <2>3. ASSUME NEW a \in Claims', NEW b \in Claims', a[1] = b[1], a[2] = b[2], a[3] = b[3]
        PROVE  a[4] = b[4]
    <3>1. CASE a[1] = id
      <4>1. a \in S /\ b \in S
        BY <2>1, <2>3, <3>1
      <4> QED
        BY <1>3, <2>3, <4>1 DEF Agreeing
    <3>2. CASE a[1] # id
      <4>1. a \in Claims /\ b \in Claims
        BY <1>3, <2>3, <3>2
      <4> QED
        BY <2>3, <4>1 DEF Spoken, Agreeing
    <3> QED
      BY <3>1, <3>2
  <2> QED
    BY <2>2, <2>3 DEF Spoken, Agreeing
<1> QED
  BY <1>2, <1>3

LEMMA QuietSpoken ==
  ASSUME Base, Base', Spoken, QuietStep PROVE Spoken'
<1>1. ASSUME NEW a \in Claims' PROVE a \in Claims
  <2>1. a \in ClaimsOf(d', tokens', views')
    BY DEF Claims
  <2>2. CASE \E p \in Procs : a \in Heard(d'[p])
    <3>1. PICK p \in Procs : a \in Heard(d'[p])
      BY <2>2
    <3>2. a \in Heard(d[p])
      BY <3>1 DEF QuietStep, Quiet, Heard
    <3> QED
      BY <3>2, ClaimsFrom DEF Claims
  <2>3. CASE \E m \in tokens' : a \in Said(m)
    <3>1. PICK m \in tokens' : a \in Said(m)
      BY <2>3
    <3>2. m \in tokens
      BY <3>1 DEF QuietStep, Said, IsForm
    <3> QED
      BY <3>1, <3>2, ClaimsFrom DEF Claims
  <2>4. CASE \E v \in views' : a \in Told(v)
    <3>1. PICK v \in views' : a \in Told(v)
      BY <2>4
    <3>2. CASE v \in views
      BY <3>1, <3>2, ClaimsFrom DEF Claims
    <3>3. CASE \E q \in Procs : Installs(d[q], v)
      <4>1. PICK q \in Procs : Installs(d[q], v)
        BY <3>3
      <4>2. a \in Heard(d[q])
        BY <3>1, <4>1 DEF Told, Heard, Installs
      <4> QED
        BY <4>2, ClaimsFrom DEF Claims
    <3> QED
      BY <3>2, <3>3 DEF QuietStep
  <2> QED
    BY <2>1, <2>2, <2>3, <2>4, ClaimsFrom
<1>2. \A q \in Procs : MembTime(d[q], clock[q]) <= MembTime(d'[q], clock'[q])
  BY DEF QuietStep
<1> QED
  BY <1>1, <1>2, SpokenGrows

\* The clock of a daemon that reads or creates.
LEMMA FormIdPast ==
  ASSUME Base, NEW p \in Procs
  PROVE  /\ \A id : (id.proc_id = p /\ id.time >= MembTime(d[p], clock[p])) => ~Past(id)
         /\ FormId(d[p], clock[p]).proc_id = p
         /\ FormId(d[p], clock[p]).time = MembTime(d[p], clock[p])
         /\ MembTime(d[p], clock[p]) \in Int
         /\ d[p].Last_time_used < MembTime(d[p], clock[p])
<1>1. d[p].me = p /\ d[p].Last_time_used \in Int /\ clock[p] \in Int
  BY DEF Base, Sound
<1>2. MembTime(d[p], clock[p]) \in Int /\ d[p].Last_time_used < MembTime(d[p], clock[p])
  BY <1>1 DEF MembTime, Later
<1>3. FormId(d[p], clock[p]).proc_id = p /\ FormId(d[p], clock[p]).time = MembTime(d[p], clock[p])
  BY <1>1 DEF FormId
<1>4. \A id : (id.proc_id = p /\ id.time >= MembTime(d[p], clock[p])) => ~Past(id)
  BY <1>2 DEF Past
<1> QED
  BY <1>2, <1>3, <1>4

\* One daemon moves on, the clocks stand still.
LEMMA TimesMoveOn ==
  ASSUME Base, Base', NEW p \in Procs, OthersStay(p),
         d[p].Last_time_used <= d'[p].Last_time_used
  PROVE  \A q \in Procs : MembTime(d[q], clock[q]) <= MembTime(d'[q], clock'[q])
<1> TAKE q \in Procs
<1>1. /\ clock'[q] = clock[q] /\ clock[q] \in Int
      /\ d[q].Last_time_used \in Int /\ d'[q].Last_time_used \in Int
      /\ d[q].Last_time_used <= d'[q].Last_time_used
  BY DEF Base, Sound, OthersStay
<1> QED
  BY <1>1 DEF MembTime, Later

\* Nothing is said in FORM.
LEMMA FormSpoken ==
  ASSUME Base, Base', Spoken, NEW p \in Procs, OthersStay(p), d'[p].State = "FORM",
         d[p].Last_time_used <= d'[p].Last_time_used,
         \A m \in tokens' : m \in tokens \/ Said(m) = {}
  PROVE  Spoken'
<1>1. ASSUME NEW a \in Claims' PROVE a \in Claims
  <2>1. a \in ClaimsOf(d', tokens', views')
    BY DEF Claims
  <2>2. CASE \E q \in Procs : a \in Heard(d'[q])
    <3>1. PICK q \in Procs : a \in Heard(d'[q])
      BY <2>2
    <3>2. q # p
      BY <3>1 DEF Heard
    <3>3. a \in Heard(d[q])
      BY <3>1, <3>2 DEF OthersStay
    <3> QED
      BY <3>3, ClaimsFrom DEF Claims
  <2>3. CASE \E m \in tokens' : a \in Said(m)
    BY <2>3, ClaimsFrom DEF Claims
  <2>4. CASE \E v \in views' : a \in Told(v)
    BY <2>4, ClaimsFrom DEF Claims, OthersStay
  <2> QED
    BY <2>1, <2>2, <2>3, <2>4, ClaimsFrom
<1>2. \A q \in Procs : MembTime(d[q], clock[q]) <= MembTime(d'[q], clock'[q])
  BY TimesMoveOn
<1> QED
  BY <1>1, <1>2, SpokenGrows

LEMMA CreateSpoken ==
  ASSUME Base, Base', Spoken, NEW p \in Procs, CreateStep(p) PROVE Spoken'
<1>1. \A m \in tokens' : m \in tokens \/ Said(m) = {}
  BY DEF CreateStep, Said
<1>2. d[p].Last_time_used <= d'[p].Last_time_used
  <2>1. d[p].Last_time_used \in Int
    BY DEF Base, Sound
  <2> QED
    BY <2>1, FormIdPast DEF CreateStep
<1>3. OthersStay(p) /\ d'[p].State = "FORM"
  BY DEF CreateStep
<1> QED
  BY <1>1, <1>2, <1>3, FormSpoken

LEMMA FillSpoken ==
  ASSUME Base, Base', Spoken, NEW p \in Procs, NEW m \in tokens, FillStep(p, m) PROVE Spoken'
<1>1. /\ m.type = "FORM1" /\ OthersStay(p) /\ d'[p].State = "FORM"
      /\ d'[p].Last_time_used = d[p].Last_time_used
  BY DEF FillStep
<1>2. PICK x : /\ tokens' = (tokens \ {m}) \cup {[m EXCEPT !.seen = TRUE]} \cup {x}
               /\ x.type = "FORM2" => x.n = 0
  BY DEF FillStep
<1>3. Seen(m).type = "FORM1"
  BY <1>1, SeenIs DEF Base
<1>4. Said(Seen(m)) = {} /\ Said(x) = {}
  BY <1>2, <1>3 DEF Said
<1>5. \A y \in tokens' : y \in tokens \/ Said(y) = {}
  BY <1>2, <1>4 DEF Seen
<1>6. d[p].Last_time_used <= d'[p].Last_time_used
  BY <1>1 DEF Base, Sound
<1> QED
  BY <1>1, <1>5, <1>6, FormSpoken

\* The rings of the token that p has read name the same survivors.
ReadClaims(p, m) ==
  Say(ReadId(d[p], m, clock[p]), ToSet(m.members), m.memb_id, ReadRings(d[p], m, clock[p]))

LEMMA ReadSpoken ==
  ASSUME Base, Base', Spoken, NEW p \in Procs, NEW m \in tokens, ReadStep(p, m) PROVE Spoken'
<1> DEFINE now == clock[p]
           id == ReadId(d[p], m, now)
           ring == RingOf(d[p], m.rings)
           ring2 == Stamp(ring, MembTime(d[p], now))
           new == ReadRings(d[p], m, now)
           S == ReadClaims(p, m)
<1>1. /\ m.type = "FORM2" /\ OthersStay(p) /\ Mine(d[p], m.rings) # {}
      /\ Reads(d[p], m, now, d'[p])
  BY DEF ReadStep
<1>2. PICK x : /\ tokens' = (tokens \ {m}) \cup {[m EXCEPT !.seen = TRUE]} \cup {x}
               /\ PassesOn(d[p], m, now, x)
  BY DEF ReadStep
<1>3. TokenOK(m) /\ RingsOK(m.rings) /\ m.n \in Nat
  BY <1>1 DEF Base, TokenOK
<1>4. RingsRead(d[p], m.rings, new, ring, ring2)
  BY <1>1, <1>3, ReadRingsIs
<1>5. S = Say(id, ToSet(m.members), m.memb_id, new)
  BY DEF ReadClaims
<1> HIDE DEF new, ring2, ring, id, S, now
<1>6. Said(Seen(m)) = Said(m)
  BY <1>1, <1>3, SeenIs DEF Said, IsForm
<1>7. ASSUME NEW a \in Said(x) PROVE a \in S
  <2>1. x.type = "FORM2"
    BY <1>7 DEF Said
  <2>2. Said(x) \subseteq Say(x.m_id, ToSet(x.members), x.memb_id, x.rings)
    BY DEF Said
  <2>3. /\ x.m_id = id /\ x.members = m.members /\ x.memb_id = m.memb_id /\ x.rings = new
    BY <1>2, <2>1 DEF PassesOn, id, new
  <2> QED
    BY <1>5, <1>7, <2>2, <2>3
<1>8. ASSUME NEW a \in Heard(d'[p]) PROVE a \in S
  <2>1. /\ d'[p].Future_membership_id = id /\ d'[p].Future_membership = ToSet(m.members)
        /\ d'[p].Membership_id = d[p].Membership_id
        /\ d'[p].Future_commit_set.trans = ring.trans
    BY <1>1 DEF Reads, id, ring
  <2>2. \/ a = <<id, "members", NoId, ToSet(m.members)>>
        \/ a = <<id, "trans", ring2.memb_id, ring2.trans>>
    BY <1>4, <1>8, <2>1 DEF Heard, RingsRead
  <2> QED
    BY <1>4, <1>5, <2>2, SayIs DEF RingsRead
<1>9. ASSUME NEW a \in Claims' PROVE a \in Claims \/ a \in S
  <2>1. a \in ClaimsOf(d', tokens', views')
    BY DEF Claims
  <2>2. CASE \E q \in Procs : a \in Heard(d'[q])
    <3>1. PICK q \in Procs : a \in Heard(d'[q])
      BY <2>2
    <3>2. CASE q = p
      BY <1>8, <3>1, <3>2
    <3>3. CASE q # p
      <4>1. a \in Heard(d[q])
        BY <1>1, <3>1, <3>3 DEF OthersStay
      <4> QED
        BY <4>1, ClaimsFrom DEF Claims
    <3> QED
      BY <3>2, <3>3
  <2>3. CASE \E y \in tokens' : a \in Said(y)
    <3>1. PICK y \in tokens' : a \in Said(y)
      BY <2>3
    <3>2. y \in tokens \/ y = Seen(m) \/ y = x
      BY <1>2, <3>1 DEF Seen
    <3>3. a \in Said(x) \/ \E z \in tokens : a \in Said(z)
      BY <1>6, <3>1, <3>2
    <3> QED
      BY <1>7, <3>3, ClaimsFrom DEF Claims
  <2>4. CASE \E v \in views' : a \in Told(v)
    BY <1>1, <2>4, ClaimsFrom DEF Claims, OthersStay
  <2> QED
    BY <2>1, <2>2, <2>3, <2>4, ClaimsFrom
<1>10. Agreeing(S) /\ \A a \in S : a[1] = id
  BY <1>4, <1>5, SayAgrees DEF RingsRead
<1>11. \A q \in Procs : MembTime(d[q], clock[q]) <= MembTime(d'[q], clock'[q])
  BY <1>1, TimesMoveOn DEF Reads
<1>12. PICK i, C : i = id /\ C = S
  OBVIOUS
<1>13. CASE m.n = 0
  <2> DEFINE T == MembTime(d[p], now)
  <2>1. i.proc_id = p /\ i.time = T + 1
    BY <1>12, <1>13 DEF ReadId, id, Base
  <2>2. T \in Int
    BY FormIdPast DEF now
  <2>3. ~Past(i)
    BY <2>1, <2>2, FormIdPast DEF now
  <2>4. /\ d'[p].Last_time_used = T + 1 /\ clock'[p] = now /\ now \in Int
    BY <1>1, <1>13 DEF Reads, OthersStay, now, Base
  <2> HIDE DEF T
  <2>5. i.time < MembTime(d'[p], clock'[p])
    BY <2>1, <2>2, <2>4 DEF MembTime, Later
  <2>6. Past(i)'
    BY <2>1, <2>2, <2>5 DEF Past
  <2>7. Agreeing(C) /\ \A a \in C : a[1] = i
    BY <1>10, <1>12
  <2>8. \A a \in Claims' : a \in Claims \/ a \in C
    BY <1>9, <1>12
  <2> QED
    BY <1>11, <2>3, <2>6, <2>7, <2>8, SpokenGrows
<1>14. CASE m.n # 0
  <2>1. Said(m) = Say(id, ToSet(m.members), m.memb_id, m.rings)
    BY <1>1, <1>14 DEF Said, ReadId, id
  <2>2. ASSUME NEW a \in S PROVE a \in Said(m)
    <3>1. \/ a = <<id, "members", NoId, ToSet(m.members)>>
          \/ a = <<id, "form", NoId, m.memb_id>>
          \/ \E g \in new : a = <<id, "trans", g.memb_id, g.trans>>
      BY <1>5, <2>2, SayIs
    <3>2. ASSUME NEW g \in new
          PROVE  \E h \in m.rings : h.memb_id = g.memb_id /\ h.trans = g.trans
      BY <1>4, <3>2 DEF RingsRead
    <3>3. \/ a = <<id, "members", NoId, ToSet(m.members)>>
          \/ a = <<id, "form", NoId, m.memb_id>>
          \/ \E g \in m.rings : a = <<id, "trans", g.memb_id, g.trans>>
      BY <3>1, <3>2
    <3> QED
      BY <2>1, <3>3, SayIs
  <2>3. \A a \in C : a \in Claims
    BY <1>12, <2>2, ClaimsFrom DEF Claims
  <2>4. \A a \in Claims' : a \in Claims \/ a \in C
    BY <1>9, <1>12
  <2> QED
    BY <1>11, <2>3, <2>4, SpokenGrows
<1> QED
  BY <1>13, <1>14

LEMMA SpokenStep ==
  ASSUME Base, Base', Spoken, [Next]_vars PROVE Spoken'
<1>1. CASE QuietStep
  BY <1>1, QuietSpoken
<1>2. CASE \E p \in Procs : CreateStep(p)
  BY <1>2, CreateSpoken
<1>3. CASE \E p \in Procs : \E m \in tokens : FillStep(p, m) \/ ReadStep(p, m)
  BY <1>3, FillSpoken, ReadSpoken
<1> QED
  BY <1>1, <1>2, <1>3, BaseStep

\* Nothing is formed in the beginning.
LEMMA NothingFormed ==
  ASSUME Init
  PROVE  /\ tokens = {} /\ views = {}
         /\ \A p \in Procs : d[p].State \in {"OP", "SEG"}
<1>1. /\ tokens = {} /\ views = {}
      /\ \E s : d = [p \in Procs |-> CASE p \in s.ring -> Operating(p, s.ring)
                                   [] p \in s.up \ s.ring -> Memb_init(p)
                                   [] OTHER -> Down(Memb_init(p))]
  BY DEF Init
<1>2. PICK s : d = [p \in Procs |-> CASE p \in s.ring -> Operating(p, s.ring)
                                   [] p \in s.up \ s.ring -> Memb_init(p)
                                   [] OTHER -> Down(Memb_init(p))]
  BY <1>1
<1>3. ASSUME NEW p \in Procs PROVE d[p].State \in {"OP", "SEG"}
  <2>1. \/ d[p] = Operating(p, s.ring)
        \/ d[p] = Memb_init(p)
        \/ d[p] = Down(Memb_init(p))
    BY <1>2
  <2>2. Operating(p, s.ring).State = "OP"
    BY OperatingSound
  <2>3. Memb_init(p).State = "SEG"
    BY MembInitSound
  <2>4. Down(Memb_init(p)).State = "SEG"
    BY DownSound
  <2> QED
    BY <2>1, <2>2, <2>3, <2>4
<1> QED
  BY <1>1, <1>3

LEMMA SpokenInit == ASSUME Init PROVE Spoken
<1>1. ASSUME NEW a \in Claims PROVE FALSE
  <2>1. \A p \in Procs : Heard(d[p]) = {}
    BY NothingFormed DEF Heard
  <2> QED
    BY <2>1, NothingFormed, ClaimsFrom DEF Claims
<1> QED
  BY <1>1 DEF Spoken, Agreeing

\* What two views say of one membership.
LEMMA ViewsAgree ==
  ASSUME Spoken, NEW v \in views, NEW w \in views, v.memb_id = w.memb_id
  PROVE  v.members = w.members /\ (v.prev = w.prev => v.trans = w.trans)
<1>1. /\ <<v.memb_id, "members", NoId, v.members>> \in Claims
      /\ <<w.memb_id, "members", NoId, w.members>> \in Claims
      /\ <<v.memb_id, "trans", v.prev, v.trans>> \in Claims
      /\ <<w.memb_id, "trans", w.prev, w.trans>> \in Claims
  BY ClaimsFrom DEF Claims, Told
<1>2. v.members = w.members
  BY <1>1 DEF Spoken, Agreeing
<1>3. v.prev = w.prev => v.trans = w.trans
  BY <1>1 DEF Spoken, Agreeing
<1> QED
  BY <1>2, <1>3

(***************************************************************************)
(* A membership identifier names one membership (Read_form2): the daemons  *)
(* that install it install the same members, whatever packets are late and *)
(* however often daemons are started again.                                *)
(***************************************************************************)
THEOREM OneMembershipPerIdHolds == Spec => []OneMembershipPerId
<1>1. Init => Base /\ Spoken
  BY BaseInit, SpokenInit
<1>2. (Base /\ Spoken) /\ [Next]_vars => (Base /\ Spoken)'
  BY BaseStep, SpokenStep
<1>3. Base /\ Spoken => OneMembershipPerId
  BY ViewsAgree DEF OneMembershipPerId
<1> QED
  BY <1>1, <1>2, <1>3, PTL DEF Spec

-----------------------------------------------------------------------------
(***************************************************************************)
(* Third part: one form token per attempt.  While no daemon processes a    *)
(* form token twice (LateForms = FALSE), the copies not yet processed are  *)
(* copies of one token, so whoever waits in FORM is counted in its ring    *)
(* when the FORM2 token comes, and the first of a ring to read it dates    *)
(* the transitional membership for the others.                             *)
(***************************************************************************)

Unseen(m) == IsForm(m) /\ m.seen = FALSE

\* No attempt uses the identifier of an earlier one.
FormsPast ==
  /\ \A m \in tokens : IsForm(m) => Past(m.memb_id)
  /\ \A p \in Procs : d[p].State = "FORM" => Past(d[p].Form1_memb_id)

\* Who has processed a form token waits for the next, or installs.
ProcessedStay ==
  \A p \in Procs : \A m \in tokens :
    (IsForm(m) /\ m.seen # FALSE /\ m.to = p) =>
       /\ d[p].State \in {"FORM", "EVS"}
       /\ m.type = "FORM2" => d[p].State = "EVS"

OneToken ==
  \A a, b \in tokens : (Unseen(a) /\ Unseen(b) /\ a.memb_id = b.memb_id) => a = b

\* r, which waits for token a, is counted in it if its ring is.
CountedIn(r, a) ==
  /\ \A g \in Mine(r, a.rings) : r.me \in g.trans
  /\ (a.type = "FORM1" /\ Mine(r, a.rings) = {}) => NoRoom(a.rings)

Counted ==
  \A p \in Procs : \A a \in tokens :
    (d[p].State = "FORM" /\ Unseen(a) /\ a.memb_id = d[p].Form1_memb_id) => CountedIn(d[p], a)

Lineage == FormsPast /\ ProcessedStay /\ OneToken /\ Counted

LEMMA QuietLineage ==
  ASSUME ~LateForms, Base, Base', Lineage, QuietStep PROVE Lineage'
<1>1. \A q \in Procs : MembTime(d[q], clock[q]) <= MembTime(d'[q], clock'[q])
  BY DEF QuietStep
<1>2. \A m \in tokens' : IsForm(m) => m \in tokens
  BY DEF QuietStep
<1>3. \A q \in Procs : Quiet(d[q], d'[q]) /\ Kept(q)
  BY DEF QuietStep
<1>4. FormsPast'
  <2>1. ASSUME NEW m \in tokens', IsForm(m) PROVE Past(m.memb_id)'
    <3>1. PICK i : i = m.memb_id
      OBVIOUS
    <3>2. Past(i)
      BY <1>2, <2>1, <3>1 DEF Lineage, FormsPast
    <3> QED
      BY <1>1, <3>1, <3>2, PastStays
  <2>2. ASSUME NEW p \in Procs, d'[p].State = "FORM" PROVE Past(d[p].Form1_memb_id)'
    <3>1. PICK i : i = d[p].Form1_memb_id
      OBVIOUS
    <3>2. d[p].State = "FORM" /\ d'[p].Form1_memb_id = i
      BY <1>3, <2>2, <3>1 DEF Quiet
    <3>3. Past(i)
      BY <3>1, <3>2 DEF Lineage, FormsPast
    <3>4. Past(i)'
      BY <1>1, <3>3, PastStays
    <3> QED
      BY <3>2, <3>4
  <2> QED
    BY <2>1, <2>2 DEF FormsPast
<1>5. ProcessedStay'
  <2> SUFFICES ASSUME NEW p \in Procs, NEW m \in tokens', IsForm(m), m.seen # FALSE, m.to = p
               PROVE  /\ d'[p].State \in {"FORM", "EVS"}
                      /\ m.type = "FORM2" => d'[p].State = "EVS"
    BY DEF ProcessedStay
  <2>1. m \in tokens
    BY <1>2
  <2>2. Stays(d[p], d'[p])
    BY <1>3 DEF Kept
  <2> QED
    BY <2>1, <2>2 DEF Lineage, ProcessedStay, Stays
<1>6. OneToken'
  BY <1>2 DEF Lineage, OneToken, Unseen
<1>7. Counted'
  <2> SUFFICES ASSUME NEW p \in Procs, NEW a \in tokens', d'[p].State = "FORM", Unseen(a),
                      a.memb_id = d'[p].Form1_memb_id
               PROVE  CountedIn(d'[p], a)
    BY DEF Counted
  <2>1. a \in tokens
    BY <1>2 DEF Unseen
  <2>2. /\ d[p].State = "FORM" /\ d'[p].Membership_id = d[p].Membership_id
        /\ d'[p].Form1_memb_id = d[p].Form1_memb_id /\ d'[p].me = d[p].me
    BY <1>3 DEF Quiet
  <2>3. CountedIn(d[p], a)
    BY <2>1, <2>2 DEF Lineage, Counted
  <2> QED
    BY <2>2, <2>3 DEF CountedIn, Mine
<1> QED
  BY <1>4, <1>5, <1>6, <1>7 DEF Lineage

\* Identifiers stay past when p moves on.
LEMMA FormsPastStays ==
  ASSUME Base, Base', Lineage, NEW p \in Procs, OthersStay(p),
         d[p].Last_time_used <= d'[p].Last_time_used,
         \A m \in tokens' : IsForm(m) => \/ m \in tokens
                                       \/ Past(m.memb_id)
                                       \/ Past(m.memb_id)',
         d'[p].State = "FORM" => Past(d'[p].Form1_memb_id) \/ Past(d[p].Form1_memb_id)'
  PROVE  FormsPast'
<1>1. \A q \in Procs : MembTime(d[q], clock[q]) <= MembTime(d'[q], clock'[q])
  BY TimesMoveOn
<1>2. ASSUME NEW m \in tokens', IsForm(m) PROVE Past(m.memb_id)'
  <2>1. PICK i : i = m.memb_id
    OBVIOUS
  <2>2. Past(i) \/ Past(i)'
    BY <1>2, <2>1 DEF Lineage, FormsPast
  <2> QED
    BY <1>1, <2>1, <2>2, PastStays
<1>3. ASSUME NEW q \in Procs, d'[q].State = "FORM" PROVE Past(d[q].Form1_memb_id)'
  <2>1. PICK i : i = d'[q].Form1_memb_id
    OBVIOUS
  <2>2. Past(i) \/ Past(i)'
    <3>1. CASE q = p
      BY <1>3, <2>1, <3>1
    <3>2. CASE q # p
      BY <1>3, <2>1, <3>2 DEF Lineage, FormsPast, OthersStay
    <3> QED
      BY <3>1, <3>2
  <2>3. Past(i)'
    BY <1>1, <2>2, PastStays
  <2> QED
    BY <2>1, <2>3
<1> QED
  BY <1>2, <1>3 DEF FormsPast

LEMMA CreateLineage ==
  ASSUME ~LateForms, Base, Base', Lineage, NEW p \in Procs, CreateStep(p) PROVE Lineage'
<1> DEFINE now == clock[p]
           T == MembTime(d[p], now)
<1>1. PICK i : i = FormId(d[p], now)
  OBVIOUS
<1>2. /\ OthersStay(p) /\ d[p].State = "GATHER" /\ d'[p].State = "FORM"
      /\ d'[p].Form1_memb_id = i /\ d'[p].Last_time_used = T
      /\ d'[p].Membership_id = d[p].Membership_id
  BY <1>1 DEF CreateStep
<1>3. PICK x : /\ tokens' = tokens \cup {x}
               /\ x.type \in {"FORM1", "FORM2"} /\ x.seen = FALSE
               /\ x.memb_id = i
               /\ \A g \in x.rings : p \in g.trans
               /\ Mine(d[p], x.rings) # {}
  BY <1>1 DEF CreateStep
<1>4. i.proc_id = p /\ i.time = T /\ T \in Int /\ ~Past(i) /\ d[p].Last_time_used < T
  BY <1>1, FormIdPast
<1> HIDE DEF T
<1>5. Past(i)'
  <2>1. clock'[p] = now /\ now \in Int
    BY <1>2 DEF OthersStay, Base
  <2>2. i.time < MembTime(d'[p], clock'[p])
    BY <1>2, <1>4, <2>1 DEF MembTime, Later
  <2> QED
    BY <1>4, <2>2 DEF Past
<1>6. d[p].Last_time_used <= d'[p].Last_time_used
  BY <1>2, <1>4 DEF Base, Sound
<1>7. FormsPast'
  <2>1. \A m \in tokens' : IsForm(m) => m \in tokens \/ Past(m.memb_id)'
    BY <1>3, <1>5
  <2>2. Past(d[p].Form1_memb_id)'
    BY <1>2, <1>5
  <2> QED
    BY <1>2, <1>6, <2>1, <2>2, FormsPastStays
<1>8. ProcessedStay'
  <2> SUFFICES ASSUME NEW q \in Procs, NEW m \in tokens', IsForm(m), m.seen # FALSE, m.to = q
               PROVE  /\ d'[q].State \in {"FORM", "EVS"}
                      /\ m.type = "FORM2" => d'[q].State = "EVS"
    BY DEF ProcessedStay
  <2>1. m \in tokens
    BY <1>3
  <2>2. q # p
    BY <1>2, <2>1 DEF Lineage, ProcessedStay
  <2> QED
    BY <1>2, <2>1, <2>2 DEF Lineage, ProcessedStay, OthersStay
<1>9. \A m \in tokens : IsForm(m) => m.memb_id # i
  BY <1>4 DEF Lineage, FormsPast
<1>10. OneToken'
  BY <1>3, <1>9 DEF Lineage, OneToken, Unseen
<1>11. Counted'
  <2> SUFFICES ASSUME NEW q \in Procs, NEW a \in tokens', d'[q].State = "FORM", Unseen(a),
                      a.memb_id = d'[q].Form1_memb_id
               PROVE  CountedIn(d'[q], a)
    BY DEF Counted
  <2>1. CASE q = p
    <3>1. a = x
      BY <1>2, <1>3, <1>9, <2>1 DEF Unseen
    <3>2. Mine(d'[p], x.rings) = Mine(d[p], x.rings)
      BY <1>2 DEF Mine
    <3>3. d'[p].me = p
      BY DEF Base
    <3> QED
      BY <1>3, <2>1, <3>1, <3>2, <3>3 DEF CountedIn, Mine
  <2>2. CASE q # p
    <3>1. d'[q] = d[q]
      BY <1>2, <2>2 DEF OthersStay
    <3>2. a.memb_id # i
      BY <1>4, <3>1 DEF Lineage, FormsPast
    <3>3. a \in tokens
      BY <1>3, <3>2
    <3> QED
      BY <3>1, <3>3 DEF Lineage, Counted
  <2> QED
    BY <2>1, <2>2
<1> QED
  BY <1>7, <1>8, <1>10, <1>11 DEF Lineage

\* Processing token m and sending x of the same attempt leaves one to process.
PassedOn(m, x) == tokens' = (tokens \ {m}) \cup {Seen(m)} \cup {x}

LEMMA OneTokenPasses ==
  ASSUME OneToken, NEW m \in tokens, TokenOK(m), Unseen(m), NEW x, PassedOn(m, x),
         IsForm(x) => x.memb_id = m.memb_id
  PROVE  OneToken'
<1> SUFFICES ASSUME NEW a \in tokens', NEW b \in tokens', Unseen(a), Unseen(b),
                    a.memb_id = b.memb_id
             PROVE  a = b
  BY DEF OneToken
<1>1. Seen(m).seen = TRUE
  BY SeenIs
<1>2. ASSUME NEW y \in tokens', Unseen(y) PROVE y = x \/ (y \in tokens /\ y # m)
  BY <1>1, <1>2 DEF PassedOn, Unseen
<1>3. ASSUME NEW y \in tokens, Unseen(y), y.memb_id = m.memb_id PROVE y = m
  BY <1>3 DEF OneToken
<1>4. CASE a = x /\ b # x
  <2>1. b \in tokens /\ b # m /\ b.memb_id = m.memb_id
    BY <1>2, <1>4 DEF Unseen
  <2> QED
    BY <1>3, <2>1
<1>5. CASE a # x /\ b = x
  <2>1. a \in tokens /\ a # m /\ a.memb_id = m.memb_id
    BY <1>2, <1>5 DEF Unseen
  <2> QED
    BY <1>3, <2>1
<1>6. CASE a # x /\ b # x
  BY <1>2, <1>6 DEF OneToken
<1> QED
  BY <1>4, <1>5, <1>6

\* Who waits for the token is still counted when r has filled or read it.
LEMMA FilledCounted ==
  ASSUME NEW r, NEW s, NEW m, m.type = "FORM1", NEW x, RingsFilled(r, m.rings, x.rings),
         CountedIn(s, m)
  PROVE  CountedIn(s, x)
<1>1. CASE s.Membership_id = r.Membership_id
  <2>1. Mine(s, m.rings) = Mine(r, m.rings) /\ Mine(s, x.rings) = Mine(r, x.rings)
    BY <1>1 DEF Mine
  <2>2. ASSUME NEW g \in Mine(r, x.rings) PROVE s.me \in g.trans
    <3>1. Mine(r, m.rings) # {}
      BY <2>1, <2>2 DEF CountedIn, RingsFilled
    <3>2. PICK h \in Mine(r, m.rings) : TRUE
      BY <3>1
    <3>3. s.me \in h.trans
      BY <2>1, <3>2 DEF CountedIn
    <3>4. h.trans \subseteq g.trans
      BY <2>2, <3>2 DEF RingsFilled, Mine
    <3> QED
      BY <3>3, <3>4
  <2>3. Mine(r, x.rings) = {} => NoRoom(x.rings)
    BY DEF RingsFilled
  <2> QED
    BY <2>1, <2>2, <2>3 DEF CountedIn
<1>2. CASE s.Membership_id # r.Membership_id
  <2>1. Mine(s, x.rings) = Mine(s, m.rings)
    BY <1>2 DEF Mine, RingsFilled
  <2>2. NoRoom(m.rings) => NoRoom(x.rings)
    BY DEF RingsFilled
  <2> QED
    BY <2>1, <2>2 DEF CountedIn
<1> QED
  BY <1>1, <1>2

LEMMA ReadCounted ==
  ASSUME NEW r, NEW s, NEW m, NEW x, x.type = "FORM2", NEW ring, NEW ring2,
         RingsRead(r, m.rings, x.rings, ring, ring2), CountedIn(s, m)
  PROVE  CountedIn(s, x)
<1>1. ASSUME NEW g \in Mine(s, x.rings) PROVE s.me \in g.trans
  BY <1>1 DEF CountedIn, RingsRead, Mine
<1> QED
  BY <1>1 DEF CountedIn

LEMMA FillLineage ==
  ASSUME Base, Base', Lineage, NEW p \in Procs, NEW m \in tokens, FillStep(p, m)
  PROVE  Lineage'
<1>1. /\ OthersStay(p) /\ d[p].State \in {"OP", "REPRESENTED", "GATHER"}
      /\ m.type = "FORM1" /\ m.to = p
      /\ d'[p].State = "FORM" /\ d'[p].Form1_memb_id = m.memb_id
      /\ d'[p].Last_time_used = d[p].Last_time_used
      /\ d'[p].Membership_id = d[p].Membership_id
  BY DEF FillStep
<1>2. PICK x : /\ PassedOn(m, x)
               /\ x.type \in {"FORM1", "FORM2"} /\ x.seen = FALSE
               /\ x.memb_id = m.memb_id
               /\ RingsFilled(d[p], m.rings, x.rings)
  BY DEF FillStep, PassedOn, Seen
<1>3. TokenOK(m) /\ IsForm(m)
  BY <1>1 DEF Base, IsForm
<1>4. \A y \in tokens : (IsForm(y) /\ y.to = p) => y.seen = FALSE
  BY <1>1 DEF Lineage, ProcessedStay
<1>5. Unseen(m)
  BY <1>1, <1>3, <1>4 DEF Unseen
<1>6. /\ Seen(m).type = "FORM1" /\ Seen(m).to = p /\ Seen(m).memb_id = m.memb_id
      /\ Seen(m).seen = TRUE
  BY <1>1, <1>3, SeenIs
<1>7. FormsPast'
  <2>1. d[p].Last_time_used <= d'[p].Last_time_used
    BY <1>1 DEF Base, Sound
  <2>2. Past(m.memb_id)
    BY <1>3 DEF Lineage, FormsPast
  <2>3. \A y \in tokens' : IsForm(y) => y \in tokens \/ Past(y.memb_id)
    BY <1>2, <1>6, <2>2 DEF PassedOn
  <2>4. Past(d'[p].Form1_memb_id)
    BY <1>1, <2>2
  <2> QED
    BY <1>1, <2>1, <2>3, <2>4, FormsPastStays
<1>8. ProcessedStay'
  <2> SUFFICES ASSUME NEW q \in Procs, NEW y \in tokens', IsForm(y), y.seen # FALSE, y.to = q
               PROVE  /\ d'[q].State \in {"FORM", "EVS"}
                      /\ y.type = "FORM2" => d'[q].State = "EVS"
    BY DEF ProcessedStay
  <2>1. y \in tokens \/ y = Seen(m)
    BY <1>2 DEF PassedOn
  <2>2. CASE q = p
    <3>1. y = Seen(m)
      BY <1>4, <2>1, <2>2
    <3> QED
      BY <1>1, <1>6, <2>2, <3>1
  <2>3. CASE q # p
    <3>1. y \in tokens /\ d'[q] = d[q]
      BY <1>1, <1>6, <2>1, <2>3 DEF OthersStay
    <3> QED
      BY <3>1 DEF Lineage, ProcessedStay
  <2> QED
    BY <2>2, <2>3
<1>9. OneToken'
  BY <1>2, <1>3, <1>5, OneTokenPasses DEF Lineage
<1>10. \A y \in tokens' : (Unseen(y) /\ y # x) => (y \in tokens /\ y.memb_id # m.memb_id)
  BY <1>2, <1>5, <1>6 DEF PassedOn, Unseen, Lineage, OneToken
<1>11. Counted'
  <2> SUFFICES ASSUME NEW q \in Procs, NEW a \in tokens', d'[q].State = "FORM", Unseen(a),
                      a.memb_id = d'[q].Form1_memb_id
               PROVE  CountedIn(d'[q], a)
    BY DEF Counted
  <2>1. CASE q = p
    <3>1. a = x
      BY <1>1, <1>10, <2>1
    <3>2. Mine(d'[p], x.rings) = Mine(d[p], x.rings) /\ d'[p].me = p /\ d[p].me = p
      BY <1>1 DEF Mine, Base
    <3>3. CountedIn(d'[p], x)
      BY <1>2, <3>2 DEF CountedIn, RingsFilled, Mine
    <3> QED
      BY <2>1, <3>1, <3>3
  <2>2. CASE q # p
    <3>1. d'[q] = d[q]
      BY <1>1, <2>2 DEF OthersStay
    <3>2. CASE a = x
      <4>1. CountedIn(d[q], m)
        BY <1>2, <1>5, <3>1, <3>2 DEF Lineage, Counted
      <4> QED
        BY <1>1, <1>2, <3>1, <3>2, <4>1, FilledCounted
    <3>3. CASE a # x
      BY <1>10, <3>1, <3>3 DEF Lineage, Counted
    <3> QED
      BY <3>2, <3>3
  <2> QED
    BY <2>1, <2>2
<1> QED
  BY <1>7, <1>8, <1>9, <1>11 DEF Lineage

LEMMA ReadLineage ==
  ASSUME Base, Base', Lineage, NEW p \in Procs, NEW m \in tokens, ReadStep(p, m)
  PROVE  Lineage'
<1> DEFINE ring == RingOf(d[p], m.rings)
           ring2 == Stamp(ring, MembTime(d[p], clock[p]))
<1>1. /\ OthersStay(p) /\ d[p].State = "FORM"
      /\ m.type = "FORM2" /\ m.to = p /\ m.memb_id = d[p].Form1_memb_id
      /\ Mine(d[p], m.rings) # {}
      /\ d'[p].State = "EVS" /\ d[p].Last_time_used <= d'[p].Last_time_used
  BY DEF ReadStep, Reads
<1>2. PICK x : PassedOn(m, x) /\ PassesOn(d[p], m, clock[p], x)
  BY DEF ReadStep, PassedOn, Seen
<1>3. TokenOK(m) /\ IsForm(m) /\ RingsOK(m.rings)
  BY <1>1 DEF Base, IsForm, TokenOK
<1>4. Unseen(m)
  BY <1>1, <1>3 DEF Lineage, ProcessedStay, Unseen
<1>5. /\ x.seen = FALSE
      /\ IsForm(x) => x.type = "FORM2" /\ x.memb_id = m.memb_id
      /\ x.type = "FORM2" => RingsRead(d[p], m.rings, x.rings, ring, ring2)
  <2>1. RingsRead(d[p], m.rings, ReadRings(d[p], m, clock[p]), ring, ring2)
    BY <1>1, <1>3, ReadRingsIs
  <2> HIDE DEF ring, ring2
  <2> QED
    BY <1>2, <2>1 DEF PassesOn, IsForm
<1> HIDE DEF ring, ring2
<1>6. /\ Seen(m).type = "FORM2" /\ Seen(m).to = p /\ Seen(m).memb_id = m.memb_id
      /\ Seen(m).seen = TRUE
  BY <1>1, <1>3, SeenIs
<1>7. FormsPast'
  <2>1. Past(m.memb_id)
    BY <1>3 DEF Lineage, FormsPast
  <2>2. \A y \in tokens' : IsForm(y) => y \in tokens \/ Past(y.memb_id)
    BY <1>2, <1>5, <1>6, <2>1 DEF PassedOn
  <2> QED
    BY <1>1, <2>2, FormsPastStays
<1>8. ProcessedStay'
  <2> SUFFICES ASSUME NEW q \in Procs, NEW y \in tokens', IsForm(y), y.seen # FALSE, y.to = q
               PROVE  /\ d'[q].State \in {"FORM", "EVS"}
                      /\ y.type = "FORM2" => d'[q].State = "EVS"
    BY DEF ProcessedStay
  <2>1. CASE q = p
    BY <1>1, <2>1
  <2>2. CASE q # p
    <3>1. y \in tokens /\ d'[q] = d[q]
      BY <1>1, <1>2, <1>5, <1>6, <2>2 DEF OthersStay, PassedOn
    <3> QED
      BY <3>1 DEF Lineage, ProcessedStay
  <2> QED
    BY <2>1, <2>2
<1>9. OneToken'
  BY <1>2, <1>3, <1>4, <1>5, OneTokenPasses DEF Lineage
<1>10. Counted'
  <2> SUFFICES ASSUME NEW q \in Procs, NEW a \in tokens', d'[q].State = "FORM", Unseen(a),
                      a.memb_id = d'[q].Form1_memb_id
               PROVE  CountedIn(d'[q], a)
    BY DEF Counted
  <2>1. q # p /\ d'[q] = d[q]
    BY <1>1 DEF OthersStay
  <2>2. CASE a = x
    <3>1. x.type = "FORM2" /\ x.memb_id = m.memb_id
      BY <1>5, <2>2 DEF Unseen
    <3>2. CountedIn(d[q], m)
      BY <1>4, <2>1, <2>2, <3>1 DEF Lineage, Counted
    <3> QED
      BY <1>5, <2>1, <2>2, <3>1, <3>2, ReadCounted
  <2>3. CASE a # x
    <3>1. a \in tokens
      BY <1>2, <1>6, <2>3 DEF PassedOn, Unseen
    <3> QED
      BY <2>1, <3>1 DEF Lineage, Counted
  <2> QED
    BY <2>2, <2>3
<1> QED
  BY <1>7, <1>8, <1>9, <1>10 DEF Lineage

LEMMA LineageStep ==
  ASSUME ~LateForms, Base, Base', Lineage, [Next]_vars PROVE Lineage'
<1>1. CASE QuietStep
  BY <1>1, QuietLineage
<1>2. CASE \E p \in Procs : CreateStep(p)
  BY <1>2, CreateLineage
<1>3. CASE \E p \in Procs : \E m \in tokens : FillStep(p, m) \/ ReadStep(p, m)
  BY <1>3, FillLineage, ReadLineage
<1> QED
  BY <1>1, <1>2, <1>3, BaseStep

LEMMA LineageInit == ASSUME Init PROVE Lineage
<1>1. tokens = {} /\ \A p \in Procs : d[p].State # "FORM"
  BY NothingFormed
<1> QED
  BY <1>1 DEF Lineage, FormsPast, ProcessedStay, OneToken, Counted

-----------------------------------------------------------------------------
(* What the daemons that install carry with them *)

\* Everybody is in the transitional set it takes from the token.
Carried ==
  /\ \A p \in Procs : d[p].State = "EVS" => p \in d[p].Future_commit_set.trans
  /\ \A v \in views : v.proc \in v.trans /\ v.trans_id.proc_id = Conf_leader(v.trans)
                      /\ v.trans_id = [proc_id |-> v.trans_id.proc_id, time |-> v.trans_id.time]

\* <<new membership, old membership, time of the transitional one>>
Dates ==
  {<<d[p].Future_membership_id, d[p].Membership_id, d[p].F_trans_memb_time>> :
      p \in {q \in Procs : d[q].State = "EVS"}}
  \cup {<<v.memb_id, v.prev, v.trans_id.time>> : v \in views}

SameRing(a, id, prev) == a[1] = id /\ a[2] = prev

\* One date for the daemons of an old ring, which the token brings to the next.
Dated ==
  /\ \A a \in Dates : a[3] # 0
  /\ \A a, b \in Dates : SameRing(a, b[1], b[2]) => a[3] = b[3]
  /\ \A m \in tokens : (Unseen(m) /\ m.type = "FORM2" /\ m.n # 0) =>
        \A g \in m.rings : \A a \in Dates : SameRing(a, m.m_id, g.memb_id) => a[3] = g.trans_time

LEMMA DatesPast == ASSUME Spoken, NEW a \in Dates PROVE Past(a[1])
<1>1. CASE \E p \in Procs : d[p].State = "EVS" /\ a[1] = d[p].Future_membership_id
  <2>1. PICK p \in Procs : d[p].State = "EVS" /\ a[1] = d[p].Future_membership_id
    BY <1>1
  <2>2. <<a[1], "members", NoId, d[p].Future_membership>> \in Heard(d[p])
    BY <2>1 DEF Heard
  <2>3. <<a[1], "members", NoId, d[p].Future_membership>> \in Claims
    BY <2>2, ClaimsFrom DEF Claims
  <2> QED
    BY <2>3 DEF Spoken
<1>2. CASE \E v \in views : a[1] = v.memb_id
  <2>1. PICK v \in views : a[1] = v.memb_id
    BY <1>2
  <2>2. <<a[1], "members", NoId, v.members>> \in Told(v)
    BY <2>1 DEF Told
  <2>3. <<a[1], "members", NoId, v.members>> \in Claims
    BY <2>2, ClaimsFrom DEF Claims
  <2> QED
    BY <2>3 DEF Spoken
<1> QED
  BY <1>1, <1>2 DEF Dates

\* The FORM2 token of an attempt that has got an identifier speaks of it.
LEMMA FormClaim ==
  ASSUME NEW m \in tokens, m.type = "FORM2", m.n # 0
  PROVE  <<m.m_id, "form", NoId, m.memb_id>> \in Claims
<1>1. <<m.m_id, "form", NoId, m.memb_id>> \in Said(m)
  BY DEF Said, Say
<1> QED
  BY <1>1, ClaimsFrom DEF Claims

LEMMA QuietCarried == ASSUME Base, Carried, QuietStep PROVE Carried'
<1>1. ASSUME NEW p \in Procs, d'[p].State = "EVS" PROVE p \in d'[p].Future_commit_set.trans
  BY <1>1 DEF QuietStep, Quiet, Carried
<1>2. ASSUME NEW v \in views'
      PROVE  /\ v.proc \in v.trans /\ v.trans_id.proc_id = Conf_leader(v.trans)
             /\ v.trans_id = [proc_id |-> v.trans_id.proc_id, time |-> v.trans_id.time]
  <2>1. CASE v \in views
    BY <2>1 DEF Carried
  <2>2. CASE \E q \in Procs : Installs(d[q], v)
    <3>1. PICK q \in Procs : Installs(d[q], v)
      BY <2>2
    <3>2. v.proc = q /\ v.trans = d[q].Future_commit_set.trans /\ d[q].State = "EVS"
      BY <3>1 DEF Installs, Base
    <3>3. v.proc \in v.trans
      BY <3>2 DEF Carried
    <3> QED
      BY <3>1, <3>3 DEF Installs
  <2> QED
    BY <1>2, <2>1, <2>2 DEF QuietStep
<1> QED
  BY <1>1, <1>2 DEF Carried

\* p, waiting for the token, is counted in it.
LEMMA ReadCarried ==
  ASSUME Base, Lineage, Carried, NEW p \in Procs, NEW m \in tokens, ReadStep(p, m)
  PROVE  Carried'
<1> DEFINE ring == RingOf(d[p], m.rings)
<1>1. /\ OthersStay(p) /\ d[p].State = "FORM"
      /\ m.type = "FORM2" /\ m.to = p /\ m.memb_id = d[p].Form1_memb_id
      /\ Mine(d[p], m.rings) # {}
      /\ d'[p].Future_commit_set.trans = ring.trans
  BY DEF ReadStep, Reads
<1>2. Unseen(m)
  BY <1>1 DEF Lineage, ProcessedStay, Unseen, IsForm
<1>3. ring \in Mine(d[p], m.rings)
  BY <1>1 DEF RingOf, Mine
<1>4. CountedIn(d[p], m) /\ d[p].me = p
  BY <1>1, <1>2 DEF Lineage, Counted, Base
<1>5. p \in ring.trans
  BY <1>3, <1>4 DEF CountedIn
<1> HIDE DEF ring
<1> QED
  BY <1>1, <1>5 DEF Carried, OthersStay

LEMMA CarriedStep ==
  ASSUME ~LateForms, Base, Lineage, Carried, [Next]_vars PROVE Carried'
<1>1. CASE QuietStep
  BY <1>1, QuietCarried
<1>2. CASE \E p \in Procs : CreateStep(p)
  BY <1>2 DEF CreateStep, Carried, OthersStay
<1>3. CASE \E p \in Procs : \E m \in tokens : FillStep(p, m)
  BY <1>3 DEF FillStep, Carried, OthersStay
<1>4. CASE \E p \in Procs : \E m \in tokens : ReadStep(p, m)
  BY <1>4, ReadCarried
<1> QED
  BY <1>1, <1>2, <1>3, <1>4, BaseStep

\* A step that dates nothing and sends no dated token on.
LEMMA DatedStays ==
  ASSUME Dated, Dates' \subseteq Dates,
         \A m \in tokens' : (Unseen(m) /\ m.type = "FORM2" /\ m.n # 0) => m \in tokens
  PROVE  Dated'
<1>1. \A a \in Dates' : a \in Dates
  OBVIOUS
<1> QED
  BY <1>1 DEF Dated

LEMMA QuietDated == ASSUME Base, Dated, QuietStep PROVE Dated'
<1>1. ASSUME NEW a \in Dates' PROVE a \in Dates
  <2>1. CASE \E p \in Procs :
               /\ d'[p].State = "EVS"
               /\ a = <<d'[p].Future_membership_id, d'[p].Membership_id, d'[p].F_trans_memb_time>>
    BY <2>1 DEF QuietStep, Quiet, Dates
  <2>2. CASE \E v \in views' : a = <<v.memb_id, v.prev, v.trans_id.time>>
    <3>1. PICK v \in views' : a = <<v.memb_id, v.prev, v.trans_id.time>>
      BY <2>2
    <3>2. CASE v \in views
      BY <3>1, <3>2 DEF Dates
    <3>3. CASE \E q \in Procs : Installs(d[q], v)
      <4>1. PICK q \in Procs : Installs(d[q], v)
        BY <3>3
      <4>2. /\ v.memb_id = d[q].Future_membership_id /\ v.prev = d[q].Membership_id
            /\ v.trans_id.time = d[q].F_trans_memb_time /\ d[q].State = "EVS"
        BY <4>1 DEF Installs
      <4> QED
        BY <3>1, <4>2 DEF Dates
    <3> QED
      BY <3>2, <3>3 DEF QuietStep
  <2> QED
    BY <1>1, <2>1, <2>2 DEF Dates
<1>2. \A m \in tokens' : m.type = "FORM2" => m \in tokens
  BY DEF QuietStep, IsForm
<1> QED
  BY <1>1, <1>2, DatedStays

LEMMA FormDated ==
  ASSUME Dated, NEW p \in Procs, OthersStay(p), d'[p].State = "FORM",
         \A m \in tokens' : (Unseen(m) /\ m.type = "FORM2" /\ m.n # 0) => m \in tokens
  PROVE  Dated'
<1>1. Dates' \subseteq Dates
  BY DEF Dates, OthersStay
<1> QED
  BY <1>1, DatedStays

\* Reading dates the ring of p, unless somebody has, and nothing else.
LEMMA ReadDated ==
  ASSUME Base, Spoken, Lineage, Dated, NEW p \in Procs, NEW m \in tokens, ReadStep(p, m)
  PROVE  Dated'
<1> DEFINE now == clock[p]
           ring == RingOf(d[p], m.rings)
           ring2 == Stamp(ring, MembTime(d[p], now))
           date == <<ReadId(d[p], m, now), d[p].Membership_id, ring2.trans_time>>
<1>1. /\ OthersStay(p) /\ d[p].State = "FORM"
      /\ m.type = "FORM2" /\ m.to = p /\ m.memb_id = d[p].Form1_memb_id
      /\ Mine(d[p], m.rings) # {}
      /\ Reads(d[p], m, now, d'[p])
  BY DEF ReadStep
<1>2. PICK x : PassedOn(m, x) /\ PassesOn(d[p], m, now, x)
  BY DEF ReadStep, PassedOn, Seen
<1>3. TokenOK(m) /\ RingsOK(m.rings)
  BY <1>1 DEF Base, TokenOK
<1>4. Unseen(m)
  BY <1>1 DEF Lineage, ProcessedStay, Unseen, IsForm
<1>5. PICK id : id = ReadId(d[p], m, now)
  OBVIOUS
<1>6. PICK prev : prev = d[p].Membership_id
  OBVIOUS
<1>7. PICK time : time = ring2.trans_time
  OBVIOUS
<1>8. /\ RingsRead(d[p], m.rings, ReadRings(d[p], m, now), ring, ring2)
      /\ ring2.trans_time = IF ring.trans_time = 0 THEN MembTime(d[p], now) ELSE ring.trans_time
  BY <1>1, <1>3, ReadRingsIs
<1> HIDE DEF ring2, ring
<1>9. time # 0
  <2>1. now \in Int /\ now >= 1 /\ d[p].Last_time_used \in Int
    BY DEF Base, Sound
  <2>2. MembTime(d[p], now) # 0
    BY <2>1 DEF MembTime, Later
  <2> QED
    BY <1>7, <1>8, <2>2
<1>10. ASSUME NEW a \in Dates' PROVE a \in Dates \/ a = <<id, prev, time>>
  <2>1. d'[p].F_trans_memb_time = ring2.trans_time
    BY <1>1 DEF Reads, ring, ring2
  <2>2. /\ d'[p].Future_membership_id = id /\ d'[p].Membership_id = prev
        /\ d'[p].F_trans_memb_time = time
    BY <1>1, <1>5, <1>6, <1>7, <2>1 DEF Reads
  <2> QED
    BY <1>1, <1>10, <2>2 DEF Dates, OthersStay
\* What is dated already agrees with what p reads.
<1>11. ASSUME NEW a \in Dates, SameRing(a, id, prev) PROVE a[3] = time
  <2>1. CASE m.n = 0
    <3>1. id.proc_id = p /\ id.time = MembTime(d[p], now) + 1
      BY <1>5, <2>1 DEF ReadId, Base
    <3>2. MembTime(d[p], now) \in Int
      BY FormIdPast
    <3>3. id.time >= MembTime(d[p], now)
      BY <3>1, <3>2
    <3>4. ~Past(id)
      BY <3>1, <3>3, FormIdPast
    <3> QED
      BY <1>11, <3>4, DatesPast DEF SameRing
  <2>2. CASE m.n # 0
    <3>1. id = m.m_id /\ ring \in m.rings /\ ring.memb_id = prev
      BY <1>5, <1>6, <1>8, <2>2 DEF ReadId, RingsRead
    <3>2. a[3] = ring.trans_time
      BY <1>1, <1>4, <1>11, <2>2, <3>1 DEF Dated
    <3>3. a[3] # 0
      BY DEF Dated
    <3> QED
      BY <1>7, <1>8, <3>2, <3>3
  <2> QED
    BY <2>1, <2>2
\* No other unseen token speaks of the new membership.
<1>12. ASSUME NEW y \in tokens, Unseen(y), y.type = "FORM2", y.n # 0, y # m
       PROVE  y.m_id # id
  <2>1. <<y.m_id, "form", NoId, y.memb_id>> \in Claims
    BY <1>12, FormClaim
  <2>2. CASE m.n = 0
    <3>1. id.proc_id = p /\ id.time = MembTime(d[p], now) + 1
      BY <1>5, <2>2 DEF ReadId, Base
    <3>2. MembTime(d[p], now) \in Int
      BY FormIdPast
    <3>3. id.time >= MembTime(d[p], now)
      BY <3>1, <3>2
    <3>4. ~Past(id)
      BY <3>1, <3>3, FormIdPast
    <3>5. Past(y.m_id)
      BY <2>1 DEF Spoken
    <3> QED
      BY <3>4, <3>5
  <2>3. CASE m.n # 0
    <3>1. <<m.m_id, "form", NoId, m.memb_id>> \in Claims /\ id = m.m_id
      BY <1>1, <1>5, <2>3, FormClaim DEF ReadId
    <3>2. y.m_id = m.m_id => y.memb_id = m.memb_id
      BY <2>1, <3>1 DEF Spoken, Agreeing
    <3>3. y.memb_id # m.memb_id
      BY <1>4, <1>12 DEF Lineage, OneToken
    <3> QED
      BY <3>1, <3>2, <3>3
  <2> QED
    BY <2>2, <2>3
<1>13. \A a \in Dates' : a[3] # 0
  BY <1>9, <1>10 DEF Dated
<1>14. ASSUME NEW a \in Dates', NEW b \in Dates', SameRing(a, b[1], b[2]) PROVE a[3] = b[3]
  <2>1. CASE a \in Dates /\ b \in Dates
    BY <1>14, <2>1 DEF Dated
  <2>2. CASE a \in Dates /\ b = <<id, prev, time>>
    BY <1>11, <1>14, <2>2
  <2>3. CASE a = <<id, prev, time>> /\ b \in Dates
    <3>1. SameRing(b, id, prev)
      BY <1>14, <2>3 DEF SameRing
    <3> QED
      BY <1>11, <2>3, <3>1
  <2>4. CASE a = <<id, prev, time>> /\ b = <<id, prev, time>>
    BY <2>4
  <2> QED
    BY <1>10, <2>1, <2>2, <2>3, <2>4
<1>15. ASSUME NEW y \in tokens', Unseen(y), y.type = "FORM2", y.n # 0,
              NEW g \in y.rings, NEW a \in Dates', SameRing(a, y.m_id, g.memb_id)
       PROVE  a[3] = g.trans_time
  <2>1. y = x \/ (y \in tokens /\ y # m)
    <3>1. Seen(m).seen = TRUE
      BY <1>3, SeenIs
    <3> QED
      BY <1>2, <1>15, <3>1 DEF PassedOn, Unseen
  <2>2. CASE y # x
    <3>1. y \in tokens /\ y.m_id # id
      BY <1>12, <1>15, <2>1, <2>2
    <3>2. a \in Dates
      BY <1>10, <1>15, <3>1 DEF SameRing
    <3> QED
      BY <1>15, <3>1, <3>2 DEF Dated
  <2>3. CASE y = x
    <3>1. x.m_id = id /\ x.rings = ReadRings(d[p], m, now)
      BY <1>2, <1>5, <1>15, <2>3 DEF PassesOn
    <3>2. \/ g \in m.rings /\ g.memb_id # prev
          \/ g = ring2 /\ g.memb_id = prev
      BY <1>6, <1>8, <1>15, <2>3, <3>1 DEF RingsRead
    <3>3. CASE g = ring2 /\ g.memb_id = prev
      <4>1. SameRing(a, id, prev) /\ g.trans_time = time
        BY <1>7, <1>15, <2>3, <3>1, <3>3
      <4> QED
        BY <1>10, <1>11, <4>1
    <3>4. CASE g \in m.rings /\ g.memb_id # prev
      <4>1. a \in Dates /\ SameRing(a, id, g.memb_id)
        BY <1>10, <1>15, <2>3, <3>1, <3>4 DEF SameRing
      <4>2. m.n # 0
        <5>1. SUFFICES ASSUME m.n = 0 PROVE FALSE
          OBVIOUS
        <5>2. id.proc_id = p /\ id.time = MembTime(d[p], now) + 1
          BY <1>5, <5>1 DEF ReadId, Base
        <5>3. MembTime(d[p], now) \in Int
          BY FormIdPast
        <5>4. id.time >= MembTime(d[p], now)
          BY <5>2, <5>3
        <5>5. ~Past(id)
          BY <5>2, <5>4, FormIdPast
        <5> QED
          BY <4>1, <5>5, DatesPast DEF SameRing
      <4>3. id = m.m_id
        BY <1>5, <4>2 DEF ReadId
      <4> QED
        BY <1>1, <1>4, <3>4, <4>1, <4>2, <4>3 DEF Dated
    <3> QED
      BY <3>2, <3>3, <3>4
  <2> QED
    BY <2>2, <2>3
<1> QED
  BY <1>13, <1>14, <1>15 DEF Dated

LEMMA DatedStep ==
  ASSUME Base, Spoken, Lineage, Dated, [Next]_vars PROVE Dated'
<1>1. CASE QuietStep
  BY <1>1, QuietDated
<1>2. CASE \E p \in Procs : CreateStep(p)
  <2>1. PICK p \in Procs : CreateStep(p)
    BY <1>2
  <2>2. /\ OthersStay(p) /\ d'[p].State = "FORM"
        /\ \E x : tokens' = tokens \cup {x} /\ (x.type = "FORM2" => x.n = 0)
    BY <2>1 DEF CreateStep
  <2> QED
    BY <2>2, FormDated
<1>3. CASE \E p \in Procs : \E m \in tokens : FillStep(p, m)
  <2>1. PICK p \in Procs, m \in tokens : FillStep(p, m)
    BY <1>3
  <2>2. /\ OthersStay(p) /\ d'[p].State = "FORM" /\ m.type = "FORM1"
        /\ \E x : PassedOn(m, x) /\ (x.type = "FORM2" => x.n = 0)
    BY <2>1 DEF FillStep, PassedOn, Seen
  <2>3. Seen(m).seen = TRUE
    BY SeenIs DEF Base
  <2>4. \A y \in tokens' : (Unseen(y) /\ y.type = "FORM2" /\ y.n # 0) => y \in tokens
    BY <2>2, <2>3 DEF PassedOn, Unseen
  <2> QED
    BY <2>2, <2>4, FormDated
<1>4. CASE \E p \in Procs : \E m \in tokens : ReadStep(p, m)
  BY <1>4, ReadDated
<1> QED
  BY <1>1, <1>2, <1>3, <1>4, BaseStep

LEMMA CarriedInit == ASSUME Init PROVE Carried /\ Dated
<1>1. tokens = {} /\ views = {} /\ \A p \in Procs : d[p].State # "EVS"
  BY NothingFormed
<1>2. Dates = {}
  BY <1>1 DEF Dates
<1> QED
  BY <1>1, <1>2 DEF Carried, Dated

\* All that is known while no form token is processed twice.
MembershipInv == Base /\ Spoken /\ Lineage /\ Carried /\ Dated

LEMMA MembershipInvHolds == ASSUME ~LateForms PROVE Spec => []MembershipInv
<1>1. Init => MembershipInv
  BY BaseInit, SpokenInit, LineageInit, CarriedInit DEF MembershipInv
<1>2. MembershipInv /\ [Next]_vars => MembershipInv'
  BY BaseStep, SpokenStep, LineageStep, CarriedStep, DatedStep DEF MembershipInv
<1> QED
  BY <1>1, <1>2, PTL DEF Spec

(***************************************************************************)
(* Transitional sets agree (Fill_form1, Read_form2, Memb_commit): the      *)
(* daemons that go from one membership to the same next one have the same  *)
(* set, and each of them is in it, as long as no form token is processed   *)
(* twice.                                                                  *)
(***************************************************************************)
THEOREM TransitionalAgreementHolds ==
  ASSUME ~LateForms PROVE Spec => []TransitionalAgreement
<1>1. MembershipInv => TransitionalAgreement
  BY ViewsAgree DEF MembershipInv, Carried, TransitionalAgreement
<1> QED
  BY <1>1, MembershipInvHolds, PTL

(***************************************************************************)
(* They carry one identifier of their transitional membership (Read_form2, *)
(* Memb_transitional), under the same condition.                           *)
(***************************************************************************)
THEOREM OneTransIdPerViewHolds ==
  ASSUME ~LateForms PROVE Spec => []OneTransIdPerView
<1>1. ASSUME MembershipInv, NEW v \in views, NEW w \in views,
             v.memb_id = w.memb_id, v.prev = w.prev
      PROVE  v.trans_id = w.trans_id
  <2>1. v.trans = w.trans
    BY <1>1, ViewsAgree DEF MembershipInv
  <2>2. /\ <<v.memb_id, v.prev, v.trans_id.time>> \in Dates
        /\ <<w.memb_id, w.prev, w.trans_id.time>> \in Dates
    BY DEF Dates
  <2>3. v.trans_id.time = w.trans_id.time
    BY <1>1, <2>2 DEF MembershipInv, Dated, SameRing
  <2>4. v.trans_id.proc_id = w.trans_id.proc_id
    BY <1>1, <2>1 DEF MembershipInv, Carried
  <2>5. /\ v.trans_id = [proc_id |-> v.trans_id.proc_id, time |-> v.trans_id.time]
        /\ w.trans_id = [proc_id |-> w.trans_id.proc_id, time |-> w.trans_id.time]
    BY <1>1 DEF MembershipInv, Carried
  <2> QED
    BY <2>3, <2>4, <2>5
<1>2. MembershipInv => OneTransIdPerView
  BY <1>1 DEF OneTransIdPerView
<1> QED
  BY <1>2, MembershipInvHolds, PTL
=============================================================================
