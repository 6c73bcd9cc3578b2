----------------------- MODULE ReplicaAgreementProofs -----------------------
(***************************************************************************)
(* Why all replicas answer alike, for any number of servers, clients,      *)
(* tasks, requests, starts and crashes, when nothing goes wrong while a    *)
(* server joins but that a StateRep may overtake other messages.           *)
(*                                                                         *)
(* The argument: the log determines a history h of states, h[n] after its  *)
(* first n messages.  A server that serves holds h[cursor]; one that joins *)
(* gets h[joinedAt], and its buffer leads from there to h[cursor].         *)
(***************************************************************************)
EXTENDS ServerHandlersProofs, FiniteSetTheorems

\* The joins that the report describes: of the hazards, only the overtaking.
Orderly == Hazards \subseteq {"overtake"}

\* What a message does to the state of a server that runs the main handlers.
effect(st, m) ==
  IF m.type \in Requests THEN execute(st, m)
  ELSE IF m.type = "ClientFailure" THEN shiftTasksFromClient(st, m.who)
  ELSE st

History(h) ==
  /\ h \in [0..Len(log) -> State]
  /\ h[0] = EmptyState
  /\ \A i \in 1..Len(log) : h[i] = effect(h[i - 1], log[i])

Known(st, t) == waitingTasksContains(st, t) \/ processingTasksContains(st, t)

\* A task that was accepted is known until it is ended.
Survives(h) ==
  \A i \in 1..Len(log) : \A j \in i..Len(log) :
    /\ log[i].type = "NewTaskReq" /\ newTaskOk(h[i - 1], log[i].task)
    /\ \A k \in i..j : ~(log[k].type = "EndTaskReq" /\ log[k].task = log[i].task)
    => Known(h[j], log[i].task)

\* The requests at the positions p lead from state a to state b.
Leads(h, a, p, b) ==
  IF p = <<>> THEN a = b
  ELSE /\ a = h[p[1] - 1]
       /\ \A k \in 1..(Len(p) - 1) : h[p[k]] = h[p[k + 1] - 1]
       /\ h[p[Len(p)]] = b

-----------------------------------------------------------------------------
(* The invariant, for a server s that runs.                                *)

\* Its join is in the log; only the very first server joins an empty group.
InGroup(s) ==
  /\ joinedAt[s] \in 1..Len(log) /\ cursor[s] >= joinedAt[s] - 1
  /\ log[joinedAt[s]].type = "Join" /\ log[joinedAt[s]].who = s
  /\ s \in log[joinedAt[s]].members
  /\ log[joinedAt[s]].members = {s} => joinedAt[s] = 1

\* It is in all later views, and alone in one only if it has a state.
ViewsSince(s) ==
  \A i \in (joinedAt[s] + 1)..Len(log) :
    /\ log[i].type \in Views => s \in log[i].members
    /\ log[i].type = "Join" => log[i].who # s /\ log[i].who \in log[i].members
    /\ log[i].type = "Disconnect" /\ log[i].members = {s} => state_sender[s] # Null

\* While it joins no client fails.
NoFailureSince(s) ==
  regAt[s] = Null =>
    \A i \in (joinedAt[s] + 1)..Len(log) : log[i].type # "ClientFailure"

\* Before it sees its own join nothing that matters is ordered.
Arrives(h, s) ==
  cursor[s] < joinedAt[s] =>
    /\ regAt[s] = Null /\ state_sender[s] = Null /\ sched[s] = EmptyState
    /\ buffer[s] = <<>> /\ replay[s] = <<>>
    /\ log[joinedAt[s]].members # {s} => h[joinedAt[s]] = h[Len(log)]

\* Until the state comes it buffers what the others execute.
Buffers(h, s) ==
  cursor[s] >= joinedAt[s] /\ regAt[s] = Null /\ replay[s] = <<>> =>
    /\ state_sender[s] = Null
    /\ Leads(h, h[joinedAt[s]], buffer[s], h[cursor[s]])

\* With the state it executes the rest of the buffer.
Replays(h, s) ==
  replay[s] # <<>> =>
    /\ regAt[s] = Null /\ state_sender[s] # Null /\ cursor[s] >= joinedAt[s]
    /\ Leads(h, sched[s], replay[s], h[cursor[s]])

\* Then it serves, and is where the log is.
Serves(h, s) ==
  regAt[s] # Null =>
    /\ cursor[s] >= regAt[s] /\ cursor[s] >= joinedAt[s]
    /\ replay[s] = <<>> /\ state_sender[s] # Null
    /\ sched[s] = h[cursor[s]]

Follows(h, s) == Arrives(h, s) /\ Buffers(h, s) /\ Replays(h, s) /\ Serves(h, s)

-----------------------------------------------------------------------------
(* The invariant, for the messages.                                        *)

\* A state on its way is the one at the join of the server that asked.
RepsCurrent(h) ==
  \A r \in stateReps :
    /\ r.to \in up /\ cursor[r.to] >= joinedAt[r.to]
    /\ readObject(r.image) = h[joinedAt[r.to]]

\* A server that still gets the StateReq will send that state.
ReqsCurrent(h) ==
  \A u \in up : \A i \in (cursor[u] + 1)..Len(log) :
    log[i].type = "StateReq" /\ log[i].who \in up =>
      /\ cursor[log[i].who] >= joinedAt[log[i].who]
      /\ h[i] = h[joinedAt[log[i].who]]

AnswersFollow(h) ==
  \A i \in 1..Len(log) : \A a \in answers[i] :
    log[i].type \in Requests /\ a = result(h[i - 1], log[i])

SomebodyUp == log # <<>> => up # {}

AgreeInv(h) ==
  /\ History(h) /\ Survives(h) /\ SomebodyUp
  /\ \A s \in up : InGroup(s) /\ ViewsSince(s) /\ NoFailureSince(s) /\ Follows(h, s)
  /\ RepsCurrent(h) /\ ReqsCurrent(h) /\ AnswersFollow(h)

-----------------------------------------------------------------------------
(***************************************************************************)
(* A message takes a state to a state; views and StateReq change nothing.  *)
(***************************************************************************)
LEMMA EffectLemma ==
  ASSUME NEW st \in State, NEW m \in Entry, WellFormed(m)
  PROVE  /\ effect(st, m) \in State
         /\ m.type \in Requests => effect(st, m) = execute(st, m)
         /\ m.type \in Views \cup {"StateReq"} => effect(st, m) = st
         /\ m.type = "ClientFailure" => effect(st, m) = shiftTasksFromClient(st, m.who)
  <1>1. CASE m.type \in Requests
    BY <1>1, ExecuteLemma DEF effect, Requests, Views
  <1>2. CASE m.type = "ClientFailure"
    <2>1. m.who \in Client
      BY <1>2 DEF WellFormed
    <2> QED BY <1>2, <2>1, ShiftLemma DEF effect, Requests, Views
  <1>3. CASE m.type \notin Requests \cup {"ClientFailure"}
    BY <1>3 DEF effect
  <1> QED BY <1>1, <1>2, <1>3

(***************************************************************************)
(* A task is known after it was accepted, and no message but the request   *)
(* to end it makes a state forget it.                                      *)
(***************************************************************************)
LEMMA KnownLemma ==
  ASSUME NEW st \in State, NEW m \in Entry, WellFormed(m), NEW t \in Task
  PROVE  /\ Known(st, t) /\ ~(m.type = "EndTaskReq" /\ m.task = t)
              => Known(effect(st, m), t)
         /\ m.type = "NewTaskReq" /\ m.task = t /\ newTaskOk(st, t)
              => Known(effect(st, m), t)
  <1> DEFINE n == effect(st, m)
  <1>0. /\ st.waiting \in Seq(Task) /\ st.processing \in [Task -> Client \cup {Null}]
        /\ Len(st.waiting) \in Nat /\ DOMAIN st.waiting = 1..Len(st.waiting)
    BY LenProperties DEF State
  <1>1. CASE m.type = "NewTaskReq"
    <2>1. m.task \in Task /\ n = newTask(st, m.task)
      BY <1>1 DEF WellFormed, effect, execute, Requests
    <2>2. CASE newTaskOk(st, m.task)
      <3>1. n.waiting = Append(st.waiting, m.task) /\ n.processing = st.processing
        BY <2>1, <2>2, NewTaskLemma
      <3> HIDE DEF n
      <3>2. /\ DOMAIN n.waiting = 1..(Len(st.waiting) + 1)
            /\ n.waiting[Len(st.waiting) + 1] = m.task
            /\ \A i \in 1..Len(st.waiting) : n.waiting[i] = st.waiting[i]
        BY <3>1, <2>1, <1>0, AppendProperties, LenProperties
      <3>3. m.task \in Range(n.waiting)
        <4>1. Len(st.waiting) + 1 \in DOMAIN n.waiting
          BY <3>2, <1>0
        <4> QED BY <4>1, <3>2 DEF Range
      <3>4. ASSUME t \in Range(st.waiting) PROVE t \in Range(n.waiting)
        <4>1. PICK i \in DOMAIN st.waiting : t = st.waiting[i]
          BY <3>4 DEF Range
        <4>2. i \in DOMAIN n.waiting /\ n.waiting[i] = t
          BY <4>1, <3>2, <1>0
        <4> QED BY <4>2 DEF Range
      <3>5. Known(st, t) => Known(n, t)
        BY <3>1, <3>4 DEF Known, waitingTasksContains, processingTasksContains
      <3>6. m.task = t => Known(n, t)
        BY <3>3 DEF Known, waitingTasksContains
      <3> QED BY <1>1, <3>5, <3>6 DEF n
    <2>3. CASE ~newTaskOk(st, m.task)
      BY <1>1, <2>1, <2>3, NewTaskLemma
    <2> QED BY <2>2, <2>3
  <1>2. CASE m.type = "GetTaskReq"
    <2>1. m.who \in Client /\ m.who # Null /\ n = getAndProcessTask(st, m.who)
      BY <1>2, NullAssumption DEF WellFormed, effect, execute, Requests
    <2>2. CASE getTaskOk(st)
      <3>1. /\ Head(st.waiting) \in Task /\ Head(st.waiting) = st.waiting[1] /\ Len(st.waiting) > 0
            /\ n.waiting = Tail(st.waiting) /\ Len(Tail(st.waiting)) = Len(st.waiting) - 1
            /\ \A i \in 1..Len(st.waiting) - 1 : Tail(st.waiting)[i] = st.waiting[i + 1]
            /\ n.processing = [st.processing EXCEPT ![Head(st.waiting)] = m.who]
            /\ n \in State
        BY <2>1, <2>2, GetTaskLemma
      <3> HIDE DEF n
      <3>2. DOMAIN n.waiting = 1..Len(st.waiting) - 1
        BY <3>1, LenProperties DEF State
      <3>3. ASSUME t \in Range(st.waiting) PROVE Known(n, t)
        <4>1. PICK i \in DOMAIN st.waiting : t = st.waiting[i]
          BY <3>3 DEF Range
        <4>2. CASE i = 1
          BY <4>1, <4>2, <3>1, <2>1, <1>0 DEF Known, processingTasksContains
        <4>3. CASE i # 1
          <5>1. i - 1 \in DOMAIN n.waiting /\ n.waiting[i - 1] = t
            BY <4>1, <4>3, <3>1, <3>2, <1>0
          <5> QED BY <5>1 DEF Known, waitingTasksContains, Range
        <4> QED BY <4>2, <4>3
      <3>4. ASSUME st.processing[t] # Null PROVE Known(n, t)
        BY <3>4, <3>1, <2>1, <1>0 DEF Known, processingTasksContains
      <3> QED BY <1>2, <3>3, <3>4 DEF Known, waitingTasksContains, processingTasksContains, n
    <2>3. CASE ~getTaskOk(st)
      BY <1>2, <2>1, <2>3 DEF getAndProcessTask
    <2> QED BY <2>2, <2>3
  <1>3. CASE m.type = "EndTaskReq"
    <2>1. m.task \in Task /\ n = endTask(st, m.task)
      BY <1>3 DEF WellFormed, effect, execute, Requests
    <2>2. n.waiting = st.waiting /\ n.processing = [st.processing EXCEPT ![m.task] = Null]
      BY <2>1, EndTaskLemma
    <2> QED BY <1>3, <2>1, <2>2, <1>0 DEF Known, waitingTasksContains, processingTasksContains
  <1>4. CASE m.type = "ClientFailure"
    <2>1. m.who \in Client /\ n = shiftTasksFromClient(st, m.who)
      BY <1>4 DEF WellFormed, effect, Requests
    <2>2. CASE tasksOf(st, m.who) # {}
      <3>1. PICK x \in Task : ShiftMoves(st, m.who, x)
        BY <2>1, <2>2, ShiftLemma
      <3>2. n.waiting = <<x>> \o st.waiting /\ n.processing = [st.processing EXCEPT ![x] = Null]
        BY <2>1, <3>1 DEF ShiftMoves
      <3>3. /\ Len(n.waiting) = Len(st.waiting) + 1 /\ n.waiting[1] = x
            /\ \A i \in 1..Len(st.waiting) : n.waiting[i + 1] = st.waiting[i]
        BY <2>1, <3>1 DEF ShiftMoves
      <3>4. n \in State
        BY <2>1, ShiftLemma
      <3> HIDE DEF n
      <3>5. DOMAIN n.waiting = 1..(Len(st.waiting) + 1)
        BY <3>3, <3>4, LenProperties DEF State
      <3>6. ASSUME t \in Range(st.waiting) PROVE t \in Range(n.waiting)
        <4>1. PICK i \in DOMAIN st.waiting : t = st.waiting[i]
          BY <3>6 DEF Range
        <4>2. i + 1 \in DOMAIN n.waiting /\ n.waiting[i + 1] = t
          BY <4>1, <3>3, <3>5, <1>0
        <4> QED BY <4>2 DEF Range
      <3>7. x \in Range(n.waiting)
        <4>1. 1 \in DOMAIN n.waiting
          BY <3>5, <1>0
        <4> QED BY <4>1, <3>3 DEF Range
      <3>8. t # x => n.processing[t] = st.processing[t]
        BY <3>2, <1>0
      <3>9. Known(st, t) => Known(n, t)
        BY <3>6, <3>7, <3>8 DEF Known, waitingTasksContains, processingTasksContains
      <3> QED BY <1>4, <3>9 DEF n
    <2>3. CASE tasksOf(st, m.who) = {}
      BY <1>4, <2>1, <2>3, ShiftLemma
    <2> QED BY <2>2, <2>3
  <1>5. CASE m.type \notin Requests \cup {"ClientFailure"}
    BY <1>5 DEF effect, Requests
  <1> QED BY <1>1, <1>2, <1>3, <1>4, <1>5 DEF Requests

-----------------------------------------------------------------------------
(* The log grows by one message.                                           *)

\* The history after one more message.
Grown(h, m) ==
  [n \in 0..(Len(log) + 1) |-> IF n = Len(log) + 1 THEN effect(h[Len(log)], m) ELSE h[n]]

\* A path of requests is the same in two histories that agree that far.
LEMMA LeadsAgree ==
  ASSUME NEW n \in Nat, NEW h, NEW g, \A i \in 0..n : g[i] = h[i],
         NEW p \in Seq(1..n), NEW a, NEW b, Leads(h, a, p, b)
  PROVE  Leads(g, a, p, b)
  <1>1. CASE p = <<>>
    BY <1>1 DEF Leads
  <1>2. CASE p # <<>>
    <2>1. /\ Len(p) \in Nat /\ Len(p) > 0
          /\ \A k \in 1..Len(p) : p[k] \in 1..n
      BY <1>2, EmptySeq, LenProperties, ElementOfSeq
    <2>2. /\ \A k \in 1..Len(p) : g[p[k]] = h[p[k]] /\ g[p[k] - 1] = h[p[k] - 1]
      BY <2>1
    <2>3. /\ a = h[p[1] - 1] /\ h[p[Len(p)]] = b
          /\ \A k \in 1..(Len(p) - 1) : h[p[k]] = h[p[k + 1] - 1]
      BY <1>2 DEF Leads
    <2>4. \A k \in 1..(Len(p) - 1) : g[p[k]] = g[p[k + 1] - 1]
      <3> TAKE k \in 1..(Len(p) - 1)
      <3>1. k \in 1..Len(p) /\ k + 1 \in 1..Len(p)
        BY <2>1
      <3> QED BY <3>1, <2>2, <2>3
    <2>5. a = g[p[1] - 1] /\ g[p[Len(p)]] = b
      BY <2>1, <2>2, <2>3
    <2> QED BY <1>2, <2>4, <2>5 DEF Leads
  <1> QED BY <1>1, <1>2

(***************************************************************************)
(* The grown history is the history of the grown log; what was accepted    *)
(* stays known, and answers are the results of the history.                *)
(***************************************************************************)
LEMMA GrownLemma ==
  ASSUME ReplicaInv, NEW h, AgreeInv(h), NEW m \in Entry, WellFormed(m), Order(m),
         NEW g, g = Grown(h, m)
  PROVE  /\ History(g)' /\ Survives(g)' /\ AnswersFollow(g)'
         /\ \A n \in 0..Len(log) : g[n] = h[n]
         /\ g[Len(log) + 1] = effect(h[Len(log)], m)
  <1> DEFINE L == Len(log)
  <1>1. /\ L \in Nat /\ Len(log') = L + 1 /\ log' \in Seq(Entry)
        /\ \A i \in 1..L : log'[i] = log[i]
        /\ log'[L + 1] = m
    <2>1. log \in Seq(Entry)
      BY DEF ReplicaInv, TypeOK
    <2> QED BY <2>1, OrderLemma, AppendProperties DEF Order
  <1>2. h \in [0..L -> State] /\ h[0] = EmptyState /\ h[L] \in State
    BY <1>1 DEF AgreeInv, History
  <1>3. effect(h[L], m) \in State
    BY <1>2, EffectLemma
  <1>4. /\ g \in [0..(L + 1) -> State]
        /\ \A n \in 0..L : g[n] = h[n]
        /\ g[L + 1] = effect(h[L], m)
    BY <1>1, <1>2, <1>3 DEF Grown
  <1>5. \A i \in 1..(L + 1) : g[i] = effect(g[i - 1], log'[i])
    <2> TAKE i \in 1..(L + 1)
    <2>1. CASE i \in 1..L
      <3>1. h[i] = effect(h[i - 1], log[i])
        BY <2>1 DEF AgreeInv, History
      <3> QED BY <2>1, <3>1, <1>1, <1>4
    <2>2. CASE i = L + 1
      <3>1. L + 1 - 1 = L /\ L \in 0..L
        BY <1>1
      <3> QED BY <2>2, <3>1, <1>1, <1>4
    <2> QED BY <2>1, <2>2, <1>1
  <1>6. History(g)'
    <2>1. g[0] = EmptyState
      BY <1>1, <1>2, <1>4
    <2> QED BY <1>1, <1>4, <1>5, <2>1 DEF History
  <1>7. Survives(g)'
    <2> SUFFICES ASSUME NEW i \in 1..(L + 1), NEW j \in i..(L + 1),
                        log'[i].type = "NewTaskReq", newTaskOk(g[i - 1], log'[i].task),
                        \A k \in i..j : ~(log'[k].type = "EndTaskReq" /\ log'[k].task = log'[i].task)
                 PROVE  Known(g[j], log'[i].task)
      BY <1>1 DEF Survives
    <2> DEFINE t == log'[i].task
    <2>0. log'[i] \in Entry /\ WellFormed(log'[i]) /\ log'[j] \in Entry /\ WellFormed(log'[j])
      <3>1. LogWellFormed' /\ i \in 1..Len(log') /\ j \in 1..Len(log')
        BY <1>1, OrderLemma
      <3> QED BY <3>1, <1>1, ElementOfSeq DEF LogWellFormed
    <2>1. t \in Task
      BY <2>0 DEF WellFormed
    <2>2. g[j - 1] \in State /\ g[j] = effect(g[j - 1], log'[j]) /\ j \in 1..(L + 1)
      <3>1. j \in 1..(L + 1) /\ j - 1 \in 0..(L + 1)
        BY <1>1
      <3>2. g[j - 1] \in State
        BY <3>1, <1>4
      <3> QED BY <3>1, <3>2, <1>5
    <2>3. CASE i = j
      <3> HIDE DEF t
      <3>1. log'[j].type = "NewTaskReq" /\ log'[j].task = t /\ newTaskOk(g[j - 1], t)
        BY <2>3 DEF t
      <3>2. Known(effect(g[j - 1], log'[j]), t)
        BY <3>1, <2>0, <2>1, <2>2, KnownLemma
      <3> QED BY <3>2, <2>2 DEF t
    <2>4. CASE i # j
      <3>1. i \in 1..L /\ j - 1 \in i..L /\ j - 1 \in 1..L /\ i - 1 \in 0..L
        BY <2>4, <1>1
      <3>2. \A k \in i..(j - 1) : ~(log[k].type = "EndTaskReq" /\ log[k].task = log[i].task)
        BY <3>1, <1>1
      <3>3. log[i].type = "NewTaskReq" /\ newTaskOk(h[i - 1], log[i].task) /\ t = log[i].task
        BY <3>1, <1>1, <1>4
      <3>4. Known(h[j - 1], log[i].task)
        BY <3>1, <3>2, <3>3 DEF AgreeInv, Survives
      <3>5. Known(g[j - 1], t)
        BY <3>1, <3>3, <3>4, <1>4
      <3>6. ~(log'[j].type = "EndTaskReq" /\ log'[j].task = t)
        BY <1>1
      <3> HIDE DEF t
      <3>7. Known(effect(g[j - 1], log'[j]), t)
        BY <3>5, <3>6, <2>0, <2>1, <2>2, KnownLemma
      <3> QED BY <3>7, <2>2 DEF t
    <2> QED BY <2>3, <2>4
  <1>8. AnswersFollow(g)'
    <2>1. answers' = Append(answers, {}) /\ Len(answers) = L
      BY DEF Order, ReplicaInv, TypeOK
    <2>2. /\ \A i \in 1..L : answers'[i] = answers[i]
          /\ answers'[L + 1] = {}
      BY <2>1, AppendProperties DEF ReplicaInv, TypeOK
    <2> SUFFICES ASSUME NEW i \in 1..(L + 1), NEW a \in answers'[i]
                 PROVE  log'[i].type \in Requests /\ a = result(g[i - 1], log'[i])
      BY <1>1 DEF AnswersFollow
    <2>3. i \in 1..L /\ i - 1 \in 0..L
      BY <2>2, <1>1
    <2>4. log[i].type \in Requests /\ a = result(h[i - 1], log[i])
      BY <2>2, <2>3 DEF AgreeInv, AnswersFollow
    <2> QED BY <2>3, <2>4, <1>1, <1>4
  <1> QED BY <1>4, <1>6, <1>7, <1>8

(***************************************************************************)
(* A server stays in its group when a view without it, or a failure, is    *)
(* not what is ordered.                                                    *)
(***************************************************************************)
LEMMA KeepsView ==
  ASSUME ReplicaInv, NEW h, AgreeInv(h), NEW m \in Entry, WellFormed(m), Order(m), NEW s \in up,
         cursor'[s] \in {cursor[s], cursor[s] + 1}, joinedAt'[s] = joinedAt[s],
         regAt'[s] = regAt[s], state_sender'[s] = state_sender[s],
         m.type \in Views => s \in m.members,
         m.type = "Join" => m.who # s /\ m.who \in m.members,
         m.type = "Disconnect" /\ m.members = {s} => state_sender[s] # Null,
         regAt[s] = Null => m.type # "ClientFailure"
  PROVE  InGroup(s)' /\ ViewsSince(s)' /\ NoFailureSince(s)'
  <1> DEFINE L == Len(log)
  <1>1. /\ L \in Nat /\ Len(log') = L + 1
        /\ \A i \in 1..L : log'[i] = log[i]
        /\ log'[L + 1] = m
    <2>1. log \in Seq(Entry)
      BY DEF ReplicaInv, TypeOK
    <2> QED BY <2>1, OrderLemma, AppendProperties DEF Order
  <1>3. InGroup(s) /\ ViewsSince(s) /\ NoFailureSince(s)
    BY DEF AgreeInv
  <1>4. cursor[s] \in 0..L /\ joinedAt[s] \in 1..L
    BY <1>3 DEF ReplicaInv, TypeOK, InGroup
  <1>0. \A i \in (joinedAt[s] + 1)..(L + 1) : i # L + 1 => i \in (joinedAt[s] + 1)..L /\ i \in 1..L
    <2>1. joinedAt[s] \in Nat /\ joinedAt[s] >= 1
      BY <1>4
    <2> QED BY <2>1, <1>1
  <1>5. InGroup(s)'
    <2>1. log'[joinedAt'[s]] = log[joinedAt[s]] /\ joinedAt'[s] \in 1..Len(log')
      BY <1>1, <1>4
    <2>2. cursor'[s] >= joinedAt'[s] - 1
      BY <1>3, <1>4 DEF InGroup
    <2> QED BY <2>1, <2>2, <1>3 DEF InGroup
  <1>6. ViewsSince(s)'
    <2> SUFFICES ASSUME NEW i \in (joinedAt[s] + 1)..(L + 1)
                 PROVE  /\ log'[i].type \in Views => s \in log'[i].members
                        /\ log'[i].type = "Join" => log'[i].who # s /\ log'[i].who \in log'[i].members
                        /\ log'[i].type = "Disconnect" /\ log'[i].members = {s} => state_sender[s] # Null
      BY <1>1 DEF ViewsSince
    <2>1. CASE i = L + 1
      BY <2>1, <1>1
    <2>2. CASE i # L + 1
      <3>1. i \in (joinedAt[s] + 1)..L /\ log'[i] = log[i]
        BY <2>2, <1>0, <1>1
      <3> QED BY <3>1, <1>3 DEF ViewsSince
    <2> QED BY <2>1, <2>2
  <1>7. NoFailureSince(s)'
    <2> SUFFICES ASSUME regAt[s] = Null, NEW i \in (joinedAt[s] + 1)..(L + 1)
                 PROVE  log'[i].type # "ClientFailure"
      BY <1>1 DEF NoFailureSince
    <2>1. CASE i = L + 1
      BY <2>1, <1>1
    <2>2. CASE i # L + 1
      <3>1. i \in (joinedAt[s] + 1)..L /\ log'[i] = log[i]
        BY <2>2, <1>0, <1>1
      <3> QED BY <3>1, <1>3 DEF NoFailureSince
    <2> QED BY <2>1, <2>2
  <1> QED BY <1>5, <1>6, <1>7

(***************************************************************************)
(* A server that is not involved keeps its place when a message is         *)
(* ordered that does not matter to one that joins.                         *)
(***************************************************************************)
LEMMA KeepsPlace ==
  ASSUME ReplicaInv, NEW h, AgreeInv(h), NEW m \in Entry, WellFormed(m), Order(m),
         NEW g, g = Grown(h, m), NEW s \in up,
         cursor'[s] = cursor[s], joinedAt'[s] = joinedAt[s], regAt'[s] = regAt[s],
         state_sender'[s] = state_sender[s], sched'[s] = sched[s],
         buffer'[s] = buffer[s], replay'[s] = replay[s],
         m.type \in Views => s \in m.members,
         m.type = "Join" => m.who # s /\ m.who \in m.members,
         m.type = "Disconnect" /\ m.members = {s} => state_sender[s] # Null,
         regAt[s] = Null => m.type # "ClientFailure",
         cursor[s] < joinedAt[s] /\ log[joinedAt[s]].members # {s} => m.type \notin Requests
  PROVE  InGroup(s)' /\ ViewsSince(s)' /\ NoFailureSince(s)' /\ Follows(g, s)'
  <1> DEFINE L == Len(log)
  <1>1. /\ L \in Nat /\ Len(log') = L + 1
        /\ \A i \in 1..L : log'[i] = log[i]
        /\ log'[L + 1] = m
    <2>1. log \in Seq(Entry)
      BY DEF ReplicaInv, TypeOK
    <2> QED BY <2>1, OrderLemma, AppendProperties DEF Order
  <1>2. /\ \A n \in 0..L : g[n] = h[n]
        /\ g[L + 1] = effect(h[L], m)
    BY GrownLemma
  <1>3. /\ InGroup(s) /\ ViewsSince(s) /\ NoFailureSince(s)
        /\ Arrives(h, s) /\ Buffers(h, s) /\ Replays(h, s) /\ Serves(h, s)
    BY DEF AgreeInv, Follows
  <1>4. /\ s \in Server /\ cursor[s] \in 0..L /\ joinedAt[s] \in 1..L
        /\ buffer[s] \in Seq(1..L) /\ replay[s] \in Seq(1..L)
    BY <1>3 DEF ReplicaInv, TypeOK, InGroup
  <1>5. InGroup(s)' /\ ViewsSince(s)' /\ NoFailureSince(s)'
    BY KeepsView
  <1>8. g[joinedAt[s]] = h[joinedAt[s]] /\ g[cursor[s]] = h[cursor[s]]
    BY <1>1, <1>2, <1>4
  <1>9. Arrives(g, s)'
    <2> SUFFICES ASSUME cursor[s] < joinedAt[s]
                 PROVE  /\ regAt[s] = Null /\ state_sender[s] = Null /\ sched[s] = EmptyState
                        /\ buffer[s] = <<>> /\ replay[s] = <<>>
                        /\ log[joinedAt[s]].members # {s} => g[joinedAt[s]] = g[L + 1]
      BY <1>1, <1>4 DEF Arrives
    <2>1. /\ regAt[s] = Null /\ state_sender[s] = Null /\ sched[s] = EmptyState
          /\ buffer[s] = <<>> /\ replay[s] = <<>>
          /\ log[joinedAt[s]].members # {s} => h[joinedAt[s]] = h[L]
      BY <1>3 DEF Arrives
    <2>2. ASSUME log[joinedAt[s]].members # {s} PROVE g[L + 1] = h[L]
      <3>1. m.type \in Views \cup {"StateReq"}
        BY <2>1, <2>2 DEF Entry
      <3>2. h[L] \in State
        BY <1>1 DEF AgreeInv, History
      <3> QED BY <3>1, <3>2, <1>2, EffectLemma
    <2> QED BY <2>1, <2>2, <1>8
  <1>10. Buffers(g, s)'
    <2> SUFFICES ASSUME cursor[s] >= joinedAt[s], regAt[s] = Null, replay[s] = <<>>
                 PROVE  /\ state_sender[s] = Null
                        /\ Leads(g, g[joinedAt[s]], buffer[s], g[cursor[s]])
      BY DEF Buffers
    <2>1. state_sender[s] = Null /\ Leads(h, h[joinedAt[s]], buffer[s], h[cursor[s]])
      BY <1>3 DEF Buffers
    <2>2. Leads(g, h[joinedAt[s]], buffer[s], h[cursor[s]])
      BY <2>1, <1>1, <1>2, <1>4, LeadsAgree, ZenonT(60)
    <2> QED BY <2>1, <2>2, <1>8
  <1>11. Replays(g, s)'
    <2> SUFFICES ASSUME replay[s] # <<>>
                 PROVE  /\ regAt[s] = Null /\ state_sender[s] # Null /\ cursor[s] >= joinedAt[s]
                        /\ Leads(g, sched[s], replay[s], g[cursor[s]])
      BY DEF Replays
    <2>1. /\ regAt[s] = Null /\ state_sender[s] # Null /\ cursor[s] >= joinedAt[s]
          /\ Leads(h, sched[s], replay[s], h[cursor[s]])
      BY <1>3 DEF Replays
    <2>2. Leads(g, sched[s], replay[s], h[cursor[s]])
      BY <2>1, <1>1, <1>2, <1>4, LeadsAgree, ZenonT(60)
    <2> QED BY <2>1, <2>2, <1>8
  <1>12. Serves(g, s)'
    BY <1>3, <1>8 DEF Serves
  <1> QED BY <1>5, <1>9, <1>10, <1>11, <1>12 DEF Follows

\* The grown log and history, where both are the old ones.
LEMMA GrownFacts ==
  ASSUME ReplicaInv, NEW h, AgreeInv(h), NEW m \in Entry, WellFormed(m), Order(m),
         NEW g, g = Grown(h, m)
  PROVE  /\ Len(log) \in Nat /\ Len(log') = Len(log) + 1 /\ log'[Len(log) + 1] = m
         /\ \A i \in 1..Len(log) : log'[i] = log[i]
         /\ \A n \in 0..Len(log) : g[n] = h[n]
         /\ g[Len(log) + 1] = effect(h[Len(log)], m)
         /\ \A s \in up : /\ joinedAt[s] \in 1..Len(log) /\ cursor[s] \in 0..Len(log)
                          /\ g[joinedAt[s]] = h[joinedAt[s]] /\ g[cursor[s]] = h[cursor[s]]
  <1>1. /\ Len(log) \in Nat /\ Len(log') = Len(log) + 1 /\ log'[Len(log) + 1] = m
        /\ \A i \in 1..Len(log) : log'[i] = log[i]
    <2>1. log \in Seq(Entry)
      BY DEF ReplicaInv, TypeOK
    <2> QED BY <2>1, OrderLemma, AppendProperties DEF Order
  <1>2. /\ \A n \in 0..Len(log) : g[n] = h[n]
        /\ g[Len(log) + 1] = effect(h[Len(log)], m)
    BY GrownLemma
  <1>3. ASSUME NEW s \in up
        PROVE  joinedAt[s] \in 1..Len(log) /\ cursor[s] \in 0..Len(log)
    BY DEF AgreeInv, InGroup, ReplicaInv, TypeOK
  <1> QED BY <1>1, <1>2, <1>3

(***************************************************************************)
(* Crashes, requests and reported failures only add a message to the log.  *)
(***************************************************************************)
LEMMA OrdersAgree ==
  ASSUME ReplicaInv, NEW h, AgreeInv(h), NEW m \in Entry, WellFormed(m), Order(m),
         NEW g, g = Grown(h, m),
         up' \subseteq up, up' # {}, stateReps' = {r \in stateReps : r.to \in up'},
         UNCHANGED <<cursor, joinedAt, serverVars>>,
         m.type \notin {"StateReq", "Join"},
         \A s \in up' :
           /\ m.type \in Views => s \in m.members
           /\ m.type = "Disconnect" /\ m.members = {s} => state_sender[s] # Null
           /\ regAt[s] = Null => m.type # "ClientFailure"
           /\ cursor[s] < joinedAt[s] /\ log[joinedAt[s]].members # {s} => m.type \notin Requests
  PROVE  AgreeInv(g)'
  <1> USE DEF serverVars
  <1>1. History(g)' /\ Survives(g)' /\ AnswersFollow(g)'
    BY GrownLemma
  <1>2. SomebodyUp'
    BY DEF SomebodyUp
  <1>3. \A s \in up' : InGroup(s)' /\ ViewsSince(s)' /\ NoFailureSince(s)' /\ Follows(g, s)'
    <2> TAKE s \in up'
    <2>1. s \in up
      OBVIOUS
    <2> QED BY <2>1, KeepsPlace
  <1>4. RepsCurrent(g)'
    <2> SUFFICES ASSUME NEW r \in stateReps'
                 PROVE  /\ r.to \in up' /\ cursor[r.to] >= joinedAt[r.to]
                        /\ readObject(r.image) = g[joinedAt[r.to]]
      BY DEF RepsCurrent
    <2>1. /\ r \in stateReps /\ r.to \in up' /\ r.to \in up
          /\ cursor[r.to] >= joinedAt[r.to] /\ readObject(r.image) = h[joinedAt[r.to]]
      BY DEF AgreeInv, RepsCurrent
    <2> QED BY <2>1, GrownFacts
  <1>5. ReqsCurrent(g)'
    <2> SUFFICES ASSUME NEW u \in up', NEW i \in (cursor[u] + 1)..(Len(log) + 1),
                        log'[i].type = "StateReq", log'[i].who \in up'
                 PROVE  /\ cursor[log'[i].who] >= joinedAt[log'[i].who]
                        /\ g[i] = g[joinedAt[log'[i].who]]
      BY GrownFacts DEF ReqsCurrent
    <2>1. i # Len(log) + 1
      BY GrownFacts
    <2>2. cursor[u] \in Nat /\ Len(log) \in Nat /\ u \in up
      BY GrownFacts
    <2>3. i \in (cursor[u] + 1)..Len(log) /\ i \in 1..Len(log)
      BY <2>1, <2>2
    <2>4. log'[i] = log[i] /\ g[i] = h[i] /\ log[i].who \in up
      BY <2>3, GrownFacts
    <2>5. cursor[log[i].who] >= joinedAt[log[i].who] /\ h[i] = h[joinedAt[log[i].who]]
      BY <2>2, <2>3, <2>4 DEF AgreeInv, ReqsCurrent
    <2> QED BY <2>4, <2>5, GrownFacts
  <1> QED BY <1>1, <1>2, <1>3, <1>4, <1>5 DEF AgreeInv

\* A server that serves is registered and has a state.
LEMMA ServingLemma ==
  ASSUME NEW h, AgreeInv(h), NEW s, Serving(s)
  PROVE  s \in up /\ regAt[s] # Null /\ cursor[s] >= joinedAt[s] /\ state_sender[s] # Null
  BY DEF Serving, Main, AgreeInv, Follows, Serves

\* One of the servers that serve is left: nobody is alone without a state.
LEMMA CrashAgree ==
  ASSUME Orderly, ReplicaInv, NEW h, AgreeInv(h), NEW s \in Server, Crash(s)
  PROVE  \E g : AgreeInv(g)'
  <1> USE DEF Crash
  <1> DEFINE m == message("Disconnect", s, Null, up \ {s})
             g == Grown(h, m)
  <1>1. m \in Entry /\ WellFormed(m) /\ Order(m) /\ m.type = "Disconnect" /\ m.members = up'
    BY DEF ReplicaInv, TypeOK, message, Entry, WellFormed, Views, Requests
  <1>2. PICK u \in up \ {s} : Serving(u)
    BY DEF Orderly
  <1>3. u \in up' /\ state_sender[u] # Null
    BY <1>2, ServingLemma
  <1>4. stateReps' = {r \in stateReps : r.to \in up'}
    BY DEF AgreeInv, RepsCurrent
  <1> HIDE DEF m, g
  <1>5. \A x \in up' :
           /\ m.type \in Views => x \in m.members
           /\ m.type = "Disconnect" /\ m.members = {x} => state_sender[x] # Null
           /\ regAt[x] = Null => m.type # "ClientFailure"
           /\ cursor[x] < joinedAt[x] /\ log[joinedAt[x]].members # {x} => m.type \notin Requests
    BY <1>1, <1>3 DEF Requests
  <1>6. g = Grown(h, m)
    BY DEF g
  <1> QED BY <1>1, <1>3, <1>4, <1>5, <1>6, OrdersAgree

\* No request is ordered between the join of a server and its StateReq.
LEMMA RequestAgree ==
  ASSUME Orderly, ReplicaInv, NEW h, AgreeInv(h), NEW c \in Client, NEW type \in Requests,
         NEW task \in Task \cup {Null}, Request(c, type, task)
  PROVE  \E g : AgreeInv(g)'
  <1> USE DEF Request
  <1> DEFINE m == message(type, c, task, {})
             g == Grown(h, m)
  <1>1. m \in Entry /\ WellFormed(m) /\ Order(m) /\ m.type \in Requests
    BY DEF ReplicaInv, TypeOK, message, Entry, WellFormed, Views, Requests
  <1>2. \A x \in up : ~InGap(x)
    BY DEF Orderly
  <1>3. stateReps' = {r \in stateReps : r.to \in up'}
    BY DEF AgreeInv, RepsCurrent
  <1> HIDE DEF m, g
  <1>4. \A x \in up' :
           /\ m.type \in Views => x \in m.members
           /\ m.type = "Disconnect" /\ m.members = {x} => state_sender[x] # Null
           /\ regAt[x] = Null => m.type # "ClientFailure"
           /\ cursor[x] < joinedAt[x] /\ log[joinedAt[x]].members # {x} => m.type \notin Requests
    BY <1>1, <1>2 DEF Requests, Views, InGap
  <1>5. g = Grown(h, m)
    BY DEF g
  <1>6. m.type \notin {"StateReq", "Join"}
    BY <1>1 DEF Requests
  <1> QED BY <1>1, <1>3, <1>4, <1>5, <1>6, OrdersAgree

\* A failure is reported when all servers serve.
LEMMA ReportAgree ==
  ASSUME Orderly, ReplicaInv, NEW h, AgreeInv(h), NEW c \in Client, ReportFailure(c)
  PROVE  \E g : AgreeInv(g)'
  <1> USE DEF ReportFailure
  <1> DEFINE m == message("ClientFailure", c, Null, {})
             g == Grown(h, m)
  <1>1. m \in Entry /\ WellFormed(m) /\ Order(m) /\ m.type = "ClientFailure"
    BY DEF ReplicaInv, TypeOK, message, Entry, WellFormed, Views, Requests
  <1>2. \A x \in up : regAt[x] # Null
    BY ServingLemma DEF Orderly
  <1>3. stateReps' = {r \in stateReps : r.to \in up'}
    BY DEF AgreeInv, RepsCurrent
  <1> HIDE DEF m, g
  <1>4. \A x \in up' :
           /\ m.type \in Views => x \in m.members
           /\ m.type = "Disconnect" /\ m.members = {x} => state_sender[x] # Null
           /\ regAt[x] = Null => m.type # "ClientFailure"
           /\ cursor[x] < joinedAt[x] /\ log[joinedAt[x]].members # {x} => m.type \notin Requests
    BY <1>1, <1>2 DEF Requests, Views
  <1>5. g = Grown(h, m)
    BY DEF g
  <1> QED BY <1>1, <1>3, <1>4, <1>5, OrdersAgree

(***************************************************************************)
(* A server that starts has its join ahead of it; none of the others is    *)
(* still to answer a StateReq of an earlier life.                          *)
(***************************************************************************)
LEMMA StartAgree ==
  ASSUME Orderly, ReplicaInv, NEW h, AgreeInv(h), NEW s \in Server, Start(s)
  PROVE  \E g : AgreeInv(g)'
  <1> USE DEF Start
  <1> DEFINE m == message("Join", s, Null, up \cup {s})
             L == Len(log)
  <1>1. /\ m \in Entry /\ WellFormed(m) /\ Order(m)
        /\ m.type = "Join" /\ m.who = s /\ m.members = up \cup {s}
    BY DEF ReplicaInv, TypeOK, message, Entry, WellFormed, Views, Requests
  <1> HIDE DEF m
  <1>2. PICK g : g = Grown(h, m)
    OBVIOUS
  <1>3. /\ L \in Nat /\ Len(log') = L + 1 /\ log'[L + 1] = m
        /\ \A i \in 1..L : log'[i] = log[i]
        /\ \A n \in 0..L : g[n] = h[n]
    BY <1>1, <1>2, GrownFacts
  <1>4. /\ cursor'[s] = L /\ joinedAt'[s] = L + 1 /\ regAt'[s] = Null /\ state_sender'[s] = Null
        /\ sched'[s] = EmptyState /\ buffer'[s] = <<>> /\ replay'[s] = <<>>
    BY DEF ReplicaInv, TypeOK
  <1>5. ASSUME NEW u \in up
        PROVE  /\ u \in Server /\ u # s
               /\ cursor'[u] = cursor[u] /\ joinedAt'[u] = joinedAt[u] /\ regAt'[u] = regAt[u]
               /\ state_sender'[u] = state_sender[u] /\ sched'[u] = sched[u]
               /\ buffer'[u] = buffer[u] /\ replay'[u] = replay[u]
    BY DEF ReplicaInv, TypeOK
  <1>6. History(g)' /\ Survives(g)' /\ AnswersFollow(g)' /\ SomebodyUp'
    BY <1>1, <1>2, GrownLemma DEF SomebodyUp
  <1>7. ASSUME NEW u \in up
        PROVE  InGroup(u)' /\ ViewsSince(u)' /\ NoFailureSince(u)' /\ Follows(g, u)'
    <2>1. m.type \notin Requests /\ m.type # "ClientFailure" /\ m.type # "Disconnect"
      BY <1>1 DEF Requests
    <2> QED BY <1>1, <1>2, <1>5, <2>1, KeepsPlace
  <1>8. InGroup(s)' /\ ViewsSince(s)' /\ NoFailureSince(s)' /\ Follows(g, s)'
    <2>1. m.members = {s} => L + 1 = 1
      <3>1. ASSUME m.members = {s} PROVE up = {}
        BY <1>1, <3>1
      <3>2. up = {} => L = 0
        BY DEF AgreeInv, SomebodyUp
      <3> QED BY <3>1, <3>2
    <2>2. InGroup(s)'
      BY <1>1, <1>3, <1>4, <2>1 DEF InGroup
    <2>3. (joinedAt'[s] + 1)..Len(log') = {}
      BY <1>3, <1>4
    <2>4. ViewsSince(s)' /\ NoFailureSince(s)'
      BY <2>3 DEF ViewsSince, NoFailureSince
    <2>5. ~(cursor'[s] >= joinedAt'[s])
      BY <1>3, <1>4
    <2>6. Follows(g, s)'
      BY <1>3, <1>4, <2>5 DEF Follows, Arrives, Buffers, Replays, Serves
    <2> QED BY <2>2, <2>4, <2>6
  <1>9. RepsCurrent(g)'
    <2> SUFFICES ASSUME NEW r \in stateReps
                 PROVE  /\ r.to \in up' /\ cursor'[r.to] >= joinedAt'[r.to]
                        /\ readObject(r.image) = g[joinedAt'[r.to]]
      BY DEF RepsCurrent
    <2>1. /\ r.to \in up /\ cursor[r.to] >= joinedAt[r.to]
          /\ readObject(r.image) = h[joinedAt[r.to]]
      BY DEF AgreeInv, RepsCurrent
    <2> QED BY <2>1, <1>1, <1>2, <1>5, GrownFacts
  <1>10. ReqsCurrent(g)'
    <2> SUFFICES ASSUME NEW u \in up', NEW i \in (cursor'[u] + 1)..(L + 1),
                        log'[i].type = "StateReq", log'[i].who \in up'
                 PROVE  /\ cursor'[log'[i].who] >= joinedAt'[log'[i].who]
                        /\ g[i] = g[joinedAt'[log'[i].who]]
      BY <1>3 DEF ReqsCurrent
    <2>1. i # L + 1
      BY <1>1, <1>3
    <2>2. u # s
      BY <2>1, <1>3, <1>4
    <2>3. u \in up /\ cursor'[u] = cursor[u] /\ cursor[u] \in Nat
      BY <2>2, <1>1, <1>2, <1>5, GrownFacts
    <2>4. i \in (cursor[u] + 1)..L /\ i \in 1..L
      BY <2>1, <2>3, <1>3
    <2>5. log'[i] = log[i] /\ g[i] = h[i]
      BY <2>4, <1>3
    <2>6. log[i].who # s
      BY <2>3, <2>4, <2>5 DEF Orderly
    <2>7. log[i].who \in up
      BY <2>5, <2>6
    <2>8. cursor[log[i].who] >= joinedAt[log[i].who] /\ h[i] = h[joinedAt[log[i].who]]
      BY <2>3, <2>4, <2>5, <2>7 DEF AgreeInv, ReqsCurrent
    <2> QED BY <2>5, <2>7, <2>8, <1>1, <1>2, <1>5, GrownFacts
  <1>11. \A u \in up' : InGroup(u)' /\ ViewsSince(u)' /\ NoFailureSince(u)' /\ Follows(g, u)'
    BY <1>7, <1>8
  <1> QED BY <1>6, <1>9, <1>10, <1>11 DEF AgreeInv

-----------------------------------------------------------------------------
(* The handlers: one server moves on.                                      *)

\* The path of requests gets longer at its end, and shorter at its start.
LEMMA LeadsAppend ==
  ASSUME NEW n \in Nat, NEW h, NEW p \in Seq(1..n), NEW a, NEW c \in 0..(n - 1),
         Leads(h, a, p, h[c])
  PROVE  Leads(h, a, Append(p, c + 1), h[c + 1])
  <1> DEFINE q == Append(p, c + 1)
  <1>1. /\ Len(p) \in Nat /\ Len(q) = Len(p) + 1 /\ q[Len(p) + 1] = c + 1 /\ q # <<>>
        /\ \A k \in 1..Len(p) : q[k] = p[k]
    <2>1. c + 1 \in 1..n
      OBVIOUS
    <2>2. /\ Len(p) \in Nat /\ Len(q) = Len(p) + 1 /\ q[Len(p) + 1] = c + 1 /\ q \in Seq(1..n)
          /\ \A k \in 1..Len(p) : q[k] = p[k]
      BY <2>1, AppendProperties, LenProperties
    <2> HIDE DEF q
    <2>3. q # <<>>
      BY <2>2, EmptySeq
    <2> QED BY <2>2, <2>3
  <1> HIDE DEF q
  <1>2. CASE p = <<>>
    <2>1. Len(p) = 0 /\ a = h[c]
      BY <1>2, EmptySeq DEF Leads
    <2>2. q[1] = c + 1 /\ Len(q) = 1 /\ c + 1 - 1 = c
      BY <1>1, <2>1
    <2>3. 1..(Len(q) - 1) = {}
      BY <2>2
    <2> QED BY <1>1, <2>1, <2>2, <2>3 DEF Leads, q
  <1>3. CASE p # <<>>
    <2>1. Len(p) > 0
      BY <1>3, <1>1, EmptySeq
    <2>2. /\ a = h[p[1] - 1] /\ h[p[Len(p)]] = h[c]
          /\ \A k \in 1..(Len(p) - 1) : h[p[k]] = h[p[k + 1] - 1]
      BY <1>3 DEF Leads
    <2>3. a = h[q[1] - 1] /\ h[q[Len(q)]] = h[c + 1]
      <3>1. 1 \in 1..Len(p)
        BY <1>1, <2>1
      <3>2. q[1] = p[1] /\ q[Len(q)] = c + 1
        BY <3>1, <1>1
      <3> QED BY <3>2, <2>2
    <2>4. \A k \in 1..(Len(q) - 1) : h[q[k]] = h[q[k + 1] - 1]
      <3> TAKE k \in 1..(Len(q) - 1)
      <3>1. CASE k = Len(p)
        <4>1. q[k] = p[Len(p)] /\ q[k + 1] = c + 1 /\ c + 1 - 1 = c
          BY <3>1, <1>1, <2>1
        <4> QED BY <4>1, <2>2
      <3>2. CASE k # Len(p)
        <4>1. k \in 1..(Len(p) - 1) /\ k \in 1..Len(p) /\ k + 1 \in 1..Len(p)
          BY <3>2, <1>1
        <4> QED BY <4>1, <1>1, <2>2
      <3> QED BY <3>1, <3>2
    <2> QED BY <1>1, <2>3, <2>4 DEF Leads, q
  <1> QED BY <1>2, <1>3

LEMMA LeadsTail ==
  ASSUME NEW n \in Nat, NEW h, NEW p \in Seq(1..n), p # <<>>, NEW a, NEW b, Leads(h, a, p, b)
  PROVE  /\ Head(p) \in 1..n /\ a = h[Head(p) - 1]
         /\ Leads(h, h[Head(p)], Tail(p), b)
         /\ Tail(p) = <<>> <=> Len(p) = 1
  <1> DEFINE q == Tail(p)
  <1>1. /\ Len(p) \in Nat /\ Len(p) > 0 /\ Head(p) = p[1]
        /\ \A k \in 1..Len(p) : p[k] \in 1..n
    BY EmptySeq, LenProperties, ElementOfSeq
  <1>2. /\ q \in Seq(1..n) /\ Len(q) = Len(p) - 1
        /\ \A k \in 1..Len(q) : q[k] = p[k + 1]
    BY HeadTailProperties
  <1> HIDE DEF q
  <1>3. Len(p) \in Nat /\ (q = <<>> <=> Len(p) = 1) /\ (q # <<>> => Len(p) > 1)
    <2>1. q = <<>> <=> Len(q) = 0
      BY <1>2, EmptySeq
    <2>2. Len(q) = Len(p) - 1 /\ Len(p) \in Nat /\ Len(p) > 0
      BY <1>1, <1>2
    <2> QED BY <2>1, <2>2
  <1>4. /\ a = h[p[1] - 1] /\ h[p[Len(p)]] = b
        /\ \A k \in 1..(Len(p) - 1) : h[p[k]] = h[p[k + 1] - 1]
    BY DEF Leads
  <1>5. CASE q = <<>>
    <2>1. h[p[1]] = b
      BY <1>5, <1>3, <1>4
    <2> QED BY <2>1, <1>1, <1>3, <1>4, <1>5 DEF Leads, q
  <1>6. CASE q # <<>>
    <2>1. Len(p) > 1
      BY <1>6, <1>3
    <2>2. h[p[1]] = h[q[1] - 1] /\ h[q[Len(q)]] = b
      <3>1. 1 \in 1..Len(q) /\ Len(q) \in 1..Len(q) /\ 1 \in 1..(Len(p) - 1)
        BY <2>1, <1>2, <1>3
      <3>2. q[1] = p[1 + 1] /\ q[Len(q)] = p[Len(q) + 1] /\ Len(q) + 1 = Len(p)
        BY <3>1, <1>2, <1>3
      <3> QED BY <3>1, <3>2, <1>4
    <2>3. \A k \in 1..(Len(q) - 1) : h[q[k]] = h[q[k + 1] - 1]
      <3> TAKE k \in 1..(Len(q) - 1)
      <3>1. /\ k \in 1..Len(q) /\ k + 1 \in 1..Len(q) /\ k + 1 \in 1..(Len(p) - 1)
        BY <1>1, <1>2
      <3> QED BY <3>1, <1>2, <1>4
    <2>4. Leads(h, h[p[1]], q, b)
      BY <1>6, <2>2, <2>3 DEF Leads
    <2> QED BY <2>4, <1>1, <1>3, <1>4 DEF q
  <1> QED BY <1>5, <1>6

(***************************************************************************)
(* A step of one server keeps the invariant if the server still follows    *)
(* the history, and what it sends and answers is what the history says.    *)
(***************************************************************************)
LEMMA LocalAgree ==
  ASSUME ReplicaInv, NEW h, AgreeInv(h), NEW s \in up,
         UNCHANGED <<log, up, joinedAt>>,
         cursor'[s] \in {cursor[s], cursor[s] + 1},
         \A u \in up : u # s =>
           /\ cursor'[u] = cursor[u] /\ regAt'[u] = regAt[u]
           /\ state_sender'[u] = state_sender[u] /\ sched'[u] = sched[u]
           /\ buffer'[u] = buffer[u] /\ replay'[u] = replay[u],
         state_sender[s] # Null => state_sender'[s] # Null,
         regAt[s] # Null => regAt'[s] # Null,
         Follows(h, s)',
         \A r \in stateReps' :
           \/ r \in stateReps
           \/ /\ r.to \in up /\ cursor[r.to] >= joinedAt[r.to]
              /\ readObject(r.image) = h[joinedAt[r.to]],
         \A i \in 1..Len(log) : \A a \in answers'[i] :
           \/ a \in answers[i]
           \/ log[i].type \in Requests /\ a = result(h[i - 1], log[i])
  PROVE  AgreeInv(h)'
  <1>1. History(h)' /\ Survives(h)' /\ SomebodyUp'
    BY DEF AgreeInv, History, Survives, SomebodyUp
  <1>2. \A u \in up : /\ cursor[u] \in Nat /\ joinedAt[u] \in Nat
                      /\ cursor'[u] \in {cursor[u], cursor[u] + 1}
    <2> TAKE u \in up
    <2>1. /\ u \in Server /\ Len(log) \in Nat
          /\ cursor[u] \in 0..Len(log) /\ joinedAt[u] \in 0..Len(log)
      BY LenProperties DEF ReplicaInv, TypeOK
    <2> QED BY <2>1
  <1>3. ASSUME NEW u \in up
        PROVE  InGroup(u)' /\ ViewsSince(u)' /\ NoFailureSince(u)'
    <2>1. InGroup(u) /\ ViewsSince(u) /\ NoFailureSince(u)
      BY DEF AgreeInv
    <2>2. InGroup(u)'
      BY <2>1, <1>2 DEF InGroup
    <2>3. ViewsSince(u)'
      BY <2>1 DEF ViewsSince
    <2>4. NoFailureSince(u)'
      BY <2>1 DEF NoFailureSince
    <2> QED BY <2>2, <2>3, <2>4
  <1>4. ASSUME NEW u \in up PROVE Follows(h, u)'
    <2>1. CASE u = s
      BY <2>1
    <2>2. CASE u # s
      <3>1. Arrives(h, u) /\ Buffers(h, u) /\ Replays(h, u) /\ Serves(h, u)
        BY DEF AgreeInv, Follows
      <3> QED BY <3>1, <2>2 DEF Follows, Arrives, Buffers, Replays, Serves, Leads
    <2> QED BY <2>1, <2>2
  <1>5. RepsCurrent(h)'
    <2> SUFFICES ASSUME NEW r \in stateReps'
                 PROVE  /\ r.to \in up /\ cursor'[r.to] >= joinedAt[r.to]
                        /\ readObject(r.image) = h[joinedAt[r.to]]
      BY DEF RepsCurrent
    <2>1. /\ r.to \in up /\ cursor[r.to] >= joinedAt[r.to]
          /\ readObject(r.image) = h[joinedAt[r.to]]
      BY DEF AgreeInv, RepsCurrent
    <2> QED BY <2>1, <1>2
  <1>6. ReqsCurrent(h)'
    <2> SUFFICES ASSUME NEW u \in up, NEW i \in (cursor'[u] + 1)..Len(log),
                        log[i].type = "StateReq", log[i].who \in up
                 PROVE  /\ cursor'[log[i].who] >= joinedAt[log[i].who]
                        /\ h[i] = h[joinedAt[log[i].who]]
      BY DEF ReqsCurrent
    <2>1. Len(log) \in Nat
      BY LenProperties DEF ReplicaInv, TypeOK
    <2>2. i \in (cursor[u] + 1)..Len(log)
      BY <2>1, <1>2
    <2>3. cursor[log[i].who] >= joinedAt[log[i].who] /\ h[i] = h[joinedAt[log[i].who]]
      BY <2>2 DEF AgreeInv, ReqsCurrent
    <2> QED BY <2>3, <1>2
  <1>7. AnswersFollow(h)'
    BY DEF AgreeInv, AnswersFollow
  <1> QED BY <1>1, <1>3, <1>4, <1>5, <1>6, <1>7 DEF AgreeInv

(***************************************************************************)
(* What is known of the server that receives a message: it follows the     *)
(* history, and past its join when the message is not a join.              *)
(***************************************************************************)
LEMMA ReceiverLemma ==
  ASSUME ReplicaInv, NEW h, AgreeInv(h), NEW s \in Server, NEW types, Receives(s, types)
  PROVE  /\ s \in up /\ replay[s] = <<>>
         /\ cursor[s] + 1 \in 1..Len(log) /\ cursor[s] \in 0..(Len(log) - 1) /\ Len(log) \in Nat
         /\ joinedAt[s] \in 1..Len(log) /\ cursor[s] >= joinedAt[s] - 1
         /\ Incoming(s) = log[cursor[s] + 1] /\ Incoming(s).type \in types
         /\ Incoming(s) \in Entry /\ WellFormed(Incoming(s))
         /\ h[cursor[s]] \in State /\ h[cursor[s] + 1] = effect(h[cursor[s]], log[cursor[s] + 1])
         /\ cursor[s] < joinedAt[s] => cursor[s] + 1 = joinedAt[s]
         /\ cursor[s] >= joinedAt[s] => cursor[s] + 1 \in (joinedAt[s] + 1)..Len(log)
         /\ Incoming(s).type # "Join" => cursor[s] >= joinedAt[s]
         /\ Advance(s) => cursor'[s] = cursor[s] + 1
         /\ InGroup(s) /\ ViewsSince(s) /\ NoFailureSince(s)
         /\ Arrives(h, s) /\ Buffers(h, s) /\ Replays(h, s) /\ Serves(h, s)
  <1>1. s \in up /\ replay[s] = <<>>
    BY DEF Receives
  <1>2. /\ InGroup(s) /\ ViewsSince(s) /\ NoFailureSince(s)
        /\ Arrives(h, s) /\ Buffers(h, s) /\ Replays(h, s) /\ Serves(h, s)
    BY <1>1 DEF AgreeInv, Follows
  <1>3. /\ cursor[s] \in Nat /\ Len(log) \in Nat /\ cursor[s] + 1 \in 1..Len(log)
        /\ Incoming(s).type \in types /\ Incoming(s) = log[cursor[s] + 1]
        /\ Incoming(s) \in Entry /\ WellFormed(Incoming(s))
    BY IncomingLemma DEF Incoming
  <1>4. joinedAt[s] \in 1..Len(log) /\ cursor[s] >= joinedAt[s] - 1 /\ log[joinedAt[s]].type = "Join"
    BY <1>2 DEF InGroup
  <1>5. cursor[s] < joinedAt[s] => cursor[s] + 1 = joinedAt[s]
    BY <1>3, <1>4
  <1>6. cursor[s] >= joinedAt[s] => cursor[s] + 1 \in (joinedAt[s] + 1)..Len(log)
    BY <1>3, <1>4
  <1>7. Incoming(s).type # "Join" => cursor[s] >= joinedAt[s]
    BY <1>3, <1>4, <1>5
  <1>8. cursor[s] \in 0..Len(log) /\ cursor[s] \in 0..(Len(log) - 1)
    BY <1>3
  <1>9. h[cursor[s]] \in State /\ h[cursor[s] + 1] = effect(h[cursor[s]], log[cursor[s] + 1])
    <2>1. h \in [0..Len(log) -> State] /\ h[cursor[s] + 1] = effect(h[cursor[s] + 1 - 1], log[cursor[s] + 1])
      BY <1>3 DEF AgreeInv, History
    <2>2. cursor[s] + 1 - 1 = cursor[s]
      BY <1>3
    <2> QED BY <2>1, <2>2, <1>8
  <1>10. Advance(s) => cursor'[s] = cursor[s] + 1
    BY DEF Advance, ReplicaInv, TypeOK
  <1> QED BY <1>1, <1>2, <1>3, <1>4, <1>5, <1>6, <1>7, <1>8, <1>9, <1>10

\* Without the hazard "register" the registration takes effect at once.
LEMMA RegisterAgree ==
  ASSUME Orderly, TypeOK, NEW s \in Server, NEW p, regAt[s] = Null, registerMainHandlers(s, p)
  PROVE  regAt'[s] = p /\ \A u \in Server : u # s => regAt'[u] = regAt[u]
  BY DEF Orderly, registerMainHandlers, TypeOK

(***************************************************************************)
(* A view of one member makes a server serve only if it is its own join,   *)
(* and that join is the first message of all.                              *)
(***************************************************************************)
LEMMA FirstLemma ==
  ASSUME ReplicaInv, NEW h, AgreeInv(h), NEW s \in Server, Receives(s, Views)
  PROVE  /\ IsFirst(s) => /\ cursor[s] + 1 = joinedAt[s] /\ joinedAt[s] = 1
                          /\ Incoming(s).type = "Join" /\ Incoming(s).who = s
         /\ ~IsFirst(s) /\ cursor[s] + 1 = joinedAt[s] => log[joinedAt[s]].members # {s}
         /\ cursor[s] + 1 = joinedAt[s] => Incoming(s).type = "Join" /\ Incoming(s).who = s
         /\ Incoming(s).type = "Join" /\ Incoming(s).who = s => cursor[s] + 1 = joinedAt[s]
  <1> DEFINE i == cursor[s] + 1
             M == Incoming(s).members
  <1>1. /\ s \in up /\ Incoming(s) = log[i] /\ Incoming(s).type \in Views /\ M \subseteq Server
        /\ InGroup(s) /\ ViewsSince(s) /\ Arrives(h, s)
        /\ cursor[s] \in Nat /\ joinedAt[s] \in Nat
        /\ cursor[s] < joinedAt[s] => i = joinedAt[s]
        /\ cursor[s] >= joinedAt[s] => i \in (joinedAt[s] + 1)..Len(log)
    BY ReceiverLemma DEF Entry
  <1>2. i = joinedAt[s] => Incoming(s).type = "Join" /\ Incoming(s).who = s
    BY <1>1 DEF InGroup
  <1>3. i # joinedAt[s] => i \in (joinedAt[s] + 1)..Len(log)
    BY <1>1
  <1>4. ASSUME IsFirst(s) PROVE i = joinedAt[s] /\ joinedAt[s] = 1
    <2>1. Cardinality(M) = 1 /\ state_sender[s] = Null
      BY <1>4 DEF IsFirst
    <2>2. IsFiniteSet(M)
      BY <1>1, ServerAssumption, FS_Subset
    <2>3. PICK x : M = {x}
      BY <2>1, <2>2, FS_Singleton
    <2>4. i = joinedAt[s]
      <3> SUFFICES ASSUME i # joinedAt[s] PROVE FALSE
        OBVIOUS
      <3>1. s \in M
        BY <1>1, <1>3 DEF ViewsSince
      <3>2. M = {s}
        BY <2>3, <3>1
      <3>3. CASE Incoming(s).type = "Join"
        BY <3>2, <3>3, <1>1, <1>3 DEF ViewsSince
      <3>4. CASE Incoming(s).type = "Disconnect"
        BY <3>2, <3>4, <2>1, <1>1, <1>3 DEF ViewsSince
      <3> QED BY <3>3, <3>4, <1>1 DEF Views
    <2>5. M = {s}
      BY <2>3, <2>4, <1>1 DEF InGroup
    <2> QED BY <2>4, <2>5, <1>1 DEF InGroup
  <1>5. ASSUME ~IsFirst(s), i = joinedAt[s] PROVE log[joinedAt[s]].members # {s}
    <2>1. state_sender[s] = Null
      BY <1>1, <1>5 DEF Arrives
    <2>2. Cardinality(M) # 1
      BY <2>1, <1>5 DEF IsFirst
    <2>3. M # {s}
      BY <2>2, FS_Singleton
    <2> QED BY <2>3, <1>1, <1>5
  <1>6. ASSUME Incoming(s).type = "Join", Incoming(s).who = s PROVE i = joinedAt[s]
    BY <1>1, <1>3, <1>6 DEF ViewsSince
  <1> QED BY <1>2, <1>4, <1>5, <1>6

(***************************************************************************)
(* A message that changes no state leaves a server where the history is.   *)
(***************************************************************************)
LEMMA NeutralStep ==
  ASSUME ReplicaInv, NEW h, AgreeInv(h), NEW s \in up, UNCHANGED joinedAt,
         cursor[s] >= joinedAt[s], cursor'[s] = cursor[s] + 1,
         h[cursor[s] + 1] = h[cursor[s]], replay[s] = <<>>,
         UNCHANGED <<regAt, state_sender, sched, buffer, replay>>
  PROVE  Follows(h, s)'
  <1>1. Buffers(h, s) /\ Serves(h, s)
    BY DEF AgreeInv, Follows
  <1>2. cursor[s] \in Nat /\ joinedAt[s] \in Nat /\ (regAt[s] # Null => regAt[s] \in Nat)
    BY DEF ReplicaInv, TypeOK
  <1>3. ~(cursor'[s] < joinedAt'[s])
    BY <1>2
  <1>4. Arrives(h, s)' /\ Replays(h, s)'
    BY <1>3 DEF Arrives, Replays
  <1>5. Buffers(h, s)'
    BY <1>1 DEF Buffers, Leads
  <1>6. Serves(h, s)'
    <2>1. regAt[s] # Null => cursor[s] + 1 >= regAt[s]
      BY <1>1, <1>2 DEF Serves
    <2>2. cursor[s] + 1 >= joinedAt[s]
      BY <1>2
    <2> QED BY <1>1, <2>1, <2>2 DEF Serves
  <1> QED BY <1>4, <1>5, <1>6 DEF Follows

\* The first server of all starts with an empty state, as the history does.
LEMMA FirstServerAgree ==
  ASSUME Orderly, ReplicaInv, NEW h, AgreeInv(h), NEW s \in Server, FirstServer(s)
  PROVE  AgreeInv(h)'
  <1> USE DEF FirstServer
  <1>1. /\ s \in up /\ replay[s] = <<>> /\ h[cursor[s]] \in State /\ Len(log) \in Nat
        /\ h[cursor[s] + 1] = effect(h[cursor[s]], log[cursor[s] + 1])
        /\ cursor'[s] = cursor[s] + 1 /\ cursor[s] \in 0..(Len(log) - 1)
        /\ Incoming(s) = log[cursor[s] + 1] /\ Incoming(s) \in Entry /\ WellFormed(Incoming(s))
        /\ Arrives(h, s)
    BY ReceiverLemma
  <1>2. /\ cursor[s] = 0 /\ joinedAt[s] = 1 /\ Incoming(s).type = "Join" /\ Incoming(s).who = s
    BY <1>1, FirstLemma
  <1>3. /\ regAt[s] = Null /\ sched[s] = EmptyState
    BY <1>1, <1>2 DEF Arrives
  <1>4. regAt'[s] = 1 /\ \A u \in Server : u # s => regAt'[u] = regAt[u]
    BY <1>2, <1>3, RegisterAgree DEF ReplicaInv
  <1>5. state_sender'[s] = s /\ s # Null /\ 1 # Null
    BY <1>2, ServerAssumption DEF ReplicaInv, TypeOK
  <1>6. h[1] = EmptyState
    <2>1. h[0] = EmptyState
      BY DEF AgreeInv, History
    <2>2. h[1] = effect(h[0], Incoming(s)) /\ h[0] \in State
      BY <1>1, <1>2
    <2> QED BY <1>1, <1>2, <2>1, <2>2, EffectLemma DEF Views
  <1>7. Follows(h, s)'
    <2>1. cursor'[s] = 1 /\ joinedAt'[s] = 1 /\ regAt'[s] = 1 /\ replay'[s] = <<>>
          /\ state_sender'[s] # Null /\ sched'[s] = EmptyState
      BY <1>1, <1>2, <1>3, <1>4, <1>5
    <2> QED BY <2>1, <1>5, <1>6 DEF Follows, Arrives, Buffers, Replays, Serves
  <1>8. \A u \in up : u # s =>
           /\ cursor'[u] = cursor[u] /\ regAt'[u] = regAt[u]
           /\ state_sender'[u] = state_sender[u] /\ sched'[u] = sched[u]
           /\ buffer'[u] = buffer[u] /\ replay'[u] = replay[u]
    BY <1>4 DEF Advance, ReplicaInv, TypeOK
  <1> QED BY <1>1, <1>4, <1>5, <1>7, <1>8, LocalAgree

\* A view that does not concern the server.
LEMMA IgnoredViewAgree ==
  ASSUME ReplicaInv, NEW h, AgreeInv(h), NEW s \in Server, IgnoredView(s)
  PROVE  AgreeInv(h)'
  <1> USE DEF IgnoredView, serverVars
  <1>1. /\ s \in up /\ replay[s] = <<>> /\ h[cursor[s]] \in State
        /\ h[cursor[s] + 1] = effect(h[cursor[s]], log[cursor[s] + 1])
        /\ cursor'[s] = cursor[s] + 1
        /\ cursor[s] < joinedAt[s] => cursor[s] + 1 = joinedAt[s]
        /\ Incoming(s) = log[cursor[s] + 1] /\ Incoming(s) \in Entry /\ WellFormed(Incoming(s))
        /\ Incoming(s).type \in Views /\ cursor[s] \in Nat /\ joinedAt[s] \in Nat
    BY ReceiverLemma
  <1>2. cursor[s] + 1 # joinedAt[s]
    BY FirstLemma
  <1>3. cursor[s] >= joinedAt[s]
    BY <1>1, <1>2
  <1>4. h[cursor[s] + 1] = h[cursor[s]]
    BY <1>1, EffectLemma
  <1>5. Follows(h, s)'
    BY <1>1, <1>3, <1>4, NeutralStep
  <1>6. \A u \in up : u # s => cursor'[u] = cursor[u]
    BY DEF Advance, ReplicaInv, TypeOK
  <1> QED BY <1>1, <1>5, <1>6, LocalAgree

\* A request goes to the end of the buffer, and the path gets longer.
LEMMA BufferAgree ==
  ASSUME ReplicaInv, NEW h, AgreeInv(h), NEW s \in Server, BufferRequest(s)
  PROVE  AgreeInv(h)'
  <1> USE DEF BufferRequest
  <1>1. /\ s \in up /\ replay[s] = <<>> /\ h[cursor[s]] \in State
        /\ cursor'[s] = cursor[s] + 1 /\ cursor[s] \in 0..(Len(log) - 1) /\ Len(log) \in Nat
        /\ Incoming(s).type \in Requests /\ joinedAt[s] \in 1..Len(log)
        /\ Incoming(s).type # "Join" => cursor[s] >= joinedAt[s]
        /\ Buffers(h, s) /\ Serves(h, s)
    BY ReceiverLemma
  <1>2. cursor[s] >= joinedAt[s]
    BY <1>1 DEF Requests
  <1>3. regAt[s] = Null
    BY <1>1 DEF Main, Serves
  <1>4. state_sender[s] = Null /\ Leads(h, h[joinedAt[s]], buffer[s], h[cursor[s]])
    BY <1>1, <1>2, <1>3 DEF Buffers
  <1>5. buffer[s] \in Seq(1..Len(log)) /\ buffer'[s] = Append(buffer[s], cursor[s] + 1)
    BY DEF ReplicaInv, TypeOK
  <1>6. Leads(h, h[joinedAt[s]], buffer'[s], h[cursor[s] + 1])
    BY <1>1, <1>4, <1>5, LeadsAppend
  <1>7. Follows(h, s)'
    <2>1. ~(cursor'[s] < joinedAt'[s])
      BY <1>1, <1>2
    <2>2. Buffers(h, s)'
      BY <1>1, <1>4, <1>6 DEF Buffers, Leads
    <2> QED BY <1>1, <1>3, <2>1, <2>2 DEF Follows, Arrives, Replays, Serves
  <1>8. \A u \in up : u # s => cursor'[u] = cursor[u] /\ buffer'[u] = buffer[u]
    BY DEF Advance, ReplicaInv, TypeOK
  <1> QED BY <1>1, <1>7, <1>8, LocalAgree

\* A server that executes the next message goes where the history goes.
LEMMA ServeStep ==
  ASSUME ReplicaInv, NEW h, AgreeInv(h), NEW s \in Server, NEW types, Receives(s, types),
         regAt[s] # Null, UNCHANGED <<joinedAt, regAt, state_sender, buffer, replay>>,
         cursor'[s] = cursor[s] + 1, sched'[s] = h[cursor[s] + 1]
  PROVE  Follows(h, s)'
  <1>1. replay[s] = <<>> /\ Serves(h, s)
    BY ReceiverLemma
  <1>2. cursor[s] \in Nat /\ joinedAt[s] \in Nat /\ regAt[s] \in Nat
    BY DEF ReplicaInv, TypeOK
  <1>3. cursor[s] + 1 >= regAt[s] /\ cursor[s] + 1 >= joinedAt[s] /\ ~(cursor[s] + 1 < joinedAt[s])
    BY <1>1, <1>2 DEF Serves
  <1> QED BY <1>1, <1>3 DEF Follows, Arrives, Buffers, Replays, Serves

\* The main handlers execute a request and answer it.
LEMMA MainAgree ==
  ASSUME ReplicaInv, NEW h, AgreeInv(h), NEW s \in Server, MainRequest(s)
  PROVE  AgreeInv(h)'
  <1> USE DEF MainRequest
  <1> DEFINE i == cursor[s] + 1
  <1>1. /\ s \in up /\ h[cursor[s]] \in State /\ i \in 1..Len(log) /\ cursor[s] \in Nat
        /\ h[i] = effect(h[cursor[s]], log[i])
        /\ Incoming(s) = log[i] /\ Incoming(s) \in Entry /\ WellFormed(Incoming(s))
        /\ Incoming(s).type \in Requests /\ cursor'[s] = i /\ Serves(h, s)
    BY ReceiverLemma
  <1>2. regAt[s] # Null /\ sched[s] = h[cursor[s]]
    BY <1>1 DEF Main, Serves
  <1>3. sched'[s] = execute(sched[s], log[i])
    BY <1>1 DEF ReplicaInv, TypeOK
  <1>4. sched'[s] = h[i]
    BY <1>1, <1>2, <1>3, EffectLemma
  <1>5. Follows(h, s)'
    BY <1>1, <1>2, <1>4, ServeStep
  <1>6. ASSUME NEW j \in 1..Len(log), NEW a \in answers'[j], a \notin answers[j]
        PROVE  log[j].type \in Requests /\ a = result(h[j - 1], log[j])
    <2>1. Len(answers) = Len(log) /\ answers \in Seq(SUBSET (Task \cup {Null}))
      BY DEF ReplicaInv, TypeOK
    <2>2. answers' = [answers EXCEPT ![i] = answers[i] \cup {result(sched[s], log[i])}]
      BY <1>1
    <2>3. j = i /\ a = result(sched[s], log[i])
      BY <1>6, <2>1, <2>2
    <2>4. i - 1 = cursor[s]
      BY <1>1
    <2> QED BY <1>1, <1>2, <2>3, <2>4
  <1>7. \A u \in up : u # s => cursor'[u] = cursor[u] /\ sched'[u] = sched[u]
    BY DEF Advance, ReplicaInv, TypeOK
  <1> QED BY <1>1, <1>5, <1>6, <1>7, LocalAgree

\* A reported failure is handled by all that serve; none joins meanwhile.
LEMMA FailureAgree ==
  ASSUME ReplicaInv, NEW h, AgreeInv(h), NEW s \in Server, HandleFailure(s)
  PROVE  AgreeInv(h)'
  <1> USE DEF HandleFailure
  <1> DEFINE i == cursor[s] + 1
  <1>1. /\ s \in up /\ h[cursor[s]] \in State
        /\ cursor[s] >= joinedAt[s] => i \in (joinedAt[s] + 1)..Len(log)
        /\ h[i] = effect(h[cursor[s]], log[i])
        /\ Incoming(s) = log[i] /\ Incoming(s) \in Entry /\ WellFormed(Incoming(s))
        /\ Incoming(s).type = "ClientFailure" /\ cursor'[s] = i
        /\ Incoming(s).type # "Join" => cursor[s] >= joinedAt[s]
        /\ NoFailureSince(s) /\ Serves(h, s)
    BY ReceiverLemma
  <1>2. regAt[s] # Null
    BY <1>1 DEF NoFailureSince
  <1>3. Main(s) /\ sched[s] = h[cursor[s]]
    BY <1>1, <1>2 DEF Main, Serves
  <1>4. sched'[s] = shiftTasksFromClient(sched[s], Incoming(s).who)
    BY <1>1, <1>3 DEF ReplicaInv, TypeOK
  <1>5. sched'[s] = h[i]
    BY <1>1, <1>3, <1>4, EffectLemma
  <1>6. Follows(h, s)'
    BY <1>1, <1>2, <1>5, ServeStep
  <1>7. \A u \in up : u # s => cursor'[u] = cursor[u] /\ sched'[u] = sched[u]
    BY DEF Advance, ReplicaInv, TypeOK
  <1> QED BY <1>1, <1>6, <1>7, LocalAgree

(***************************************************************************)
(* A server that serves answers a StateReq with the state at that message, *)
(* which is the state at the join of the server that asked.                *)
(***************************************************************************)
LEMMA StateReqAgree ==
  ASSUME ReplicaInv, NEW h, AgreeInv(h), NEW s \in Server, HandleStateReq(s)
  PROVE  AgreeInv(h)'
  <1> USE DEF HandleStateReq, serverVars
  <1> DEFINE i == cursor[s] + 1
             w == Incoming(s).who
             rep == [to |-> w, from |-> s, image |-> writeObject(sched[s]), sentAt |-> Len(log)]
  <1>1. /\ s \in up /\ replay[s] = <<>> /\ h[cursor[s]] \in State
        /\ h[i] = effect(h[cursor[s]], log[i])
        /\ i \in 1..Len(log) /\ Len(log) \in Nat /\ cursor[s] \in 0..(Len(log) - 1)
        /\ Incoming(s) = log[i] /\ Incoming(s) \in Entry /\ WellFormed(Incoming(s))
        /\ Incoming(s).type = "StateReq" /\ cursor'[s] = i
        /\ Incoming(s).type # "Join" => cursor[s] >= joinedAt[s]
        /\ Serves(h, s)
    BY ReceiverLemma
  <1>2. cursor[s] >= joinedAt[s]
    BY <1>1
  <1>3. h[i] = h[cursor[s]]
    BY <1>1, EffectLemma
  <1>4. Follows(h, s)'
    BY <1>1, <1>2, <1>3, NeutralStep
  <1>5. ASSUME Main(s), w \in up
        PROVE  /\ cursor[w] >= joinedAt[w]
               /\ readObject(writeObject(sched[s])) = h[joinedAt[w]]
    <2>1. sched[s] = h[cursor[s]] /\ sched[s] \in State
      BY <1>1, <1>5 DEF Main, Serves
    <2>2. i \in (cursor[s] + 1)..Len(log)
      BY <1>1
    <2>3. cursor[w] >= joinedAt[w] /\ h[i] = h[joinedAt[w]]
      BY <1>1, <1>5, <2>2 DEF AgreeInv, ReqsCurrent
    <2> QED BY <2>1, <2>3, <1>3, RoundTrip
  <1>6. ASSUME NEW r \in stateReps', r \notin stateReps
        PROVE  /\ r.to \in up /\ cursor[r.to] >= joinedAt[r.to]
               /\ readObject(r.image) = h[joinedAt[r.to]]
    <2>1. Main(s) /\ w \in up /\ r = rep
      BY <1>6
    <2>2. r.to = w /\ r.image = writeObject(sched[s])
      BY <2>1
    <2> HIDE DEF w, rep
    <2> QED BY <2>1, <2>2, <1>5
  <1>7. \A u \in up : u # s => cursor'[u] = cursor[u]
    BY DEF Advance, ReplicaInv, TypeOK
  <1> QED BY <1>1, <1>4, <1>6, <1>7, LocalAgree

\* Positions are numbers, and Null is not.
LEMMA PlaceLemma ==
  ASSUME ReplicaInv, NEW s \in Server
  PROVE  /\ cursor[s] \in Nat /\ joinedAt[s] \in Nat /\ cursor[s] # Null
         /\ Len(log) \in Nat
  <1>1. Len(log) \in Nat /\ cursor[s] \in 0..Len(log) /\ joinedAt[s] \in 0..Len(log)
    BY LenProperties DEF ReplicaInv, TypeOK
  <1>2. cursor[s] \in Nat /\ joinedAt[s] \in Nat
    BY <1>1
  <1> QED BY <1>1, <1>2, ServerAssumption

(***************************************************************************)
(* The first StateRep is installed: the buffer leads from it to where the  *)
(* server is; the others are dropped.  A StateRep that overtakes messages  *)
(* still holds the state at the join: nothing it misses was in the buffer. *)
(***************************************************************************)
LEMMA StateRepAgree ==
  ASSUME Orderly, ReplicaInv, NEW h, AgreeInv(h), NEW s \in Server, NEW r \in stateReps,
         HandleStateRep(s, r)
  PROVE  AgreeInv(h)'
  <1> USE DEF HandleStateRep
  <1>1. /\ s \in up /\ replay[s] = <<>> /\ r.to = s /\ r.from # Null
        /\ cursor[s] \in Nat /\ joinedAt[s] \in Nat /\ cursor[s] # Null
    BY PlaceLemma, ServerAssumption DEF ReplicaInv, TypeOK
  <1>2. cursor[s] >= joinedAt[s] /\ readObject(r.image) = h[joinedAt[s]]
    BY <1>1 DEF AgreeInv, RepsCurrent
  <1>3. Arrives(h, s) /\ Buffers(h, s) /\ Replays(h, s) /\ Serves(h, s)
    BY <1>1 DEF AgreeInv, Follows
  <1>4. CASE state_sender[s] = Null
    <2>1. regAt[s] = Null
      BY <1>3, <1>4 DEF Serves
    <2>2. Leads(h, h[joinedAt[s]], buffer[s], h[cursor[s]])
      BY <1>1, <1>2, <1>3, <2>1 DEF Buffers
    <2>3. /\ state_sender'[s] # Null /\ sched'[s] = h[joinedAt[s]] /\ replay'[s] = buffer[s]
          /\ \A u \in up : u # s => /\ state_sender'[u] = state_sender[u]
                                    /\ sched'[u] = sched[u] /\ replay'[u] = replay[u]
      BY <1>1, <1>2, <1>4 DEF ReplicaInv, TypeOK
    <2>4. CASE buffer[s] = <<>>
      <3>1. regAt'[s] = cursor[s] /\ \A u \in Server : u # s => regAt'[u] = regAt[u]
        BY <1>4, <2>1, <2>4, RegisterAgree DEF ReplicaInv
      <3>2. sched'[s] = h[cursor[s]]
        BY <2>2, <2>3, <2>4 DEF Leads
      <3>3. Follows(h, s)'
        BY <1>1, <1>2, <2>3, <2>4, <3>1, <3>2 DEF Follows, Arrives, Buffers, Replays, Serves
      <3> QED BY <1>1, <2>1, <2>3, <3>1, <3>3, LocalAgree DEF ReplicaInv, TypeOK
    <2>5. CASE buffer[s] # <<>>
      <3>1. UNCHANGED regAt
        BY <1>4, <2>5
      <3>2. Leads(h, sched'[s], replay'[s], h[cursor[s]])
        BY <2>2, <2>3
      <3>3. Follows(h, s)'
        BY <1>1, <1>2, <2>1, <2>3, <2>5, <3>1, <3>2
           DEF Follows, Arrives, Buffers, Replays, Serves, Leads
      <3> QED BY <1>1, <2>1, <2>3, <3>1, <3>3, LocalAgree
    <2> QED BY <2>4, <2>5
  <1>5. CASE state_sender[s] # Null
    <2>1. UNCHANGED <<state_sender, sched, replay, regAt, log, up, cursor, joinedAt, buffer, answers>>
      BY <1>5
    <2>2. Follows(h, s)'
      BY <1>3, <2>1 DEF Follows, Arrives, Buffers, Replays, Serves, Leads
    <2> QED BY <1>1, <2>1, <2>2, LocalAgree
  <1> QED BY <1>4, <1>5

(***************************************************************************)
(* One request of the buffer is executed where the history executed it;    *)
(* after the last the server is where the history is.                      *)
(***************************************************************************)
LEMMA ProcessBufferAgree ==
  ASSUME Orderly, ReplicaInv, NEW h, AgreeInv(h), NEW s \in Server, processBuffer(s)
  PROVE  AgreeInv(h)'
  <1> USE DEF processBuffer
  <1> DEFINE p == replay[s]
             i == Head(p)
  <1>1. /\ s \in up /\ p # <<>> /\ p \in Seq(1..Len(log)) /\ Len(log) \in Nat
        /\ cursor[s] \in Nat /\ joinedAt[s] \in Nat /\ cursor[s] # Null
    BY PlaceLemma DEF ReplicaInv, TypeOK
  <1>2. /\ regAt[s] = Null /\ state_sender[s] # Null /\ cursor[s] >= joinedAt[s]
        /\ Leads(h, sched[s], p, h[cursor[s]])
    BY <1>1 DEF AgreeInv, Follows, Replays
  <1>3. /\ i \in 1..Len(log) /\ sched[s] = h[i - 1]
        /\ Leads(h, h[i], Tail(p), h[cursor[s]])
        /\ Tail(p) = <<>> <=> Len(p) = 1
    <2> HIDE DEF p
    <2> QED BY <1>1, <1>2, LeadsTail
  <1>4. log[i] \in Entry /\ WellFormed(log[i]) /\ log[i].type \in Requests
    <2>1. i = p[1] /\ 1 \in 1..Len(p)
      <3> HIDE DEF p
      <3> QED BY <1>1, EmptySeq, LenProperties
    <2>2. log[i].type \in Requests
      BY <2>1 DEF ReplicaInv, OnlyRequests
    <2> HIDE DEF i
    <2> QED BY <2>2, <1>3, ElementOfSeq DEF ReplicaInv, TypeOK, LogWellFormed
  <1>5. h[i] = execute(h[i - 1], log[i])
    <2> HIDE DEF i
    <2>1. h[i] = effect(h[i - 1], log[i]) /\ h[i - 1] \in State
      BY <1>1, <1>3, SMTT(60) DEF AgreeInv, History
    <2> QED BY <2>1, <1>4, EffectLemma
  <1>6. /\ sched'[s] = h[i] /\ replay'[s] = Tail(p)
        /\ \A u \in up : u # s => sched'[u] = sched[u] /\ replay'[u] = replay[u]
    <2>1. sched'[s] = execute(sched[s], log[i]) /\ replay'[s] = Tail(p)
      BY DEF ReplicaInv, TypeOK
    <2>2. \A u \in up : u # s => sched'[u] = sched[u] /\ replay'[u] = replay[u]
      BY DEF ReplicaInv, TypeOK
    <2> QED BY <2>1, <2>2, <1>3, <1>5
  <1>7. ASSUME NEW j \in 1..Len(log), NEW a \in answers'[j], a \notin answers[j]
        PROVE  log[j].type \in Requests /\ a = result(h[j - 1], log[j])
    <2>1. Len(answers) = Len(log) /\ answers \in Seq(SUBSET (Task \cup {Null}))
      BY DEF ReplicaInv, TypeOK
    <2>2. answers' = [answers EXCEPT ![i] = answers[i] \cup {result(sched[s], log[i])}]
      OBVIOUS
    <2> HIDE DEF i
    <2>3. j = i /\ a = result(sched[s], log[i])
      BY <1>7, <2>1, <2>2
    <2> QED BY <2>3, <1>3, <1>4
  <1> HIDE DEF p, i
  <1>8. CASE Len(p) = 1
    <2>1. regAt'[s] = cursor[s] /\ \A u \in Server : u # s => regAt'[u] = regAt[u]
      BY <1>2, <1>8, RegisterAgree DEF ReplicaInv, p
    <2>2. sched'[s] = h[cursor[s]] /\ replay'[s] = <<>>
      BY <1>3, <1>6, <1>8 DEF Leads
    <2>3. Follows(h, s)'
      BY <1>1, <1>2, <2>1, <2>2 DEF Follows, Arrives, Buffers, Replays, Serves
    <2> QED BY <1>1, <1>2, <1>6, <1>7, <2>1, <2>3, LocalAgree, ZenonT(60) DEF ReplicaInv, TypeOK
  <1>9. CASE Len(p) # 1
    <2>1. UNCHANGED <<regAt, cursor, joinedAt, state_sender>>
      BY <1>9 DEF p
    <2>2. Leads(h, sched'[s], replay'[s], h[cursor'[s]]) /\ replay'[s] # <<>>
      BY <1>3, <1>6, <1>9, <2>1
    <2>3. Replays(h, s)'
      BY <1>2, <2>1, <2>2 DEF Replays, Leads
    <2>4. Follows(h, s)'
      BY <1>1, <1>2, <2>1, <2>2, <2>3 DEF Follows, Arrives, Buffers, Serves
    <2> QED BY <1>1, <1>6, <1>7, <2>1, <2>4, LocalAgree
  <1> QED BY <1>8, <1>9

(***************************************************************************)
(* A server that sees its join asks for the state.  Nothing that matters   *)
(* was ordered in between: the state at its join is the state at the end   *)
(* of the log, and at its StateReq.                                        *)
(***************************************************************************)
LEMMA OtherServerAgree ==
  ASSUME ReplicaInv, NEW h, AgreeInv(h), NEW s \in Server, OtherServer(s)
  PROVE  \E g : AgreeInv(g)'
  <1> USE DEF OtherServer, serverVars
  <1> DEFINE m == message("StateReq", s, Null, {})
             L == Len(log)
  <1>1. /\ m \in Entry /\ WellFormed(m) /\ Order(m) /\ m.type = "StateReq" /\ m.who = s
    BY DEF message, Entry, WellFormed, Views, Requests
  <1> HIDE DEF m
  <1>2. PICK g : g = Grown(h, m)
    OBVIOUS
  <1>3. /\ L \in Nat /\ Len(log') = L + 1 /\ log'[L + 1] = m
        /\ \A i \in 1..L : log'[i] = log[i]
        /\ \A n \in 0..L : g[n] = h[n]
        /\ g[L + 1] = effect(h[L], m)
    BY <1>1, <1>2, GrownFacts
  <1>4. g[L + 1] = h[L]
    <2>1. h[L] \in State
      BY <1>3 DEF AgreeInv, History
    <2> QED BY <2>1, <1>1, <1>3, EffectLemma
  <1>5. /\ s \in up /\ replay[s] = <<>> /\ Arrives(h, s) /\ cursor'[s] = cursor[s] + 1
        /\ cursor[s] \in Nat /\ joinedAt[s] \in 1..L
    <2>1. Receives(s, {"Join"}) /\ Advance(s)
      OBVIOUS
    <2> QED BY <2>1, ReceiverLemma, PlaceLemma
  <1>6. cursor'[s] = joinedAt[s] /\ cursor[s] < joinedAt[s] /\ log[joinedAt[s]].members # {s}
    <2>1. Receives(s, Views) /\ Incoming(s).type = "Join" /\ Incoming(s).who = s /\ ~IsFirst(s)
      BY DEF Receives, Views, Incoming
    <2>2. cursor[s] + 1 = joinedAt[s] /\ log[joinedAt[s]].members # {s}
      BY <2>1, FirstLemma
    <2> QED BY <2>2, <1>5
  <1>7. /\ regAt[s] = Null /\ state_sender[s] = Null /\ buffer[s] = <<>>
        /\ h[joinedAt[s]] = h[L]
    BY <1>5, <1>6 DEF Arrives
  <1>8. m.type \notin Requests \cup Views /\ m.type # "ClientFailure"
    BY <1>1 DEF Requests, Views
  <1>9. \A u \in up : u # s => cursor'[u] = cursor[u]
    BY DEF Advance, ReplicaInv, TypeOK
  <1>10. ASSUME NEW u \in up, u # s
         PROVE  InGroup(u)' /\ ViewsSince(u)' /\ NoFailureSince(u)' /\ Follows(g, u)'
    BY <1>1, <1>2, <1>8, <1>9, <1>10, KeepsPlace DEF Views
  <1>11. InGroup(s)' /\ ViewsSince(s)' /\ NoFailureSince(s)' /\ Follows(g, s)'
    <2>1. InGroup(s)' /\ ViewsSince(s)' /\ NoFailureSince(s)'
      BY <1>1, <1>5, <1>8, KeepsView DEF Views
    <2>2. ~(cursor'[s] < joinedAt[s])
      BY <1>5, <1>6
    <2>3. Arrives(g, s)' /\ Replays(g, s)' /\ Serves(g, s)'
      BY <2>2, <1>5, <1>7 DEF Arrives, Replays, Serves
    <2>4. Buffers(g, s)'
      BY <1>6, <1>7 DEF Buffers, Leads
    <2> QED BY <2>1, <2>3, <2>4 DEF Follows
  <1>12. \A u \in up : joinedAt[u] \in 1..L /\ cursor[u] \in Nat /\ cursor'[u] \in Nat
                       /\ cursor'[u] >= cursor[u]
    <2> TAKE u \in up
    <2>1. u \in Server /\ InGroup(u)
      BY DEF AgreeInv, ReplicaInv, TypeOK
    <2>2. cursor[u] \in Nat /\ joinedAt[u] \in 1..L
      BY <2>1, PlaceLemma DEF InGroup
    <2> QED BY <2>2, <1>5, <1>9
  <1>13. RepsCurrent(g)'
    <2> SUFFICES ASSUME NEW r \in stateReps
                 PROVE  /\ r.to \in up /\ cursor'[r.to] >= joinedAt[r.to]
                        /\ readObject(r.image) = g[joinedAt[r.to]]
      BY DEF RepsCurrent
    <2>1. /\ r.to \in up /\ cursor[r.to] >= joinedAt[r.to]
          /\ readObject(r.image) = h[joinedAt[r.to]]
      BY DEF AgreeInv, RepsCurrent
    <2>2. cursor'[r.to] >= joinedAt[r.to] /\ joinedAt[r.to] \in 0..L
      BY <2>1, <1>3, <1>12
    <2> QED BY <2>1, <2>2, <1>3
  <1>14. ReqsCurrent(g)'
    <2> SUFFICES ASSUME NEW u \in up, NEW i \in (cursor'[u] + 1)..(L + 1),
                        log'[i].type = "StateReq", log'[i].who \in up
                 PROVE  /\ cursor'[log'[i].who] >= joinedAt[log'[i].who]
                        /\ g[i] = g[joinedAt[log'[i].who]]
      BY <1>3 DEF ReqsCurrent
    <2>1. CASE i = L + 1
      <3>1. log'[i].who = s /\ joinedAt[s] \in 0..L
        BY <2>1, <1>1, <1>3, <1>5
      <3>2. cursor'[s] >= joinedAt[s]
        BY <1>5, <1>6
      <3> QED BY <3>1, <3>2, <2>1, <1>3, <1>4, <1>7
    <2>2. CASE i # L + 1
      <3>1. i \in (cursor[u] + 1)..L /\ i \in 1..L /\ i \in 0..L
        BY <2>2, <1>3, <1>12
      <3>2. log'[i] = log[i] /\ g[i] = h[i]
        BY <3>1, <1>3
      <3>3. cursor[log[i].who] >= joinedAt[log[i].who] /\ h[i] = h[joinedAt[log[i].who]]
        BY <3>1, <3>2 DEF AgreeInv, ReqsCurrent
      <3>4. cursor'[log[i].who] >= joinedAt[log[i].who] /\ joinedAt[log[i].who] \in 0..L
        BY <3>2, <3>3, <1>3, <1>12
      <3> QED BY <3>2, <3>3, <3>4, <1>3
    <2> QED BY <2>1, <2>2
  <1>15. History(g)' /\ Survives(g)' /\ AnswersFollow(g)' /\ SomebodyUp'
    BY <1>1, <1>2, <1>5, GrownLemma DEF SomebodyUp
  <1>16. \A u \in up' : InGroup(u)' /\ ViewsSince(u)' /\ NoFailureSince(u)' /\ Follows(g, u)'
    BY <1>10, <1>11
  <1> QED BY <1>13, <1>14, <1>15, <1>16 DEF AgreeInv

-----------------------------------------------------------------------------
(* There is always a history that the servers follow.                      *)

AgreeHistory == \E h : AgreeInv(h)

LEMMA InitAgree == Init => AgreeHistory
  <1> SUFFICES ASSUME Init PROVE AgreeHistory
    OBVIOUS
  <1> USE DEF Init
  <1>1. PICK h : h = [n \in 0..0 |-> EmptyState]
    OBVIOUS
  <1>2. Len(log) = 0 /\ 1..Len(log) = {}
    BY EmptySeq
  <1>3. h \in [0..Len(log) -> State] /\ h[0] = EmptyState
    BY <1>1, <1>2, EmptyStateLemma
  <1>4. History(h) /\ Survives(h) /\ SomebodyUp /\ AnswersFollow(h)
    BY <1>2, <1>3 DEF History, Survives, SomebodyUp, AnswersFollow
  <1>5. RepsCurrent(h) /\ ReqsCurrent(h)
    BY DEF RepsCurrent, ReqsCurrent
  <1> QED BY <1>4, <1>5 DEF AgreeHistory, AgreeInv

LEMMA NextAgree ==
  ASSUME Orderly, ReplicaInv, AgreeHistory, [Next]_vars
  PROVE  AgreeHistory'
  <1> SUFFICES \E g : AgreeInv(g)'
    BY DEF AgreeHistory
  <1>1. PICK h : AgreeInv(h)
    BY DEF AgreeHistory
  <1>2. CASE UNCHANGED vars
    <2>1. AgreeInv(h)'
      BY <1>1, <1>2 DEF vars, serverVars, AgreeInv, History, Survives, SomebodyUp, InGroup,
           ViewsSince, NoFailureSince, Follows, Arrives, Buffers, Replays, Serves, Leads,
           RepsCurrent, ReqsCurrent, AnswersFollow
    <2> QED BY <2>1
  <1>3. CASE Environment
    BY <1>1, <1>3, StartAgree, CrashAgree, RequestAgree, ReportAgree DEF Environment
  <1>4. ASSUME NEW s \in Server, Handle(s) PROVE \E g : AgreeInv(g)'
    BY <1>1, <1>4, FirstServerAgree, OtherServerAgree, IgnoredViewAgree, BufferAgree,
       MainAgree, FailureAgree, StateReqAgree, StateRepAgree, ProcessBufferAgree DEF Handle
  <1> QED BY <1>2, <1>3, <1>4 DEF Next

LEMMA AgreeInvariance ==
  ASSUME Orderly
  PROVE  Spec => [](ReplicaInv /\ AgreeHistory)
  <1>1. Init => ReplicaInv /\ AgreeHistory
    BY InitReplica, InitAgree
  <1>2. ReplicaInv /\ AgreeHistory /\ [Next]_vars => (ReplicaInv /\ AgreeHistory)'
    BY NextReplica, NextAgree
  <1> QED BY <1>1, <1>2, PTL DEF Spec

(***************************************************************************)
(* Servers that serve and have handled the same messages hold the same     *)
(* state: the state of the log's history at that message, whether a server *)
(* computed it from the start or got it by a transfer and its buffer.      *)
(***************************************************************************)
THEOREM ReplicaAgreementHolds ==
  ASSUME Orderly
  PROVE  Spec => []ReplicaAgreement
  <1>1. ASSUME AgreeHistory PROVE ReplicaAgreement
    <2>1. PICK h : AgreeInv(h)
      BY <1>1 DEF AgreeHistory
    <2>2. \A s \in Server : Serving(s) => sched[s] = h[cursor[s]]
      BY <2>1 DEF AgreeInv, Follows, Serves, Serving, Main
    <2> QED BY <2>2 DEF ReplicaAgreement
  <1>2. AgreeHistory => ReplicaAgreement
    BY <1>1
  <1> QED BY <1>2, AgreeInvariance, PTL

(***************************************************************************)
(* All answers to a request are equal, also those a server gives when it   *)
(* replays its buffer: each is the result in the history's state.          *)
(***************************************************************************)
THEOREM AnswersAgreeHold ==
  ASSUME Orderly
  PROVE  Spec => []AnswersAgree
  <1>1. AgreeHistory => AnswersAgree
    BY DEF AgreeHistory, AgreeInv, AnswersFollow, AnswersAgree
  <1> QED BY <1>1, AgreeInvariance, PTL

(***************************************************************************)
(* A task that some server acknowledged stays known to all that serve      *)
(* until it is ended: an acknowledgement is the history's acceptance, and  *)
(* no message but the end of the task makes the history forget it.         *)
(***************************************************************************)
THEOREM AcknowledgedSurviveHolds ==
  ASSUME Orderly
  PROVE  Spec => []AcknowledgedSurvive
  <1>1. ASSUME ReplicaInv, AgreeHistory PROVE AcknowledgedSurvive
    <2>1. PICK h : AgreeInv(h)
      BY <1>1 DEF AgreeHistory
    <2> SUFFICES ASSUME NEW s \in Server, NEW i \in 1..cursor[s], Serving(s),
                        log[i].type = "NewTaskReq", log[i].task \in answers[i],
                        \A j \in i..cursor[s] :
                          ~(log[j].type = "EndTaskReq" /\ log[j].task = log[i].task)
                 PROVE  Known(sched[s], log[i].task)
      BY DEF AcknowledgedSurvive, Known
    <2>2. /\ Len(log) \in Nat /\ cursor[s] \in 0..Len(log) /\ log \in Seq(Entry)
      BY <1>1, LenProperties DEF ReplicaInv, TypeOK
    <2>3. i \in 1..Len(log) /\ cursor[s] \in i..Len(log)
      BY <2>2
    <2>4. log[i].task \in Task /\ log[i].task # Null
      BY <1>1, <2>3, NullAssumption DEF ReplicaInv, LogWellFormed, WellFormed
    <2>5. log[i].task = result(h[i - 1], log[i])
      BY <2>1, <2>3 DEF AgreeInv, AnswersFollow
    <2>6. newTaskOk(h[i - 1], log[i].task)
      BY <2>4, <2>5 DEF result
    <2>7. Known(h[cursor[s]], log[i].task)
      BY <2>1, <2>3, <2>6 DEF AgreeInv, Survives
    <2>8. sched[s] = h[cursor[s]]
      BY <2>1 DEF AgreeInv, Follows, Serves, Serving, Main
    <2> QED BY <2>7, <2>8
  <1>2. ReplicaInv /\ AgreeHistory => AcknowledgedSurvive
    BY <1>1
  <1> QED BY <1>2, AgreeInvariance, PTL

=============================================================================
