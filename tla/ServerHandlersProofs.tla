------------------------ MODULE ServerHandlersProofs ------------------------
(***************************************************************************)
(* What holds of the replicas for any number of servers, clients, tasks    *)
(* and requests, and whatever happens while a server joins: Hazards may be *)
(* any set.                                                                *)
(***************************************************************************)
EXTENDS ServerHandlers, SchedulerStateProofs

\* Requests and failures name clients, views and StateReq messages servers.
WellFormed(m) ==
  /\ m.type \in Requests \cup {"ClientFailure"} => m.who \in Client
  /\ m.type \in {"NewTaskReq", "EndTaskReq"} => m.task \in Task
  /\ m.type \in Views \cup {"StateReq"} => m.who \in Server

LogWellFormed == \A i \in 1..Len(log) : WellFormed(log[i])

\* The buffer and what is left of its replay are requests.
OnlyRequests(positions) ==
  \A s \in Server : \A i \in 1..Len(positions[s]) :
    log[positions[s][i]].type \in Requests

(***************************************************************************)
(* A StateRep on its way holds a consistent state: it is the state of a    *)
(* server, written, and readObject gives back what writeObject took.       *)
(***************************************************************************)
ImagesConsistent ==
  \A r \in stateReps :
    readObject(r.image) \in State /\ Consistent(readObject(r.image))

ReplicaInv ==
  /\ TypeOK /\ ReplicasConsistent
  /\ LogWellFormed /\ OnlyRequests(buffer) /\ OnlyRequests(replay)
  /\ ImagesConsistent

StateRepMsg(n) == [to : Server, from : Server, image : Image, sentAt : 0..n]

USE ServerAssumption, NullAssumption

-----------------------------------------------------------------------------
(***************************************************************************)
(* A request takes a consistent state to a consistent state, by the lemma  *)
(* of the method its handler calls, and its result is a task or null.      *)
(***************************************************************************)
LEMMA ExecuteLemma ==
  ASSUME NEW st \in State, NEW m \in Entry, m.type \in Requests, WellFormed(m)
  PROVE  /\ execute(st, m) \in State
         /\ Consistent(st) => Consistent(execute(st, m))
         /\ result(st, m) \in Task \cup {Null}
  <1>1. CASE m.type = "NewTaskReq"
    <2>1. m.task \in Task
      BY <1>1 DEF WellFormed
    <2>2. execute(st, m) = newTask(st, m.task) /\ result(st, m) \in {m.task, Null}
      BY <1>1 DEF execute, result
    <2> QED BY <2>1, <2>2, NewTaskLemma
  <1>2. CASE m.type = "GetTaskReq"
    <2>1. m.who \in Client
      BY <1>2 DEF WellFormed, Requests
    <2>2. execute(st, m) = getAndProcessTask(st, m.who)
      BY <1>2 DEF execute
    <2>3. result(st, m) = IF getTaskOk(st) THEN Head(st.waiting) ELSE Null
      BY <1>2 DEF result
    <2> QED BY <2>1, <2>2, <2>3, GetTaskLemma
  <1>3. CASE m.type = "EndTaskReq"
    <2>1. m.task \in Task
      BY <1>3 DEF WellFormed
    <2>2. execute(st, m) = endTask(st, m.task) /\ result(st, m) \in {m.task, Null}
      BY <1>3 DEF execute, result
    <2> QED BY <2>1, <2>2, EndTaskLemma
  <1> QED BY <1>1, <1>2, <1>3 DEF Requests

(***************************************************************************)
(* A new message at the end of the agreed order changes nothing before it. *)
(***************************************************************************)
LEMMA OrderLemma ==
  ASSUME ReplicaInv, NEW m \in Entry, WellFormed(m), Order(m)
  PROVE  /\ log' \in Seq(Entry) /\ Len(log') = Len(log) + 1 /\ Len(log) \in Nat
         /\ answers' \in Seq(SUBSET (Task \cup {Null})) /\ Len(answers') = Len(log')
         /\ LogWellFormed'
         /\ \A i \in 1..Len(log) : log'[i] = log[i]
  <1>1. log \in Seq(Entry) /\ answers \in Seq(SUBSET (Task \cup {Null}))
    BY DEF ReplicaInv, TypeOK
  <1>2. Len(log) = Len(answers)
    BY DEF ReplicaInv, TypeOK
  <1>3. /\ log' \in Seq(Entry) /\ Len(log') = Len(log) + 1 /\ Len(log) \in Nat
        /\ \A i \in 1..Len(log) : log'[i] = log[i]
        /\ log'[Len(log) + 1] = m
    BY <1>1, AppendProperties, LenProperties DEF Order
  <1>4. answers' \in Seq(SUBSET (Task \cup {Null})) /\ Len(answers') = Len(answers) + 1
    BY <1>1, AppendProperties DEF Order
  <1>5. LogWellFormed'
    <2> SUFFICES ASSUME NEW i \in 1..Len(log') PROVE WellFormed(log'[i])
      BY DEF LogWellFormed
    <2>1. CASE i \in 1..Len(log)
      BY <2>1, <1>3 DEF ReplicaInv, LogWellFormed
    <2>2. CASE i = Len(log) + 1
      BY <2>2, <1>3
    <2> QED BY <2>1, <2>2, <1>3
  <1> QED BY <1>2, <1>3, <1>4, <1>5

(***************************************************************************)
(* Positions stay positions when the order grows.                          *)
(***************************************************************************)
LEMMA PositionsGrow ==
  ASSUME NEW n \in Nat, NEW p, p \in Seq(1..n)
  PROVE  p \in Seq(1..(n + 1))
  <1>1. p \in [1..Len(p) -> 1..n] /\ Len(p) \in Nat
    BY LenProperties
  <1>2. p \in [1..Len(p) -> 1..(n + 1)]
    BY <1>1
  <1> QED BY <1>1, <1>2

(***************************************************************************)
(* What the servers hold stays well typed when a message is ordered, and   *)
(* buffered requests stay the requests they were.                          *)
(***************************************************************************)
LEMMA OrderKeeps ==
  ASSUME ReplicaInv, NEW m \in Entry, WellFormed(m), Order(m)
  PROVE  /\ cursor \in [Server -> 0..Len(log')]
         /\ joinedAt \in [Server -> 0..Len(log')]
         /\ regAt \in [Server -> 0..Len(log') \cup {Null}]
         /\ buffer \in [Server -> Seq(1..Len(log'))]
         /\ replay \in [Server -> Seq(1..Len(log'))]
         /\ stateReps \subseteq StateRepMsg(Len(log'))
         /\ \A s \in Server : \A i \in 1..Len(buffer[s]) :
              log'[buffer[s][i]].type \in Requests
         /\ \A s \in Server : \A i \in 1..Len(replay[s]) :
              log'[replay[s][i]].type \in Requests
  <1>1. Len(log) \in Nat /\ Len(log') = Len(log) + 1
    BY OrderLemma
  <1>2. /\ cursor \in [Server -> 0..Len(log')] /\ joinedAt \in [Server -> 0..Len(log')]
        /\ regAt \in [Server -> 0..Len(log') \cup {Null}]
    BY <1>1 DEF ReplicaInv, TypeOK
  <1>3. /\ buffer \in [Server -> Seq(1..Len(log'))]
        /\ replay \in [Server -> Seq(1..Len(log'))]
    BY <1>1, PositionsGrow DEF ReplicaInv, TypeOK
  <1>4. stateReps \subseteq StateRepMsg(Len(log'))
    BY <1>1 DEF ReplicaInv, TypeOK, StateRepMsg
  <1>5. ASSUME NEW s \in Server
        PROVE  /\ \A i \in 1..Len(buffer[s]) : buffer[s][i] \in 1..Len(log)
               /\ \A i \in 1..Len(replay[s]) : replay[s][i] \in 1..Len(log)
    <2>1. buffer[s] \in Seq(1..Len(log)) /\ replay[s] \in Seq(1..Len(log))
      BY DEF ReplicaInv, TypeOK
    <2> QED BY <2>1, ElementOfSeq
  <1>6. \A i \in 1..Len(log) : log'[i] = log[i]
    BY OrderLemma
  <1> QED BY <1>2, <1>3, <1>4, <1>5, <1>6 DEF ReplicaInv, OnlyRequests

-----------------------------------------------------------------------------
(* One lemma per action or group of actions with the same effect.          *)

\* Nobody is up, nothing is ordered, all objects are new.
LEMMA InitReplica == Init => ReplicaInv
  <1> SUFFICES ASSUME Init PROVE ReplicaInv
    OBVIOUS
  <1> USE DEF Init
  <1>1. EmptyState \in State /\ Consistent(EmptyState)
    BY EmptyStateLemma
  <1>2. TypeOK
    BY <1>1 DEF TypeOK
  <1>3. ReplicasConsistent
    BY <1>1 DEF ReplicasConsistent
  <1>4. LogWellFormed /\ OnlyRequests(buffer) /\ OnlyRequests(replay) /\ ImagesConsistent
    BY DEF LogWellFormed, OnlyRequests, ImagesConsistent
  <1> QED BY <1>2, <1>3, <1>4 DEF ReplicaInv

(***************************************************************************)
(* A server that starts has a new object and empty lists.                  *)
(***************************************************************************)
LEMMA StartReplica ==
  ASSUME ReplicaInv, NEW s \in Server, Start(s)
  PROVE  ReplicaInv'
  <1> USE DEF Start
  <1> DEFINE m == message("Join", s, Null, up \cup {s})
  <1>1. m \in Entry /\ WellFormed(m) /\ Order(m)
    BY DEF ReplicaInv, TypeOK, message, Entry, WellFormed, Views, Requests
  <1> HIDE DEF m
  <1>2. EmptyState \in State /\ Consistent(EmptyState)
    BY EmptyStateLemma
  <1>3. TypeOK'
    <2>1. /\ log' \in Seq(Entry) /\ Len(log') = Len(log) + 1 /\ Len(log) \in Nat
          /\ answers' \in Seq(SUBSET (Task \cup {Null})) /\ Len(answers') = Len(log')
      BY <1>1, OrderLemma
    <2>2. /\ cursor' \in [Server -> 0..Len(log')]
          /\ joinedAt' \in [Server -> 0..Len(log')]
          /\ regAt' \in [Server -> 0..Len(log') \cup {Null}]
      BY <1>1, <2>1, OrderKeeps
    <2>3. buffer' \in [Server -> Seq(1..Len(log'))] /\ replay' \in [Server -> Seq(1..Len(log'))]
      BY <1>1, OrderKeeps
    <2>4. /\ up' \subseteq Server /\ state_sender' \in [Server -> Server \cup {Null}]
          /\ sched' \in [Server -> State]
      BY <1>2 DEF ReplicaInv, TypeOK
    <2>5. stateReps' \subseteq StateRepMsg(Len(log'))
      BY <1>1, OrderKeeps
    <2> QED BY <2>1, <2>2, <2>3, <2>4, <2>5 DEF TypeOK, StateRepMsg
  <1>4. ReplicasConsistent'
    BY <1>2 DEF ReplicaInv, TypeOK, ReplicasConsistent
  <1>5. LogWellFormed'
    BY <1>1, OrderLemma
  <1>6. OnlyRequests(buffer)' /\ OnlyRequests(replay)'
    <2>1. /\ buffer'[s] = <<>> /\ replay'[s] = <<>>
          /\ \A u \in Server : u # s => buffer'[u] = buffer[u] /\ replay'[u] = replay[u]
      BY DEF ReplicaInv, TypeOK
    <2>2. \A u \in Server : u # s =>
            /\ \A i \in 1..Len(buffer[u]) : log'[buffer[u][i]].type \in Requests
            /\ \A i \in 1..Len(replay[u]) : log'[replay[u][i]].type \in Requests
      BY <1>1, OrderKeeps
    <2>3. 1..Len(buffer'[s]) = {} /\ 1..Len(replay'[s]) = {}
      BY <2>1
    <2> QED BY <2>1, <2>2, <2>3 DEF OnlyRequests
  <1>7. ImagesConsistent'
    BY DEF ReplicaInv, ImagesConsistent
  <1> QED BY <1>3, <1>4, <1>5, <1>6, <1>7 DEF ReplicaInv

(***************************************************************************)
(* Crashes, client requests, reports of failures and the StateReq of a     *)
(* joining server only add a message to the order.                         *)
(***************************************************************************)
LEMMA OnlyOrders ==
  ASSUME ReplicaInv, NEW m \in Entry, WellFormed(m), Order(m),
         up' \subseteq Server, stateReps' \subseteq stateReps,
         cursor' \in [Server -> 0..Len(log')],
         UNCHANGED <<joinedAt, serverVars>>
  PROVE  ReplicaInv'
  <1> USE DEF serverVars
  <1>1. TypeOK'
    BY OrderLemma, OrderKeeps DEF ReplicaInv, TypeOK, StateRepMsg
  <1>2. ReplicasConsistent' /\ ImagesConsistent'
    BY DEF ReplicaInv, ReplicasConsistent, ImagesConsistent
  <1>3. LogWellFormed'
    BY OrderLemma
  <1>4. OnlyRequests(buffer)' /\ OnlyRequests(replay)'
    BY OrderKeeps DEF OnlyRequests
  <1> QED BY <1>1, <1>2, <1>3, <1>4 DEF ReplicaInv

(***************************************************************************)
(* Starts, crashes and what clients send keep the invariant.               *)
(***************************************************************************)
LEMMA EnvironmentReplica ==
  ASSUME ReplicaInv, Environment
  PROVE  ReplicaInv'
  <1> USE DEF message, Entry, WellFormed, Views, Requests
  <1>1. ASSUME NEW s \in Server, Start(s) PROVE ReplicaInv'
    BY <1>1, StartReplica
  <1>2. ASSUME NEW s \in Server, Crash(s) PROVE ReplicaInv'
    <2> USE <1>2 DEF Crash
    <2> DEFINE m == message("Disconnect", s, Null, up \ {s})
    <2>1. m \in Entry /\ WellFormed(m) /\ Order(m) /\ up' \subseteq Server
      BY DEF ReplicaInv, TypeOK
    <2> HIDE DEF m
    <2>2. cursor' \in [Server -> 0..Len(log')]
      BY <2>1, OrderKeeps
    <2> QED BY <2>1, <2>2, OnlyOrders
  <1>3. ASSUME NEW c \in Client, NEW type \in Requests, NEW task \in Task \cup {Null},
               Request(c, type, task)
        PROVE  ReplicaInv'
    <2> USE <1>3 DEF Request
    <2> DEFINE m == message(type, c, task, {})
    <2>1. m \in Entry /\ WellFormed(m) /\ Order(m) /\ up' \subseteq Server
      BY DEF ReplicaInv, TypeOK
    <2> HIDE DEF m
    <2>2. cursor' \in [Server -> 0..Len(log')]
      BY <2>1, OrderKeeps
    <2> QED BY <2>1, <2>2, OnlyOrders
  <1>4. ASSUME NEW c \in Client, ReportFailure(c) PROVE ReplicaInv'
    <2> USE <1>4 DEF ReportFailure
    <2> DEFINE m == message("ClientFailure", c, Null, {})
    <2>1. m \in Entry /\ WellFormed(m) /\ Order(m) /\ up' \subseteq Server
      BY DEF ReplicaInv, TypeOK
    <2> HIDE DEF m
    <2>2. cursor' \in [Server -> 0..Len(log')]
      BY <2>1, OrderKeeps
    <2> QED BY <2>1, <2>2, OnlyOrders
  <1> QED BY <1>1, <1>2, <1>3, <1>4 DEF Environment

(***************************************************************************)
(* The message a server receives is one of the log, and the log has room   *)
(* for one more step of its cursor.                                        *)
(***************************************************************************)
LEMMA IncomingLemma ==
  ASSUME ReplicaInv, NEW s \in Server, NEW types, Receives(s, types)
  PROVE  /\ cursor[s] \in Nat /\ Len(log) \in Nat /\ cursor[s] + 1 \in 1..Len(log)
         /\ Incoming(s) \in Entry /\ WellFormed(Incoming(s))
         /\ Incoming(s).type \in types
         /\ Advance(s) => cursor' \in [Server -> 0..Len(log)]
  <1>1. log \in Seq(Entry) /\ cursor[s] \in 0..Len(log)
    BY DEF ReplicaInv, TypeOK
  <1>2. Len(log) \in Nat
    BY <1>1, LenProperties
  <1>3. cursor[s] \in Nat /\ cursor[s] + 1 \in 1..Len(log)
    BY <1>1, <1>2 DEF Receives
  <1>4. Incoming(s) \in Entry
    BY <1>1, <1>3, ElementOfSeq DEF Incoming
  <1>5. WellFormed(Incoming(s)) /\ Incoming(s).type \in types
    BY <1>3 DEF ReplicaInv, LogWellFormed, Receives, Incoming
  <1>6. Advance(s) => cursor' \in [Server -> 0..Len(log)]
    BY <1>3, <1>2 DEF Advance, ReplicaInv, TypeOK
  <1> QED BY <1>2, <1>3, <1>4, <1>5, <1>6

\* The registration takes effect at a position of the log.
LEMMA RegisterLemma ==
  ASSUME TypeOK, NEW s \in Server, NEW p \in Nat, registerMainHandlers(s, p)
  PROVE  regAt' \in [Server -> 0..Len(log) \cup {Null}]
  <1>1. Len(log) \in Nat
    BY LenProperties DEF TypeOK
  <1>2. PICK q \in p..Len(log) : regAt' = [regAt EXCEPT ![s] = IF @ = Null THEN q ELSE @]
    BY DEF registerMainHandlers
  <1> QED BY <1>1, <1>2 DEF TypeOK

\* Views: the first server starts to serve, a joining one asks for the state.
LEMMA ViewReplica ==
  ASSUME ReplicaInv, NEW s \in Server,
         FirstServer(s) \/ OtherServer(s) \/ IgnoredView(s)
  PROVE  ReplicaInv'
  <1>1. CASE FirstServer(s)
    <2> USE <1>1 DEF FirstServer
    <2>1. /\ cursor' \in [Server -> 0..Len(log)] /\ cursor[s] + 1 \in Nat
          /\ Incoming(s).type = "Join" => Incoming(s).who \in Server
      BY IncomingLemma DEF WellFormed, Views
    <2>2. regAt' \in [Server -> 0..Len(log) \cup {Null}]
      BY <2>1, RegisterLemma DEF ReplicaInv
    <2>3. state_sender' \in [Server -> Server \cup {Null}]
      BY <2>1 DEF ReplicaInv, TypeOK
    <2>4. TypeOK'
      BY <2>1, <2>2, <2>3 DEF ReplicaInv, TypeOK
    <2> QED BY <2>4 DEF ReplicaInv, ReplicasConsistent, LogWellFormed, OnlyRequests,
                        ImagesConsistent
  <1>2. CASE OtherServer(s)
    <2> USE <1>2 DEF OtherServer
    <2> DEFINE m == message("StateReq", s, Null, {})
    <2>1. m \in Entry /\ WellFormed(m) /\ Order(m)
      BY DEF message, Entry, WellFormed, Views, Requests
    <2> HIDE DEF m
    <2>2. cursor' \in [Server -> 0..Len(log)] /\ Len(log) \in Nat
      BY IncomingLemma
    <2>3. Len(log') = Len(log) + 1
      BY <2>1, OrderLemma
    <2>4. cursor' \in [Server -> 0..Len(log')] /\ up' \subseteq Server
      BY <2>2, <2>3 DEF ReplicaInv, TypeOK
    <2> QED BY <2>1, <2>4, OnlyOrders
  <1>3. CASE IgnoredView(s)
    <2> USE <1>3 DEF IgnoredView, serverVars
    <2>1. cursor' \in [Server -> 0..Len(log)]
      BY IncomingLemma
    <2>2. TypeOK'
      BY <2>1 DEF ReplicaInv, TypeOK
    <2> QED BY <2>2 DEF ReplicaInv, ReplicasConsistent, LogWellFormed, OnlyRequests,
                        ImagesConsistent
  <1> QED BY <1>1, <1>2, <1>3

\* A request is put in the buffer.
LEMMA BufferReplica ==
  ASSUME ReplicaInv, NEW s \in Server, BufferRequest(s)
  PROVE  ReplicaInv'
  <1> USE DEF BufferRequest
  <1> DEFINE p == cursor[s] + 1
             b == Append(buffer[s], p)
  <1>1. p \in 1..Len(log) /\ log[p].type \in Requests /\ cursor' \in [Server -> 0..Len(log)]
    BY IncomingLemma DEF Incoming
  <1>2. buffer[s] \in Seq(1..Len(log)) /\ Len(buffer[s]) \in Nat
    BY LenProperties DEF ReplicaInv, TypeOK
  <1>3. /\ b \in Seq(1..Len(log)) /\ Len(b) = Len(buffer[s]) + 1
        /\ b[Len(buffer[s]) + 1] = p
        /\ \A i \in 1..Len(buffer[s]) : b[i] = buffer[s][i]
    BY <1>1, <1>2, AppendProperties
  <1>4. buffer'[s] = b /\ \A u \in Server : u # s => buffer'[u] = buffer[u]
    BY DEF ReplicaInv, TypeOK
  <1>5. buffer' \in [Server -> Seq(1..Len(log))]
    BY <1>3 DEF ReplicaInv, TypeOK
  <1>6. TypeOK'
    BY <1>1, <1>5 DEF ReplicaInv, TypeOK
  <1>7. OnlyRequests(buffer)'
    <2>1. ASSUME NEW i \in 1..Len(b) PROVE log[b[i]].type \in Requests
      <3>1. CASE i \in 1..Len(buffer[s])
        BY <3>1, <1>3 DEF ReplicaInv, OnlyRequests
      <3>2. CASE i = Len(buffer[s]) + 1
        BY <3>2, <1>1, <1>3
      <3> QED BY <3>1, <3>2, <1>2, <1>3
    <2> HIDE DEF b
    <2> QED BY <2>1, <1>4 DEF ReplicaInv, OnlyRequests
  <1> QED BY <1>6, <1>7 DEF ReplicaInv, ReplicasConsistent, LogWellFormed, OnlyRequests,
                            ImagesConsistent

(***************************************************************************)
(* A request is executed and its result recorded, by the main handlers or  *)
(* out of the buffer.                                                      *)
(***************************************************************************)
LEMMA ExecuteKeeps ==
  ASSUME ReplicaInv, NEW s \in Server, NEW i \in 1..Len(log), log[i].type \in Requests,
         sched' = [sched EXCEPT ![s] = execute(@, log[i])],
         answers' = [answers EXCEPT ![i] = @ \cup {result(sched[s], log[i])}],
         UNCHANGED log
  PROVE  /\ sched' \in [Server -> State] /\ ReplicasConsistent'
         /\ answers' \in Seq(SUBSET (Task \cup {Null})) /\ Len(answers') = Len(log')
  <1>1. log \in Seq(Entry) /\ sched[s] \in State /\ Consistent(sched[s])
    BY DEF ReplicaInv, TypeOK, ReplicasConsistent
  <1>2. log[i] \in Entry /\ WellFormed(log[i])
    BY <1>1, ElementOfSeq DEF ReplicaInv, LogWellFormed
  <1>3. /\ execute(sched[s], log[i]) \in State /\ Consistent(execute(sched[s], log[i]))
        /\ result(sched[s], log[i]) \in Task \cup {Null}
    BY <1>1, <1>2, ExecuteLemma
  <1>4. sched' \in [Server -> State] /\ ReplicasConsistent'
    BY <1>3 DEF ReplicaInv, TypeOK, ReplicasConsistent
  <1>5. /\ answers \in Seq(SUBSET (Task \cup {Null})) /\ i \in 1..Len(answers)
        /\ Len(answers) = Len(log)
    BY DEF ReplicaInv, TypeOK
  <1>6. answers[i] \cup {result(sched[s], log[i])} \in SUBSET (Task \cup {Null})
    BY <1>3, <1>5, ElementOfSeq
  <1>7. answers' \in Seq(SUBSET (Task \cup {Null})) /\ Len(answers') = Len(answers)
    BY <1>5, <1>6, ExceptSeq
  <1> QED BY <1>4, <1>5, <1>7

\* The main handlers execute the next request.
LEMMA MainReplica ==
  ASSUME ReplicaInv, NEW s \in Server, MainRequest(s)
  PROVE  ReplicaInv'
  <1> USE DEF MainRequest
  <1>1. /\ cursor[s] + 1 \in 1..Len(log) /\ log[cursor[s] + 1].type \in Requests
        /\ cursor' \in [Server -> 0..Len(log)]
    BY IncomingLemma DEF Incoming
  <1>2. /\ sched' \in [Server -> State] /\ ReplicasConsistent'
        /\ answers' \in Seq(SUBSET (Task \cup {Null})) /\ Len(answers') = Len(log')
    BY <1>1, ExecuteKeeps DEF Incoming
  <1>3. TypeOK'
    BY <1>1, <1>2 DEF ReplicaInv, TypeOK
  <1> QED BY <1>2, <1>3 DEF ReplicaInv, LogWellFormed, OnlyRequests, ImagesConsistent

\* A ClientFailure moves one task of the client, or is dropped.
LEMMA FailureReplica ==
  ASSUME ReplicaInv, NEW s \in Server, HandleFailure(s)
  PROVE  ReplicaInv'
  <1> USE DEF HandleFailure
  <1> DEFINE st == shiftTasksFromClient(sched[s], Incoming(s).who)
  <1>1. Incoming(s).who \in Client /\ cursor' \in [Server -> 0..Len(log)]
    BY IncomingLemma DEF WellFormed
  <1>2. sched[s] \in State /\ Consistent(sched[s])
    BY DEF ReplicaInv, TypeOK, ReplicasConsistent
  <1>3. st \in State /\ Consistent(st)
    BY <1>1, <1>2, ShiftLemma
  <1>4. sched' = [sched EXCEPT ![s] = IF Main(s) THEN st ELSE sched[s]]
    BY DEF ReplicaInv, TypeOK
  <1> HIDE DEF st
  <1>5. sched' \in [Server -> State] /\ ReplicasConsistent'
    BY <1>2, <1>3, <1>4 DEF ReplicaInv, TypeOK, ReplicasConsistent
  <1>6. TypeOK'
    BY <1>1, <1>5 DEF ReplicaInv, TypeOK
  <1> QED BY <1>5, <1>6 DEF ReplicaInv, LogWellFormed, OnlyRequests, ImagesConsistent

\* The state that is sent reads back as the state of the sender.
LEMMA StateReqReplica ==
  ASSUME ReplicaInv, NEW s \in Server, HandleStateReq(s)
  PROVE  ReplicaInv'
  <1> USE DEF HandleStateReq, serverVars
  <1> DEFINE b == writeObject(sched[s])
             r == [to |-> Incoming(s).who, from |-> s, image |-> b, sentAt |-> Len(log)]
  <1>1. /\ Incoming(s).who \in Server /\ cursor' \in [Server -> 0..Len(log)]
        /\ Len(log) \in Nat
    BY IncomingLemma DEF WellFormed
  <1>2. sched[s] \in State /\ Consistent(sched[s])
    BY DEF ReplicaInv, TypeOK, ReplicasConsistent
  <1>3. b \in Image /\ readObject(b) = sched[s]
    BY <1>2, RoundTrip
  <1>4. stateReps' \subseteq stateReps \cup {r}
    OBVIOUS
  <1> HIDE DEF b
  <1>5. r \in StateRepMsg(Len(log)) /\ r.image = b
    BY <1>1, <1>3 DEF StateRepMsg
  <1> HIDE DEF r
  <1>6. stateReps' \subseteq StateRepMsg(Len(log))
    BY <1>4, <1>5 DEF ReplicaInv, TypeOK, StateRepMsg
  <1>7. TypeOK'
    BY <1>1, <1>6 DEF ReplicaInv, TypeOK, StateRepMsg
  <1>8. ImagesConsistent'
    BY <1>2, <1>3, <1>4, <1>5 DEF ReplicaInv, ImagesConsistent
  <1> QED BY <1>7, <1>8 DEF ReplicaInv, ReplicasConsistent, LogWellFormed, OnlyRequests

\* The joining server installs the state and starts on its buffer.
LEMMA StateRepReplica ==
  ASSUME ReplicaInv, NEW s \in Server, NEW r \in stateReps, HandleStateRep(s, r)
  PROVE  ReplicaInv'
  <1> USE DEF HandleStateRep
  <1>1. /\ r.from \in Server /\ cursor[s] \in Nat
        /\ readObject(r.image) \in State /\ Consistent(readObject(r.image))
    BY DEF ReplicaInv, TypeOK, ImagesConsistent
  <1>2. sched' \in [Server -> State] /\ ReplicasConsistent'
    <2>1. CASE sched' = [sched EXCEPT ![s] = readObject(r.image)]
      BY <2>1, <1>1 DEF ReplicaInv, TypeOK, ReplicasConsistent
    <2>2. CASE UNCHANGED sched
      BY <2>2 DEF ReplicaInv, TypeOK, ReplicasConsistent
    <2> QED BY <2>1, <2>2
  <1>3. regAt' \in [Server -> 0..Len(log) \cup {Null}]
    <2>1. CASE registerMainHandlers(s, cursor[s])
      BY <2>1, <1>1, RegisterLemma DEF ReplicaInv
    <2>2. CASE UNCHANGED regAt
      BY <2>2 DEF ReplicaInv, TypeOK
    <2> QED BY <2>1, <2>2
  <1>4. /\ replay' \in [Server -> Seq(1..Len(log))]
        /\ state_sender' \in [Server -> Server \cup {Null}]
    <2>1. CASE /\ state_sender' = [state_sender EXCEPT ![s] = r.from]
               /\ replay' = [replay EXCEPT ![s] = buffer[s]]
      <3>1. buffer[s] \in Seq(1..Len(log))
        BY DEF ReplicaInv, TypeOK
      <3> QED BY <2>1, <3>1, <1>1 DEF ReplicaInv, TypeOK
    <2>2. CASE UNCHANGED <<state_sender, replay>>
      BY <2>2 DEF ReplicaInv, TypeOK
    <2> QED BY <2>1, <2>2
  <1>5. TypeOK'
    BY <1>2, <1>3, <1>4 DEF ReplicaInv, TypeOK
  <1>6. OnlyRequests(replay)'
    BY ZenonT(60) DEF ReplicaInv, TypeOK, OnlyRequests
  <1>7. OnlyRequests(buffer)' /\ LogWellFormed' /\ ImagesConsistent'
    BY DEF ReplicaInv, OnlyRequests, LogWellFormed, ImagesConsistent
  <1> QED BY <1>2, <1>5, <1>6, <1>7 DEF ReplicaInv

\* One request of the buffer is executed.
LEMMA ProcessBufferReplica ==
  ASSUME ReplicaInv, NEW s \in Server, processBuffer(s)
  PROVE  ReplicaInv'
  <1> USE DEF processBuffer
  <1> DEFINE p == replay[s]
  <1>1. p \in Seq(1..Len(log)) /\ p # <<>> /\ cursor[s] \in Nat
    BY DEF ReplicaInv, TypeOK
  <1>2. /\ Head(p) = p[1] /\ 1 \in 1..Len(p) /\ p[1] \in 1..Len(log)
        /\ Tail(p) \in Seq(1..Len(log)) /\ Len(Tail(p)) = Len(p) - 1
        /\ \A i \in 1..Len(Tail(p)) : Tail(p)[i] = p[i + 1] /\ i + 1 \in 1..Len(p)
    <2> HIDE DEF p
    <2>1. /\ Tail(p) \in Seq(1..Len(log)) /\ Len(Tail(p)) = Len(p) - 1
          /\ \A i \in 1..Len(Tail(p)) : Tail(p)[i] = p[i + 1]
      BY <1>1, HeadTailProperties
    <2>2. Len(p) \in Nat /\ Len(p) > 0 /\ Head(p) = p[1]
      BY <1>1, EmptySeq, LenProperties
    <2> QED BY <2>1, <2>2, <1>1, ElementOfSeq
  <1>3. log[Head(p)].type \in Requests
    BY <1>2 DEF ReplicaInv, OnlyRequests
  <1>4. /\ sched' \in [Server -> State] /\ ReplicasConsistent'
        /\ answers' \in Seq(SUBSET (Task \cup {Null})) /\ Len(answers') = Len(log')
    BY <1>2, <1>3, ExecuteKeeps
  <1>5. regAt' \in [Server -> 0..Len(log) \cup {Null}]
    <2>1. CASE registerMainHandlers(s, cursor[s])
      BY <2>1, <1>1, RegisterLemma DEF ReplicaInv
    <2>2. CASE UNCHANGED regAt
      BY <2>2 DEF ReplicaInv, TypeOK
    <2> QED BY <2>1, <2>2
  <1>6. /\ replay'[s] = Tail(p) /\ \A u \in Server : u # s => replay'[u] = replay[u]
        /\ replay' \in [Server -> Seq(1..Len(log))]
    BY <1>2 DEF ReplicaInv, TypeOK
  <1>7. TypeOK'
    BY <1>4, <1>5, <1>6 DEF ReplicaInv, TypeOK
  <1>8. OnlyRequests(replay)'
    <2> DEFINE only(u) == \A i \in 1..Len(replay'[u]) : log[replay'[u][i]].type \in Requests
    <2>1. only(s)
      <3>1. \A i \in 1..Len(p) : log[p[i]].type \in Requests
        BY DEF ReplicaInv, OnlyRequests
      <3>2. \A i \in 1..Len(Tail(p)) : log[Tail(p)[i]].type \in Requests
        <4> HIDE DEF p, processBuffer, only
        <4> QED BY ONLY <3>1, <1>2
      <3>3. replay'[s] = Tail(p)
        BY <1>6
      <3> QED BY ONLY <3>2, <3>3
    <2>2. ASSUME NEW u \in Server, u # s PROVE only(u)
      BY <2>2, <1>6 DEF ReplicaInv, OnlyRequests
    <2>3. \A u \in Server : only(u)
      BY <2>1, <2>2
    <2>4. log' = log
      OBVIOUS
    <2> QED BY <2>3, <2>4 DEF OnlyRequests
  <1> QED BY <1>4, <1>7, <1>8 DEF ReplicaInv, OnlyRequests, LogWellFormed, ImagesConsistent

-----------------------------------------------------------------------------
(***************************************************************************)
(* Every step of the group, the clients and the handlers keeps the         *)
(* invariant, so it always holds.                                          *)
(***************************************************************************)
LEMMA NextReplica ==
  ASSUME ReplicaInv, [Next]_vars
  PROVE  ReplicaInv'
  <1>1. CASE UNCHANGED vars
    BY <1>1 DEF vars, serverVars, ReplicaInv, TypeOK, ReplicasConsistent, LogWellFormed,
                OnlyRequests, ImagesConsistent
  <1>2. CASE Environment
    BY <1>2, EnvironmentReplica
  <1>3. ASSUME NEW s \in Server, Handle(s) PROVE ReplicaInv'
    BY <1>3, ViewReplica, BufferReplica, MainReplica, FailureReplica, StateReqReplica,
       StateRepReplica, ProcessBufferReplica DEF Handle
  <1> QED BY <1>1, <1>2, <1>3 DEF Next

\* The invariant holds in every reachable state, for every set of hazards.
LEMMA ReplicaInvariance == Spec => []ReplicaInv
  <1>1. ReplicaInv /\ [Next]_vars => ReplicaInv'
    BY NextReplica
  <1> QED BY <1>1, InitReplica, PTL DEF Spec

(***************************************************************************)
(* The variables of the replicas keep their types: what a server reads     *)
(* from a StateRep is a state, and it never handles a message that the     *)
(* group has not ordered.                                                  *)
(***************************************************************************)
THEOREM ReplicaTypeCorrect == Spec => []TypeOK
  <1>1. ReplicaInv => TypeOK
    BY DEF ReplicaInv
  <1> QED BY <1>1, ReplicaInvariance, PTL

(***************************************************************************)
(* No replica ever holds a task in two places, whatever goes wrong while   *)
(* servers join, crash and return: the state it installs was consistent    *)
(* where it was written, and every request of the buffer, also one that is *)
(* applied a second time, keeps it so.                                     *)
(***************************************************************************)
THEOREM ReplicasConsistentHolds == Spec => []ReplicasConsistent
  <1>1. ReplicaInv => ReplicasConsistent
    BY DEF ReplicaInv
  <1> QED BY <1>1, ReplicaInvariance, PTL

=============================================================================
