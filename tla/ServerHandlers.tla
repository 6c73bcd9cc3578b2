--------------------------- MODULE ServerHandlers ---------------------------
(***************************************************************************)
(* The replicas: a set of ServerHandlers objects in one Spread group.      *)
(*                                                                         *)
(* log is the agreed order of the group "servers": client requests,        *)
(* ClientFailure and StateReq messages and the membership views.  Each     *)
(* server handles a contiguous part of it, from its own join on; cursor    *)
(* says how far it is.  StateRep messages are sent reliable to a private   *)
(* group; with one daemon they arrive between the messages of the log that *)
(* the daemon had ordered before and after them.                           *)
(*                                                                         *)
(* Handlers of a server run on one thread.  registerMainHandlers hands the *)
(* registration to that thread's queue, behind the messages already there: *)
(* regAt is the last message of the log that the old handlers still get.   *)
(***************************************************************************)
EXTENDS SchedulerState, FiniteSets

CONSTANTS Server,      \* the names srv1, srv2, ...
          Hazards,     \* what may happen while a server joins, see below
          Callers,     \* bound: clients that send requests, the others only report
          MaxRequests, \* bound: messages of clients, requests and ClientFailures
          MaxFailures, \* bound: ClientFailure messages among them
          MaxStarts,   \* bound: starts of a server
          MaxCrashes   \* bound: crashes of a server

(***************************************************************************)
(*   "gap"       requests are ordered between a join and its StateReq      *)
(*   "register"  messages are queued when registerMainHandlers is called   *)
(*   "failure"   a client fails while a server is joining                  *)
(*   "alone"     the last server that serves crashes, others are joining   *)
(*   "rejoin"    a server returns before its old StateReq is answered      *)
(*   "overtake"  a StateRep arrives before messages ordered ahead of it    *)
(***************************************************************************)
ASSUME ServerAssumption ==
  /\ IsFiniteSet(Server) /\ Null \notin Server \cup Nat /\ Server \cap Client = {}
  /\ Callers \subseteq Client
  /\ Hazards \subseteq {"gap", "register", "failure", "alone", "rejoin", "overtake"}
  /\ MaxRequests \in Nat /\ MaxFailures \in Nat
  /\ MaxStarts \in Nat /\ MaxCrashes \in Nat

Requests == {"NewTaskReq", "GetTaskReq", "EndTaskReq"}
Views    == {"Join", "Disconnect"}

Entry == [type : Requests \cup Views \cup {"ClientFailure", "StateReq"},
          who : Client \cup Server,
          task : Task \cup {Null},
          members : SUBSET Server]

VARIABLES
  log,          \* the agreed order
  up,           \* servers that run; the members of the group
  cursor,       \* per server: messages of the log handled or skipped
  joinedAt,     \* per server: position of the view of its last join
  regAt,        \* per server: see above; Null before registerMainHandlers
  state_sender, \* per server: SpreadGroup state_sender
  sched,        \* per server: Scheduler scheduler
  buffer,       \* per server: List<RequestInfo> buffer, as positions of the log
  replay,       \* per server: what processBuffer still has to process
  stateReps,    \* StateRep messages on their way
  answers       \* per message of the log: results sent to the client

serverVars == <<regAt, state_sender, sched, buffer, replay>>
vars == <<log, up, cursor, joinedAt, serverVars, stateReps, answers>>

Init ==
  /\ log = <<>> /\ answers = <<>>
  /\ up = {}
  /\ cursor = [s \in Server |-> 0]
  /\ joinedAt = [s \in Server |-> 0]
  /\ regAt = [s \in Server |-> Null]
  /\ state_sender = [s \in Server |-> Null]
  /\ sched = [s \in Server |-> EmptyState]
  /\ buffer = [s \in Server |-> <<>>]
  /\ replay = [s \in Server |-> <<>>]
  /\ stateReps = {}

-----------------------------------------------------------------------------
(* The group.                                                              *)

message(type, who, task, members) ==
  [type |-> type, who |-> who, task |-> task, members |-> members]

\* broadcast: one more message in the agreed order
Order(m) == log' = Append(log, m) /\ answers' = Append(answers, {})

Count(types) == Cardinality({i \in 1..Len(log) : log[i].type \in types})

\* the main handlers handle the next message
Main(s) == regAt[s] # Null /\ cursor[s] >= regAt[s]

Serving(s) == s \in up /\ Main(s) /\ replay[s] = <<>>

\* s has not seen its own join yet, and is not the first server
InGap(s) ==
  s \in up /\ cursor[s] < joinedAt[s] /\ log[joinedAt[s]].members # {s}

(***************************************************************************)
(* A server's process starts: new ServerHandlers, exe, open and join.      *)
(***************************************************************************)
Start(s) ==
  /\ s \notin up /\ Count({"Join"}) < MaxStarts
  /\ "rejoin" \in Hazards \/
       \A u \in up : \A i \in (cursor[u] + 1)..Len(log) :
         ~(log[i].type = "StateReq" /\ log[i].who = s)
  /\ up' = up \cup {s}
  /\ Order(message("Join", s, Null, up \cup {s}))
  /\ cursor' = [cursor EXCEPT ![s] = Len(log)]
  /\ joinedAt' = [joinedAt EXCEPT ![s] = Len(log) + 1]
  /\ regAt' = [regAt EXCEPT ![s] = Null]
  /\ state_sender' = [state_sender EXCEPT ![s] = Null]
  /\ sched' = [sched EXCEPT ![s] = EmptyState]
  /\ buffer' = [buffer EXCEPT ![s] = <<>>]
  /\ replay' = [replay EXCEPT ![s] = <<>>]
  /\ UNCHANGED stateReps

Crash(s) ==
  /\ s \in up /\ Count({"Disconnect"}) < MaxCrashes
  /\ \E u \in up \ {s} : Serving(u) \/ "alone" \in Hazards
  /\ up' = up \ {s}
  /\ Order(message("Disconnect", s, Null, up \ {s}))
  /\ stateReps' = {r \in stateReps : r.to # s}
  /\ UNCHANGED <<cursor, joinedAt, serverVars>>

-----------------------------------------------------------------------------
(* Clients.  A client has one request at a time: it waits for an answer.   *)
(* It ends tasks it was given.                                             *)

Positions(types, c) == {i \in 1..Len(log) : log[i].type \in types /\ log[i].who = c}

Waits(c) == \E i \in Positions(Requests, c) : answers[i] = {}

Failed(c) == Positions({"ClientFailure"}, c) # {}

Given(c) == UNION {answers[i] : i \in Positions({"GetTaskReq"}, c)} \ {Null}

Request(c, type, task) ==
  /\ c \in Callers /\ up # {} /\ ~Waits(c) /\ ~Failed(c)
  /\ Count(Requests \cup {"ClientFailure"}) < MaxRequests
  /\ "gap" \in Hazards \/ ~\E s \in up : InGap(s)
  /\ type = "EndTaskReq" => task \in Given(c)
  /\ type = "GetTaskReq" <=> task = Null
  /\ Order(message(type, c, task, {}))
  /\ UNCHANGED <<up, cursor, joinedAt, serverVars, stateReps>>

\* some other client broadcasts a ClientFailure; several may do so
ReportFailure(c) ==
  /\ up # {} /\ \E d \in Client \ {c} : ~Failed(d)
  /\ Count({"ClientFailure"}) < MaxFailures
  /\ Count(Requests \cup {"ClientFailure"}) < MaxRequests
  /\ "failure" \in Hazards \/ \A s \in up : Serving(s)
  /\ Order(message("ClientFailure", c, Null, {}))
  /\ UNCHANGED <<up, cursor, joinedAt, serverVars, stateReps>>

-----------------------------------------------------------------------------
(* What the handlers do with a request: the new state and the result.      *)

execute(state, m) ==
  CASE m.type = "NewTaskReq" -> newTask(state, m.task)
    [] m.type = "GetTaskReq" -> getAndProcessTask(state, m.who)
    [] m.type = "EndTaskReq" -> endTask(state, m.task)

result(state, m) ==
  CASE m.type = "NewTaskReq" -> IF newTaskOk(state, m.task) THEN m.task ELSE Null
    [] m.type = "GetTaskReq" -> IF getTaskOk(state) THEN Head(state.waiting) ELSE Null
    [] m.type = "EndTaskReq" -> IF endTaskOk(state, m.task) THEN m.task ELSE Null

-----------------------------------------------------------------------------
(* The next message of the log reaches server s.                           *)

Due(s) == {r \in stateReps : r.to = s /\ r.sentAt = cursor[s]}

Receives(s, types) ==
  /\ s \in up /\ replay[s] = <<>> /\ Due(s) = {}
  /\ cursor[s] < Len(log)
  /\ log[cursor[s] + 1].type \in types

Incoming(s) == log[cursor[s] + 1]

Advance(s) == cursor' = [cursor EXCEPT ![s] = @ + 1]

(***************************************************************************)
(* registerMainHandlers, called when the server has handled the log up to  *)
(* position p.  A second registration changes nothing.                     *)
(***************************************************************************)
registerMainHandlers(s, p) ==
  \E q \in p..Len(log) :
    /\ "register" \in Hazards \/ q = p
    /\ regAt' = [regAt EXCEPT ![s] = IF @ = Null THEN q ELSE @]

IsFirst(s) == Cardinality(Incoming(s).members) = 1 /\ state_sender[s] = Null

\* msg.getMembers().length == 1 && this.state_sender == null
FirstServer(s) ==
  /\ Receives(s, Views) /\ IsFirst(s)
  /\ state_sender' = [state_sender EXCEPT
                        ![s] = IF Incoming(s).type = "Join" THEN Incoming(s).who ELSE Null]
  /\ Advance(s)
  /\ registerMainHandlers(s, cursor[s] + 1)
  /\ UNCHANGED <<log, up, joinedAt, sched, buffer, replay, stateReps, answers>>

\* Seeded fault: the joining server does not ask for the state.
OtherServerSilent(s) ==
  /\ Receives(s, {"Join"}) /\ ~IsFirst(s) /\ Incoming(s).who = s
  /\ Advance(s)
  /\ UNCHANGED <<log, up, joinedAt, serverVars, stateReps, answers>>

\* msg.isCausedByJoin() && s.getPrivateGroup().equals(msg.getJoined())
OtherServer(s) ==
  /\ Receives(s, {"Join"}) /\ ~IsFirst(s) /\ Incoming(s).who = s
  /\ Order(message("StateReq", s, Null, {}))
  /\ Advance(s)
  /\ UNCHANGED <<up, joinedAt, serverVars, stateReps>>

IgnoredView(s) ==
  /\ Receives(s, Views) /\ ~IsFirst(s)
  /\ Incoming(s).type = "Join" => Incoming(s).who # s
  /\ Advance(s)
  /\ UNCHANGED <<log, up, joinedAt, serverVars, stateReps, answers>>

\* the handlers of registerSpreadHandlers: buffer.add(new RequestInfo(...))
BufferRequest(s) ==
  /\ Receives(s, Requests) /\ ~Main(s)
  /\ buffer' = [buffer EXCEPT ![s] = Append(@, cursor[s] + 1)]
  /\ Advance(s)
  /\ UNCHANGED <<log, up, joinedAt, regAt, state_sender, sched, replay, stateReps,
                 answers>>

\* the handlers of registerMainHandlers
MainRequest(s) ==
  /\ Receives(s, Requests) /\ Main(s)
  /\ sched' = [sched EXCEPT ![s] = execute(@, Incoming(s))]
  /\ answers' = [answers EXCEPT ![cursor[s] + 1] = @ \cup {result(sched[s], Incoming(s))}]
  /\ Advance(s)
  /\ UNCHANGED <<log, up, joinedAt, regAt, state_sender, buffer, replay, stateReps>>

\* s.handler(ClientFailure.class, ...); without the main handlers it is dropped
HandleFailure(s) ==
  /\ Receives(s, {"ClientFailure"})
  /\ sched' = [sched EXCEPT
                 ![s] = IF Main(s) THEN shiftTasksFromClient(@, Incoming(s).who) ELSE @]
  /\ Advance(s)
  /\ UNCHANGED <<log, up, joinedAt, regAt, state_sender, buffer, replay, stateReps,
                 answers>>

(***************************************************************************)
(* s.handler(StateReq.class, ...): the state is serialized and sent to the *)
(* private group of the asking server, its own included.  Without the main *)
(* handlers the request is dropped; a private group that is gone gets      *)
(* nothing.                                                                *)
(***************************************************************************)
HandleStateReq(s) ==
  /\ Receives(s, {"StateReq"})
  /\ stateReps' = IF Main(s) /\ Incoming(s).who \in up
                    THEN stateReps \cup {[to |-> Incoming(s).who, from |-> s,
                                          image |-> writeObject(sched[s]), sentAt |-> Len(log)]}
                    ELSE stateReps
  /\ Advance(s)
  /\ UNCHANGED <<log, up, joinedAt, serverVars, answers>>

-----------------------------------------------------------------------------
(* State transfer at the joining server.                                   *)

\* Seeded fault: the transferred state is not installed.
HandleStateRepKeeps(s, r) ==
  /\ s \in up /\ replay[s] = <<>>
  /\ r \in stateReps /\ r.to = s
  /\ r.sentAt = cursor[s] \/ "overtake" \in Hazards
  /\ stateReps' = stateReps \ {r}
  /\ state_sender' = [state_sender EXCEPT ![s] = r.from]
  /\ registerMainHandlers(s, cursor[s])
  /\ UNCHANGED <<log, up, cursor, joinedAt, sched, buffer, replay, answers>>

\* Seeded fault: the main handlers are registered and the buffer is not processed.
HandleStateRepNoReplay(s, r) ==
  /\ s \in up /\ replay[s] = <<>>
  /\ r \in stateReps /\ r.to = s
  /\ r.sentAt = cursor[s] \/ "overtake" \in Hazards
  /\ stateReps' = stateReps \ {r}
  /\ state_sender' = [state_sender EXCEPT ![s] = r.from]
  /\ sched' = [sched EXCEPT ![s] = readObject(r.image)]
  /\ registerMainHandlers(s, cursor[s])
  /\ UNCHANGED <<log, up, cursor, joinedAt, buffer, replay, answers>>

\* s.handler(StateRep.class, ...)
HandleStateRep(s, r) ==
  /\ s \in up /\ replay[s] = <<>>
  /\ r \in stateReps /\ r.to = s
  /\ r.sentAt = cursor[s] \/ "overtake" \in Hazards
  /\ stateReps' = stateReps \ {r}
  /\ IF state_sender[s] = Null
       THEN /\ state_sender' = [state_sender EXCEPT ![s] = r.from]
            /\ sched' = [sched EXCEPT ![s] = readObject(r.image)]
            /\ replay' = [replay EXCEPT ![s] = buffer[s]]
            /\ IF buffer[s] = <<>> THEN registerMainHandlers(s, cursor[s])
                                   ELSE UNCHANGED regAt
       ELSE UNCHANGED <<state_sender, sched, replay, regAt>>
  /\ UNCHANGED <<log, up, cursor, joinedAt, buffer, answers>>

(***************************************************************************)
(* processBuffer, one buffered request per step; the server's thread does  *)
(* nothing else meanwhile, and registers the main handlers after the last. *)
(***************************************************************************)
processBuffer(s) ==
  /\ s \in up /\ replay[s] # <<>>
  /\ LET i == Head(replay[s])
     IN  /\ sched' = [sched EXCEPT ![s] = execute(@, log[i])]
         /\ answers' = [answers EXCEPT ![i] = @ \cup {result(sched[s], log[i])}]
  /\ replay' = [replay EXCEPT ![s] = Tail(@)]
  /\ IF Len(replay[s]) = 1 THEN registerMainHandlers(s, cursor[s]) ELSE UNCHANGED regAt
  /\ UNCHANGED <<log, up, cursor, joinedAt, state_sender, buffer, stateReps>>

Handle(s) ==
  \/ FirstServer(s) \/ OtherServer(s) \/ IgnoredView(s)
  \/ BufferRequest(s) \/ MainRequest(s)
  \/ HandleFailure(s) \/ HandleStateReq(s)
  \/ \E r \in stateReps : HandleStateRep(s, r)
  \/ processBuffer(s)

Environment ==
  \/ \E s \in Server : Start(s) \/ Crash(s)
  \/ \E c \in Client : \E type \in Requests : \E task \in Task \cup {Null} :
       Request(c, type, task)
  \/ \E c \in Client : ReportFailure(c)

Next == Environment \/ \E s \in Server : Handle(s)

Spec == Init /\ [][Next]_vars

(***************************************************************************)
(* A server that runs keeps handling what it receives.                     *)
(***************************************************************************)
FairSpec == Spec /\ \A s \in Server : WF_vars(Handle(s))

-----------------------------------------------------------------------------
\* The variables hold values of their types.
TypeOK ==
  /\ log \in Seq(Entry)
  /\ answers \in Seq(SUBSET (Task \cup {Null})) /\ Len(answers) = Len(log)
  /\ up \subseteq Server
  /\ cursor \in [Server -> 0..Len(log)]
  /\ joinedAt \in [Server -> 0..Len(log)]
  /\ regAt \in [Server -> 0..Len(log) \cup {Null}]
  /\ state_sender \in [Server -> Server \cup {Null}]
  /\ sched \in [Server -> State]
  /\ buffer \in [Server -> Seq(1..Len(log))]
  /\ replay \in [Server -> Seq(1..Len(log))]
  /\ stateReps \subseteq [to : Server, from : Server, image : Image, sentAt : 0..Len(log)]

(***************************************************************************)
(* On every replica, at every moment, a URL is in one place: neither the   *)
(* transferred state nor the replay of the buffer on top of it puts a task *)
(* twice in the list or both in the list and the map.                      *)
(***************************************************************************)
ReplicasConsistent == \A s \in Server : Consistent(sched[s])

(***************************************************************************)
(* Servers that run the main handlers and have handled the same messages   *)
(* hold the same state (RelatorioTF.pdf, p. 3: a new server gets the       *)
(* current state "para que possam processar os pedidos da mesma forma que  *)
(* as restantes replicas").                                                *)
(***************************************************************************)
ReplicaAgreement ==
  \A s, u \in Server :
    Serving(s) /\ Serving(u) /\ cursor[s] = cursor[u] => sched[s] = sched[u]

(***************************************************************************)
(* All servers that answer a request send the same result, from the        *)
(* buffer or from the main handlers: the client takes whichever comes      *)
(* first.                                                                  *)
(***************************************************************************)
AnswersAgree ==
  \A i \in 1..Len(log) : \A a, b \in answers[i] : a = b

(***************************************************************************)
(* A task whose submission some server acknowledged is known to every      *)
(* server that serves, until it is ended: it survives crashes and joins    *)
(* (trabtf1718.pdf: "O servico deve garantir que todas as tarefas sao      *)
(* concluidas, apesar da falha de ate f servidores").                      *)
(***************************************************************************)
AcknowledgedSurvive ==
  \A s \in Server : \A i \in 1..cursor[s] :
    /\ Serving(s)
    /\ log[i].type = "NewTaskReq" /\ log[i].task \in answers[i]
    /\ \A j \in i..cursor[s] :
         ~(log[j].type = "EndTaskReq" /\ log[j].task = log[i].task)
    => \/ waitingTasksContains(sched[s], log[i].task)
       \/ processingTasksContains(sched[s], log[i].task)

(***************************************************************************)
(* A server that starts and stays up ends up serving (RelatorioTF.pdf,     *)
(* p. 3: the others "vao de imediato enviar uma resposta (StateRep)" and   *)
(* after the buffer the server is "apta a receber e processar os proximos  *)
(* pedidos").                                                              *)
(***************************************************************************)
JoinerServes == \A s \in Server : s \in up ~> (Serving(s) \/ s \notin up)

=============================================================================
