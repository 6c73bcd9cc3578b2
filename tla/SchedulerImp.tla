---------------------------- MODULE SchedulerImp ----------------------------
(***************************************************************************)
(* One SchedulerImp object driven by the request handlers of its server:   *)
(* an action per handler of ServerHandlers.registerMainHandlers, plus the  *)
(* crash of a client, which is where ClientFailure messages come from.     *)
(*                                                                         *)
(* Requests arrive in the agreed order of the servers' group and run on    *)
(* one thread, so an action is a whole handler.                            *)
(***************************************************************************)
EXTENDS SchedulerState, FiniteSets

CONSTANTS MaxNew,       \* bound: submissions accepted
          MaxNotices,   \* bound: ClientFailure messages outstanding per client
          MaxHeld,      \* tasks a client takes without ending one
          MinSurvivors, \* clients that outlive, and so report, every crash
          ReuseNames    \* a client may connect again under the same name

ASSUME BoundsAssumption ==
  /\ MaxNew \in Nat /\ MaxNotices \in Nat /\ MaxHeld \in Nat
  /\ MinSurvivors \in Nat /\ ReuseNames \in BOOLEAN

VARIABLES
  sched,    \* the object
  held,     \* per client: tasks its program obtained and has not ended
  notices,  \* per client: ClientFailure messages about it not yet handled
  alive     \* clients that are connected

\* History, read by properties only.
VARIABLES
  age,       \* age[t]: rank of the submission of t among all accepted ones
  clock,     \* submissions accepted so far
  back,      \* how many tasks at the front of the list came back from a client
  submitted  \* tasks accepted by newTask and not named by an endTask since

vars == <<sched, held, notices, alive, age, clock, back, submitted>>
envVars == <<notices, alive>>

Init ==
  /\ sched = EmptyState
  /\ held = [c \in Client |-> {}]
  /\ notices = [c \in Client |-> 0]
  /\ alive = Client
  /\ age = [t \in Task |-> 0]
  /\ clock = 0
  /\ back = 0
  /\ submitted = {}

-----------------------------------------------------------------------------
\* s.handler(NewTaskReq.class, ...)
NewTaskReq(url) ==
  /\ alive # {}
  /\ newTaskOk(sched, url) => clock < MaxNew
  /\ sched' = newTask(sched, url)
  /\ IF newTaskOk(sched, url)
       THEN /\ age' = [age EXCEPT ![url] = clock]
            /\ clock' = clock + 1
            /\ submitted' = submitted \cup {url}
       ELSE UNCHANGED <<age, clock, submitted>>
  /\ UNCHANGED <<held, back, envVars>>

\* s.handler(GetTaskReq.class, ...)
GetTaskReq(c) ==
  /\ c \in alive /\ Cardinality(held[c]) < MaxHeld
  /\ sched' = getAndProcessTask(sched, c)
  /\ held' = IF getTaskOk(sched)
               THEN [held EXCEPT ![c] = @ \cup {Head(sched.waiting)}]
               ELSE held
  /\ back' = IF getTaskOk(sched) /\ back > 0 THEN back - 1 ELSE back
  /\ UNCHANGED <<age, clock, submitted, envVars>>

\* s.handler(EndTaskReq.class, ...)
EndTaskReq(c, t) ==
  /\ t \in held[c]
  /\ sched' = endTask(sched, t)
  /\ held' = [held EXCEPT ![c] = @ \ {t}]
  /\ submitted' = submitted \ {t}
  /\ UNCHANGED <<age, clock, back, envVars>>

(***************************************************************************)
(* A client disconnects.  Every other member of the clients' group sees    *)
(* the view and broadcasts a ClientFailure, unless it fails before it      *)
(* does, so n messages are on their way.                                   *)
(***************************************************************************)
ClientCrash(c, n) ==
  /\ c \in alive
  /\ n <= Cardinality(alive \ {c})
  /\ notices[c] + n <= MaxNotices
  /\ notices' = [notices EXCEPT ![c] = @ + n]
  /\ alive' = alive \ {c}
  /\ held' = [held EXCEPT ![c] = {}]
  /\ UNCHANGED <<sched, age, clock, back, submitted>>

\* new RemoteScheduler(id) with the id of a client that is gone
ClientConnect(c) ==
  /\ ReuseNames /\ c \notin alive
  /\ alive' = alive \cup {c}
  /\ UNCHANGED <<sched, held, notices, age, clock, back, submitted>>

\* s.handler(ClientFailure.class, ...)
ClientFailure(c) ==
  /\ notices[c] > 0
  /\ sched' = shiftTasksFromClient(sched, c)
  /\ notices' = [notices EXCEPT ![c] = @ - 1]
  /\ back' = IF tasksOf(sched, c) # {} THEN back + 1 ELSE back
  /\ UNCHANGED <<held, alive, age, clock, submitted>>

Next ==
  \/ \E url \in Task : NewTaskReq(url)
  \/ \E c \in Client : GetTaskReq(c)
  \/ \E c \in Client : \E t \in Task : EndTaskReq(c, t)
  \/ \E c \in Client : \E n \in MinSurvivors..MaxNotices : ClientCrash(c, n)
  \/ \E c \in Client : ClientConnect(c) \/ ClientFailure(c)

Spec == Init /\ [][Next]_vars

-----------------------------------------------------------------------------
\* The variables hold values of their types.
TypeOK ==
  /\ sched \in State
  /\ held \in [Client -> SUBSET Task]
  /\ notices \in [Client -> Nat]
  /\ alive \subseteq Client
  /\ age \in [Task -> Nat]
  /\ clock \in Nat
  /\ back \in 0..Len(sched.waiting)
  /\ submitted \subseteq Task

(***************************************************************************)
(* A URL is in one place at most: once in waiting_tasks, or a key of       *)
(* processing_tasks, never both, whatever newTask, getTask, endTask and    *)
(* shiftTasksFromClient are called with.                                   *)
(***************************************************************************)
OnePlace == Consistent(sched)

(***************************************************************************)
(* An accepted task that nobody has ended is still in waiting_tasks or     *)
(* processing_tasks: getTask, processTask and shiftTasksFromClient never   *)
(* drop it, client failures included.                                      *)
(***************************************************************************)
NothingLost ==
  \A t \in submitted :
    t \in Range(sched.waiting) \/ sched.processing[t] # Null

(***************************************************************************)
(* The list is the tasks taken back from failed clients followed by the    *)
(* tasks never assigned, and those are in order of arrival.                *)
(***************************************************************************)
FreshInOrder ==
  \A i, j \in (back + 1)..Len(sched.waiting) :
    i < j => age[sched.waiting[i]] < age[sched.waiting[j]]

(***************************************************************************)
(* A task never passes from one client to another directly: processTask    *)
(* does not overwrite an assignment.                                       *)
(***************************************************************************)
NoStealing ==
  [][\A t \in Task :
       sched.processing[t] # Null /\ sched'.processing[t] # Null
         => sched'.processing[t] = sched.processing[t]]_vars

(***************************************************************************)
(* The object implements TaskPool: the front part of the list is the set   *)
(* of returned tasks, the rest the queue of fresh ones.                    *)
(***************************************************************************)
Pool == INSTANCE TaskPool WITH
  fresh    <- SubSeq(sched.waiting, back + 1, Len(sched.waiting)),
  returned <- {sched.waiting[i] : i \in 1..back},
  holder   <- sched.processing

PoolSpec == Pool!Spec

-----------------------------------------------------------------------------
(***************************************************************************)
(* shiftTasksFromClient does what its comment says, "Shift client tasks    *)
(* from processing to waiting": none is left in processing_tasks.          *)
(***************************************************************************)
AllTasksShifted ==
  [][\A c \in Client : ClientFailure(c) => tasksOf(sched', c) = {}]_vars

=============================================================================
