--------------------------- MODULE SchedulerState ---------------------------
(***************************************************************************)
(* The value a SchedulerImp object holds and its synchronized methods, as  *)
(* functions from one value to the next.  The object is confined to the    *)
(* single-threaded context of its server, so every method is one step.     *)
(*                                                                         *)
(*   waiting     LinkedList<Task> waiting_tasks                            *)
(*   processing  Map<Task, String> processing_tasks; Null for a task that  *)
(*               is not a key of the map                                   *)
(*                                                                         *)
(* Task.equals and Task.hashCode compare the URL alone, so a task is its   *)
(* URL.  The map's value is the name of the client's private group.        *)
(***************************************************************************)
EXTENDS Naturals, Sequences, Functions

CONSTANTS Task,     \* the URLs
          Client,   \* the private groups of the clients
          Null,     \* Java's null
          HashRank  \* position of a task in the iteration order of the HashMap

(***************************************************************************)
(* The hash of a URL is the same in every JVM and the table keeps its      *)
(* initial 16 buckets up to 12 entries, so below that size, and without    *)
(* two tasks in one bucket, all replicas iterate in one fixed order.       *)
(***************************************************************************)
ASSUME NullAssumption == Null \notin Client /\ Null \notin Task
ASSUME HashRankAssumption ==
  /\ HashRank \in [Task -> Nat]
  /\ \A t, u \in Task : HashRank[t] = HashRank[u] => t = u

State == [waiting : Seq(Task), processing : [Task -> Client \cup {Null}]]

\* public SchedulerImp()
EmptyState == [waiting |-> <<>>, processing |-> [t \in Task |-> Null]]

waitingTasksContains(s, url) == url \in Range(s.waiting)

processingTasksContains(s, url) == s.processing[url] # Null

(***************************************************************************)
(* No URL twice in the list, and none both in the list and in the map.     *)
(***************************************************************************)
Consistent(s) ==
  /\ \A i, j \in 1..Len(s.waiting) : s.waiting[i] = s.waiting[j] => i = j
  /\ \A i \in 1..Len(s.waiting) : s.processing[s.waiting[i]] = Null

-----------------------------------------------------------------------------
\* Seeded fault: the submission test looks at the waiting list only.
newTaskOkWaitingOnly(s, url) == ~waitingTasksContains(s, url)

\* newTask returns (and the handler answers true) or throws RepeatedTaskException
newTaskOk(s, url) ==
  ~waitingTasksContains(s, url) /\ ~processingTasksContains(s, url)

\* Seeded fault: a submission goes to the front of the list.
newTaskFirst(s, url) ==
  IF newTaskOk(s, url) THEN [s EXCEPT !.waiting = <<url>> \o @] ELSE s

newTask(s, url) ==
  IF newTaskOk(s, url) THEN [s EXCEPT !.waiting = Append(@, url)] ELSE s

-----------------------------------------------------------------------------
\* getTask returns, or LinkedList.removeFirst throws NoSuchElementException
getTaskOk(s) == s.waiting # <<>>

\* Seeded fault: processTask is not called for the task handed out.
getTaskForgets(s, client) ==
  IF getTaskOk(s) THEN [s EXCEPT !.waiting = Tail(@)] ELSE s

\* Seeded fault: the map's value is the task and not the client.
getTaskSwapped(s, client) ==
  IF getTaskOk(s)
    THEN [waiting    |-> Tail(s.waiting),
          processing |-> [s.processing EXCEPT ![Head(s.waiting)] = Head(s.waiting)]]
    ELSE s

(***************************************************************************)
(* The handlers always call getTask and processTask together.              *)
(***************************************************************************)
getAndProcessTask(s, client) ==
  IF getTaskOk(s)
    THEN [waiting    |-> Tail(s.waiting),
          processing |-> [s.processing EXCEPT ![Head(s.waiting)] = client]]
    ELSE s

-----------------------------------------------------------------------------
(***************************************************************************)
(* endTask declares NoSuchElementException but HashMap.remove never throws *)
(* it and its result is ignored: the handlers always answer true.          *)
(***************************************************************************)
endTaskOk(s, t) == TRUE

endTask(s, t) == [s EXCEPT !.processing[t] = Null]

-----------------------------------------------------------------------------
tasksOf(s, client) == {t \in Task : s.processing[t] = client}

(***************************************************************************)
(* The first entry of the client that the iteration meets.                 *)
(***************************************************************************)
firstTaskOf(s, client) ==
  CHOOSE t \in tasksOf(s, client) :
    \A u \in tasksOf(s, client) : HashRank[t] <= HashRank[u]

\* Seeded fault: the task is put back at the end of the list.
shiftTasksToEnd(s, client) ==
  IF tasksOf(s, client) = {} THEN s
  ELSE LET t == firstTaskOf(s, client)
       IN  [waiting    |-> Append(s.waiting, t),
            processing |-> [s.processing EXCEPT ![t] = Null]]

\* Seeded fault: the task goes back to the list and its entry stays in the map.
shiftTasksKeepsEntry(s, client) ==
  IF tasksOf(s, client) = {} THEN s
  ELSE [s EXCEPT !.waiting = <<firstTaskOf(s, client)>> \o @]

(***************************************************************************)
(* The loop removes from the map it iterates over.  After the first match  *)
(* the iterator's next() throws ConcurrentModificationException; if the    *)
(* match was the last entry, hasNext() ends the loop.  In both cases one   *)
(* task, the first match, has moved to the front of the list.              *)
(***************************************************************************)
shiftTasksFromClient(s, client) ==
  IF tasksOf(s, client) = {} THEN s
  ELSE LET t == firstTaskOf(s, client)
       IN  [waiting    |-> <<t>> \o s.waiting,
            processing |-> [s.processing EXCEPT ![t] = Null]]

-----------------------------------------------------------------------------
(***************************************************************************)
(* The object as a StateRep carries it: the tasks of the list in order,    *)
(* then the entries of the map.                                            *)
(***************************************************************************)
Image == [tasks : Seq(Task), entries : SUBSET (Task \X Client)]

\* Seeded fault: the map is not written.
writeObjectListOnly(s) == [tasks |-> s.waiting, entries |-> {}]

writeObject(s) ==
  [tasks   |-> s.waiting,
   entries |-> {<<t, s.processing[t]>> : t \in {u \in Task : s.processing[u] # Null}}]

\* each entry is put in an empty map; no two entries have the same task
readObject(b) ==
  [waiting    |-> b.tasks,
   processing |-> [t \in Task |->
                     IF \E e \in b.entries : e[1] = t
                       THEN (CHOOSE e \in b.entries : e[1] = t)[2]
                       ELSE Null]]

=============================================================================
