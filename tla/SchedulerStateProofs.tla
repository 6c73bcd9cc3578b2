------------------------ MODULE SchedulerStateProofs ------------------------
(***************************************************************************)
(* What each method of SchedulerImp returns and preserves, for any set of  *)
(* tasks and clients and any iteration order of the map.                   *)
(***************************************************************************)
EXTENDS SchedulerState, SequenceTheorems, WellFoundedInduction, TLAPS

(***************************************************************************)
(* A fresh object is a state and is consistent.                            *)
(***************************************************************************)
LEMMA EmptyStateLemma == EmptyState \in State /\ Consistent(EmptyState)
  BY DEF EmptyState, State, Consistent

(***************************************************************************)
(* newTask appends the URL or leaves the object alone; the two membership  *)
(* tests are what keeps the URL in one place.                              *)
(***************************************************************************)
LEMMA NewTaskLemma ==
  ASSUME NEW s \in State, NEW url \in Task
  PROVE  /\ newTask(s, url) \in State
         /\ Consistent(s) => Consistent(newTask(s, url))
         /\ newTask(s, url).processing = s.processing
         /\ newTaskOk(s, url) => newTask(s, url).waiting = Append(s.waiting, url)
         /\ ~newTaskOk(s, url) => newTask(s, url) = s
  <1>1. CASE newTaskOk(s, url)
    <2> DEFINE w == Append(s.waiting, url)
    <2>1. newTask(s, url) = [waiting |-> w, processing |-> s.processing]
      BY <1>1 DEF newTask, State
    <2>2. /\ w \in Seq(Task)
          /\ Len(w) = Len(s.waiting) + 1
          /\ \A i \in 1..Len(s.waiting) : w[i] = s.waiting[i]
          /\ w[Len(s.waiting) + 1] = url
      BY AppendProperties DEF State
    <2>3. /\ \A i \in 1..Len(s.waiting) : s.waiting[i] # url
          /\ s.processing[url] = Null
      BY <1>1 DEF newTaskOk, waitingTasksContains, processingTasksContains, Range, State
    <2>4. Consistent(s) => Consistent(newTask(s, url))
      BY <2>1, <2>2, <2>3 DEF Consistent, State
    <2> QED BY <1>1, <2>1, <2>2, <2>4 DEF State
  <1>2. CASE ~newTaskOk(s, url)
    BY <1>2 DEF newTask
  <1> QED BY <1>1, <1>2

(***************************************************************************)
(* getTask followed by processTask moves the head of the list to the map.  *)
(***************************************************************************)
LEMMA GetTaskLemma ==
  ASSUME NEW s \in State, NEW c \in Client
  PROVE  /\ getAndProcessTask(s, c) \in State
         /\ Consistent(s) => Consistent(getAndProcessTask(s, c))
         /\ getTaskOk(s) =>
              /\ Head(s.waiting) \in Task
              /\ Head(s.waiting) = s.waiting[1]
              /\ Len(s.waiting) > 0
              /\ getAndProcessTask(s, c).waiting = Tail(s.waiting)
              /\ Len(Tail(s.waiting)) = Len(s.waiting) - 1
              /\ \A i \in 1..Len(s.waiting) - 1 : Tail(s.waiting)[i] = s.waiting[i + 1]
              /\ getAndProcessTask(s, c).processing
                   = [s.processing EXCEPT ![Head(s.waiting)] = c]
         /\ ~getTaskOk(s) => getAndProcessTask(s, c) = s
  <1>1. CASE getTaskOk(s)
    <2>1. /\ Head(s.waiting) \in Task
          /\ Head(s.waiting) = s.waiting[1]
          /\ Len(s.waiting) \in Nat \ {0}
          /\ Tail(s.waiting) \in Seq(Task)
          /\ Len(Tail(s.waiting)) = Len(s.waiting) - 1
          /\ \A i \in 1..Len(s.waiting) - 1 : Tail(s.waiting)[i] = s.waiting[i + 1]
      BY <1>1, HeadTailProperties, EmptySeq DEF getTaskOk, State
    <2>2. getAndProcessTask(s, c)
            = [waiting |-> Tail(s.waiting),
               processing |-> [s.processing EXCEPT ![Head(s.waiting)] = c]]
      BY <1>1 DEF getAndProcessTask
    <2>3. Consistent(s) => Consistent(getAndProcessTask(s, c))
      <3> HAVE Consistent(s)
      <3> DEFINE r == getAndProcessTask(s, c)
      <3>1. \A i, j \in 1..Len(r.waiting) : r.waiting[i] = r.waiting[j] => i = j
        BY <2>1, <2>2 DEF Consistent
      <3>2. \A i \in 1..Len(r.waiting) : r.processing[r.waiting[i]] = Null
        <4> TAKE i \in 1..Len(r.waiting)
        <4>1. /\ r.waiting[i] = s.waiting[i + 1]
              /\ i + 1 \in 1..Len(s.waiting)
              /\ 1 \in 1..Len(s.waiting)
          BY <2>1, <2>2
        <4>2. s.waiting[i + 1] # Head(s.waiting)
          BY <2>1, <4>1 DEF Consistent
        <4> QED BY <2>1, <2>2, <4>1, <4>2 DEF Consistent, State
      <3> QED BY <3>1, <3>2 DEF Consistent
    <2> QED BY <1>1, <2>1, <2>2, <2>3 DEF State
  <1>2. CASE ~getTaskOk(s)
    BY <1>2 DEF getAndProcessTask
  <1> QED BY <1>1, <1>2

(***************************************************************************)
(* endTask only takes a key out of the map.                                *)
(***************************************************************************)
LEMMA EndTaskLemma ==
  ASSUME NEW s \in State, NEW t \in Task
  PROVE  /\ endTask(s, t) \in State
         /\ Consistent(s) => Consistent(endTask(s, t))
         /\ endTask(s, t).waiting = s.waiting
         /\ endTask(s, t).processing = [s.processing EXCEPT ![t] = Null]
  <1>1. endTask(s, t) = [waiting |-> s.waiting,
                         processing |-> [s.processing EXCEPT ![t] = Null]]
    BY DEF endTask, State
  <1>2. \A i \in 1..Len(s.waiting) : s.waiting[i] \in Task
    BY ElementOfSeq DEF State
  <1> QED BY <1>1, <1>2 DEF State, Consistent

(***************************************************************************)
(* Every non-empty set of naturals has a least element.                    *)
(***************************************************************************)
LEMMA LeastNatural ==
  ASSUME NEW T, T \subseteq Nat, T # {}
  PROVE  \E m \in T : \A n \in T : m <= n
  <1>1. PICK m \in T : \A n \in T : ~(<<n, m>> \in OpToRel(<, Nat))
    BY WFMin, NatLessThanWellFounded
  <1>2. \A n \in T : ~(n < m)
    BY <1>1 DEF OpToRel
  <1> QED BY <1>2

(***************************************************************************)
(* The iteration meets some entry of the client first.                     *)
(***************************************************************************)
LEMMA FirstTaskLemma ==
  ASSUME NEW s \in State, NEW c \in Client, tasksOf(s, c) # {}
  PROVE  firstTaskOf(s, c) \in tasksOf(s, c)
  <1> DEFINE ranks == {HashRank[t] : t \in tasksOf(s, c)}
  <1>1. ranks \subseteq Nat /\ ranks # {}
    BY HashRankAssumption DEF tasksOf
  <1> HIDE DEF ranks
  <1>2. PICK m \in ranks : \A n \in ranks : m <= n
    BY <1>1, LeastNatural
  <1>3. \E t \in tasksOf(s, c) :
          \A u \in tasksOf(s, c) : HashRank[t] <= HashRank[u]
    BY <1>2 DEF ranks
  <1> QED BY <1>3 DEF firstTaskOf

(***************************************************************************)
(* What a shift of task t of client c leaves behind.                       *)
(***************************************************************************)
ShiftMoves(s, c, t) ==
  LET r == shiftTasksFromClient(s, c)
  IN  /\ s.processing[t] = c
      /\ r.waiting = <<t>> \o s.waiting
      /\ Len(r.waiting) = Len(s.waiting) + 1
      /\ r.waiting[1] = t
      /\ \A i \in 1..Len(s.waiting) : r.waiting[i + 1] = s.waiting[i]
      /\ r.processing = [s.processing EXCEPT ![t] = Null]

(***************************************************************************)
(* shiftTasksFromClient moves one task of the client, if it has any, from  *)
(* the map to the front of the list.                                       *)
(***************************************************************************)
LEMMA ShiftLemma ==
  ASSUME NEW s \in State, NEW c \in Client
  PROVE  /\ shiftTasksFromClient(s, c) \in State
         /\ Consistent(s) => Consistent(shiftTasksFromClient(s, c))
         /\ tasksOf(s, c) # {} =>
              \E t \in Task : ShiftMoves(s, c, t)
         /\ tasksOf(s, c) = {} => shiftTasksFromClient(s, c) = s
  <1>1. CASE tasksOf(s, c) # {}
    <2> DEFINE t == firstTaskOf(s, c)
               w == <<t>> \o s.waiting
    <2>1. t \in Task /\ s.processing[t] = c
      BY <1>1, FirstTaskLemma DEF tasksOf
    <2> HIDE DEF t
    <2>2. /\ w \in Seq(Task)
          /\ Len(w) = Len(s.waiting) + 1
          /\ w[1] = t
          /\ \A i \in 1..Len(s.waiting) : w[i + 1] = s.waiting[i]
      <3>1. <<t>> \in Seq(Task) /\ Len(<<t>>) = 1 /\ <<t>>[1] = t
        BY <2>1
      <3>2. s.waiting \in Seq(Task) /\ Len(s.waiting) \in Nat
        BY LenProperties DEF State
      <3>3. /\ w \in Seq(Task)
            /\ Len(w) = Len(<<t>>) + Len(s.waiting)
            /\ \A i \in 1..Len(<<t>>) + Len(s.waiting) :
                 w[i] = IF i <= Len(<<t>>) THEN <<t>>[i] ELSE s.waiting[i - Len(<<t>>)]
        BY <3>1, <3>2, ConcatProperties
      <3> HIDE DEF w
      <3>4. \A i \in 1..Len(s.waiting) :
               i + 1 \in 1..1 + Len(s.waiting) /\ ~(i + 1 <= 1) /\ (i + 1) - 1 = i
        BY <3>2
      <3> QED BY <3>1, <3>2, <3>3, <3>4
    <2>3. shiftTasksFromClient(s, c)
            = [waiting |-> w, processing |-> [s.processing EXCEPT ![t] = Null]]
      BY <1>1 DEF shiftTasksFromClient, t
    <2> HIDE DEF w
    <2>4. Consistent(s) => Consistent(shiftTasksFromClient(s, c))
      <3> HAVE Consistent(s)
      <3> DEFINE r == shiftTasksFromClient(s, c)
      <3>1. Len(s.waiting) \in Nat /\ \A i \in 1..Len(s.waiting) : s.waiting[i] # t
        BY <2>1, NullAssumption, LenProperties DEF Consistent, State
      <3>2. \A i \in 1..Len(w) : i = 1 \/ (i - 1 \in 1..Len(s.waiting) /\ w[i] = s.waiting[i - 1])
        BY <2>2, <3>1
      <3>3. \A i, j \in 1..Len(w) : w[i] = w[j] => i = j
        <4> SUFFICES ASSUME NEW i \in 1..Len(w), NEW j \in 1..Len(w), w[i] = w[j]
                     PROVE  i = j
          OBVIOUS
        <4>1. CASE i = 1 /\ j = 1
          BY <4>1
        <4>2. CASE i = 1 /\ j # 1
          BY <4>2, <2>2, <3>1, <3>2
        <4>3. CASE i # 1 /\ j = 1
          BY <4>3, <2>2, <3>1, <3>2
        <4>4. CASE i # 1 /\ j # 1
          <5>1. /\ i - 1 \in 1..Len(s.waiting) /\ w[i] = s.waiting[i - 1]
                /\ j - 1 \in 1..Len(s.waiting) /\ w[j] = s.waiting[j - 1]
            BY <4>4, <3>2
          <5>2. i - 1 = j - 1
            BY <5>1 DEF Consistent
          <5>3. Len(w) \in Nat
            BY <2>2, <3>1
          <5> QED BY <5>2, <5>3
        <4> QED BY <4>1, <4>2, <4>3, <4>4
      <3>4. \A i \in 1..Len(w) : [s.processing EXCEPT ![t] = Null][w[i]] = Null
        <4> TAKE i \in 1..Len(w)
        <4>1. CASE i = 1
          BY <4>1, <2>1, <2>2 DEF State
        <4>2. CASE i # 1
          <5>1. i - 1 \in 1..Len(s.waiting) /\ w[i] = s.waiting[i - 1]
            BY <4>2, <3>2
          <5>2. /\ s.waiting[i - 1] \in Task
                /\ s.waiting[i - 1] # t
                /\ s.processing[s.waiting[i - 1]] = Null
            BY <5>1, <3>1, ElementOfSeq DEF Consistent, State
          <5> QED BY <5>1, <5>2 DEF State
        <4> QED BY <4>1, <4>2
      <3> QED BY <2>3, <3>3, <3>4 DEF Consistent
    <2>5. shiftTasksFromClient(s, c) \in State
      <3>1. [s.processing EXCEPT ![t] = Null] \in [Task -> Client \cup {Null}]
        BY DEF State
      <3> QED BY <2>2, <2>3, <3>1 DEF State
    <2>6. \E u \in Task : ShiftMoves(s, c, u)
      <3> USE <2>1
      <3> WITNESS t \in Task
      <3>1. w = <<t>> \o s.waiting
        BY DEF w
      <3> QED BY ONLY <2>1, <2>2, <2>3, <3>1 DEF ShiftMoves
    <2> QED BY <1>1, <2>4, <2>5, <2>6
  <1>2. CASE tasksOf(s, c) = {}
    BY <1>2 DEF shiftTasksFromClient
  <1> QED BY <1>1, <1>2

(***************************************************************************)
(* What a server writes in a StateRep, the joining server reads back.      *)
(***************************************************************************)
LEMMA RoundTrip ==
  ASSUME NEW s \in State
  PROVE  writeObject(s) \in Image /\ readObject(writeObject(s)) = s
  <1> DEFINE b == writeObject(s)
  <1>1. b \in Image
    BY DEF writeObject, Image, State
  <1>2. ASSUME NEW t \in Task, s.processing[t] # Null
        PROVE  readObject(b).processing[t] = s.processing[t]
    <2>1. <<t, s.processing[t]>> \in b.entries
      BY <1>2 DEF writeObject
    <2>2. \A e \in b.entries : e[1] = t => e[2] = s.processing[t]
      BY DEF writeObject
    <2>3. \E e \in b.entries : e[1] = t
      BY <2>1
    <2> HIDE DEF b
    <2> QED BY <2>2, <2>3 DEF readObject
  <1>3. ASSUME NEW t \in Task, s.processing[t] = Null
        PROVE  readObject(b).processing[t] = Null
    <2>1. \A e \in b.entries : e[1] # t
      BY <1>3 DEF writeObject
    <2> QED BY <2>1 DEF readObject
  <1>4. readObject(b).processing = s.processing
    <2>1. /\ s.processing \in [Task -> Client \cup {Null}]
          /\ DOMAIN readObject(b).processing = Task
      BY DEF State, readObject
    <2>2. \A t \in Task : readObject(b).processing[t] = s.processing[t]
      BY <1>2, <1>3
    <2>3. readObject(b).processing = [t \in Task |-> readObject(b).processing[t]]
      BY DEF readObject
    <2> QED BY <2>1, <2>2, <2>3
  <1>5. readObject(b) = [waiting |-> s.waiting, processing |-> readObject(b).processing]
    BY DEF readObject, writeObject
  <1> QED BY <1>1, <1>4, <1>5 DEF State

=============================================================================
