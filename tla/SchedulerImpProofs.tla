------------------------- MODULE SchedulerImpProofs -------------------------
(***************************************************************************)
(* The safety properties of SchedulerImp for any tasks, clients, iteration *)
(* order and bounds, and its refinement of TaskPool.                       *)
(***************************************************************************)
EXTENDS PlainUsers, SchedulerStateProofs, FiniteSetTheorems

(***************************************************************************)
(* A task that waits for the first time was submitted in the past.  This   *)
(* is what makes the order of arrival inductive: the next submission is    *)
(* younger than everything in the list.                                    *)
(***************************************************************************)
FreshIsPast ==
  \A i \in (back + 1)..Len(sched.waiting) : age[sched.waiting[i]] < clock

IInv == TypeOK /\ OnePlace /\ NothingLost /\ FreshInOrder /\ FreshIsPast

USE BoundsAssumption

(***************************************************************************)
(* The object starts empty, so all parts of the invariant hold.            *)
(***************************************************************************)
LEMMA InitIInv == Init => IInv
  <1> SUFFICES ASSUME Init PROVE IInv
    OBVIOUS
  <1>1. sched \in State /\ OnePlace /\ sched.waiting = <<>>
    BY EmptyStateLemma DEF Init, OnePlace, EmptyState
  <1>2. Len(sched.waiting) = 0
    BY <1>1
  <1>3. TypeOK
    BY <1>1, <1>2 DEF Init, TypeOK
  <1> QED BY <1>1, <1>2, <1>3 DEF Init, IInv, NothingLost, FreshInOrder, FreshIsPast

(***************************************************************************)
(* Facts about the list that every action below uses.                      *)
(***************************************************************************)
LEMMA WaitingFacts ==
  ASSUME TypeOK
  PROVE  /\ Len(sched.waiting) \in Nat
         /\ \A i \in 1..Len(sched.waiting) : sched.waiting[i] \in Task
         /\ back \in Nat /\ back <= Len(sched.waiting)
         /\ DOMAIN sched.waiting = 1..Len(sched.waiting)
  BY ElementOfSeq, LenProperties DEF TypeOK, State

(***************************************************************************)
(* A submission, accepted or refused, keeps the invariant.                 *)
(***************************************************************************)
LEMMA NewTaskReqIInv ==
  ASSUME IInv, NEW url \in Task, NewTaskReq(url)
  PROVE  IInv'
  <1> USE DEF IInv
  <1>0. sched \in State
    BY DEF TypeOK
  <1>1. CASE newTaskOk(sched, url)
    <2>1. /\ sched' \in State /\ OnePlace'
          /\ sched'.processing = sched.processing
          /\ sched'.waiting = Append(sched.waiting, url)
      BY <1>0, <1>1, NewTaskLemma DEF NewTaskReq, OnePlace
    <2>2. /\ Len(sched'.waiting) = Len(sched.waiting) + 1
          /\ \A i \in 1..Len(sched.waiting) : sched'.waiting[i] = sched.waiting[i]
          /\ sched'.waiting[Len(sched.waiting) + 1] = url
          /\ DOMAIN sched'.waiting = 1..Len(sched'.waiting)
      BY <1>0, <2>1, AppendProperties, LenProperties DEF State
    <2>3. /\ age' = [age EXCEPT ![url] = clock] /\ clock' = clock + 1
          /\ submitted' = submitted \cup {url}
          /\ UNCHANGED <<held, back, notices, alive>>
      BY <1>1 DEF NewTaskReq, envVars
    <2>4. TypeOK'
      BY <2>1, <2>2, <2>3, WaitingFacts DEF TypeOK
    <2>5. \A i \in 1..Len(sched.waiting) : age'[sched'.waiting[i]] = age[sched.waiting[i]]
      <3>1. \A i \in 1..Len(sched.waiting) : sched.waiting[i] # url
        BY <1>1, WaitingFacts DEF newTaskOk, waitingTasksContains, Range
      <3> QED BY <2>2, <2>3, <3>1, WaitingFacts DEF TypeOK
    <2>6. age'[sched'.waiting[Len(sched.waiting) + 1]] = clock
      BY <2>2, <2>3 DEF TypeOK
    <2>7. clock \in Nat /\ \A t \in Task : age[t] \in Nat
      BY DEF TypeOK
    <2>8. FreshIsPast'
      <3> SUFFICES ASSUME NEW i \in (back' + 1)..Len(sched'.waiting)
                   PROVE  age'[sched'.waiting[i]] < clock'
        BY DEF FreshIsPast
      <3>1. CASE i = Len(sched.waiting) + 1
        BY <3>1, <2>3, <2>6, <2>7
      <3>2. CASE i # Len(sched.waiting) + 1
        <4>1. i \in (back + 1)..Len(sched.waiting) /\ i \in 1..Len(sched.waiting)
          BY <3>2, <2>2, <2>3, WaitingFacts
        <4>2. age'[sched'.waiting[i]] = age[sched.waiting[i]] /\ age[sched.waiting[i]] < clock
          BY <4>1, <2>5 DEF FreshIsPast
        <4>3. age[sched.waiting[i]] \in Nat
          BY <4>1, <2>7, WaitingFacts
        <4> QED BY <4>2, <4>3, <2>3, <2>7
      <3> QED BY <3>1, <3>2
    <2>9. FreshInOrder'
      <3> SUFFICES ASSUME NEW i \in (back' + 1)..Len(sched'.waiting),
                          NEW j \in (back' + 1)..Len(sched'.waiting), i < j
                   PROVE  age'[sched'.waiting[i]] < age'[sched'.waiting[j]]
        BY DEF FreshInOrder
      <3>1. i \in (back + 1)..Len(sched.waiting) /\ i \in 1..Len(sched.waiting)
        BY <2>2, <2>3, WaitingFacts
      <3>2. CASE j = Len(sched.waiting) + 1
        BY <3>1, <3>2, <2>5, <2>6 DEF FreshIsPast
      <3>3. CASE j # Len(sched.waiting) + 1
        <4>1. j \in (back + 1)..Len(sched.waiting) /\ j \in 1..Len(sched.waiting)
          BY <3>3, <2>2, <2>3, WaitingFacts
        <4> QED BY <3>1, <4>1, <2>5 DEF FreshInOrder
      <3> QED BY <3>2, <3>3
    <2>10. NothingLost'
      <3> SUFFICES ASSUME NEW t \in submitted'
                   PROVE  t \in Range(sched'.waiting) \/ sched'.processing[t] # Null
        BY DEF NothingLost
      <3>1. CASE t = url
        <4>1. Len(sched.waiting) + 1 \in DOMAIN sched'.waiting
          BY <2>2, WaitingFacts
        <4> QED BY <3>1, <4>1, <2>2 DEF Range
      <3>2. CASE t \in submitted
        <4>1. CASE t \in Range(sched.waiting)
          <5>1. PICK i \in 1..Len(sched.waiting) : t = sched.waiting[i]
            BY <4>1, WaitingFacts DEF Range
          <5>2. i \in DOMAIN sched'.waiting /\ t = sched'.waiting[i]
            BY <5>1, <2>2, WaitingFacts
          <5> QED BY <5>2 DEF Range
        <4>2. CASE sched.processing[t] # Null
          BY <4>2, <2>1
        <4> QED BY <3>2, <4>1, <4>2 DEF NothingLost
      <3> QED BY <3>1, <3>2, <2>3
    <2> QED BY <2>1, <2>4, <2>8, <2>9, <2>10
  <1>2. CASE ~newTaskOk(sched, url)
    <2>1. UNCHANGED vars
      BY <1>0, <1>2, NewTaskLemma DEF NewTaskReq, vars, envVars
    <2> QED BY <2>1 DEF vars, TypeOK, OnePlace, NothingLost, FreshInOrder, FreshIsPast
  <1> QED BY <1>1, <1>2

(***************************************************************************)
(* Handing out the head of the list keeps the invariant: a returned task   *)
(* leaves the front part, or the oldest fresh one leaves the rest.         *)
(***************************************************************************)
LEMMA GetTaskReqIInv ==
  ASSUME IInv, NEW c \in Client, GetTaskReq(c)
  PROVE  IInv'
  <1> USE DEF IInv
  <1>0. sched \in State /\ Null \notin Client
    BY NullAssumption DEF TypeOK
  <1>1. CASE getTaskOk(sched)
    <2>1. /\ sched' \in State /\ OnePlace'
          /\ Head(sched.waiting) \in Task /\ Head(sched.waiting) = sched.waiting[1]
          /\ Len(sched.waiting) > 0
          /\ Len(sched'.waiting) = Len(sched.waiting) - 1
          /\ \A i \in 1..Len(sched.waiting) - 1 : sched'.waiting[i] = sched.waiting[i + 1]
          /\ sched'.processing = [sched.processing EXCEPT ![Head(sched.waiting)] = c]
      BY <1>0, <1>1, GetTaskLemma, ZenonT(60) DEF GetTaskReq, OnePlace
    <2>2. /\ held' = [held EXCEPT ![c] = @ \cup {Head(sched.waiting)}]
          /\ back' = IF back > 0 THEN back - 1 ELSE back
          /\ UNCHANGED <<age, clock, submitted, notices, alive>>
      BY <1>1 DEF GetTaskReq, envVars
    <2>3. TypeOK'
      <3>1. back' \in 0..Len(sched'.waiting)
        BY <2>1, <2>2, WaitingFacts
      <3> QED BY <2>1, <2>2, <3>1 DEF TypeOK
    <2>4. \A i \in (back' + 1)..Len(sched'.waiting) :
             /\ i + 1 \in (back + 1)..Len(sched.waiting)
             /\ sched'.waiting[i] = sched.waiting[i + 1]
      BY <2>1, <2>2, WaitingFacts
    <2>5. FreshIsPast'
      BY <2>2, <2>4 DEF FreshIsPast
    <2>6. FreshInOrder'
      <3> SUFFICES ASSUME NEW i \in (back' + 1)..Len(sched'.waiting),
                          NEW j \in (back' + 1)..Len(sched'.waiting), i < j
                   PROVE  age'[sched'.waiting[i]] < age'[sched'.waiting[j]]
        BY DEF FreshInOrder
      <3>1. i + 1 < j + 1
        BY <2>3, WaitingFacts DEF TypeOK
      <3> QED BY <3>1, <2>2, <2>4 DEF FreshInOrder
    <2>7. NothingLost'
      <3> SUFFICES ASSUME NEW t \in submitted
                   PROVE  t \in Range(sched'.waiting) \/ sched'.processing[t] # Null
        BY <2>2 DEF NothingLost
      <3>1. CASE t = Head(sched.waiting)
        BY <3>1, <1>0, <2>1 DEF State
      <3>2. CASE t # Head(sched.waiting) /\ t \in Range(sched.waiting)
        <4>1. PICK i \in 1..Len(sched.waiting) : t = sched.waiting[i]
          BY <3>2, WaitingFacts DEF Range
        <4>2. i # 1 /\ i - 1 \in 1..Len(sched.waiting) - 1 /\ (i - 1) + 1 = i
          BY <4>1, <3>2, <2>1, WaitingFacts
        <4>3. sched'.waiting[i - 1] = t /\ i - 1 \in 1..Len(sched'.waiting)
          BY <4>1, <4>2, <2>1
        <4>4. DOMAIN sched'.waiting = 1..Len(sched'.waiting)
          BY <2>1, LenProperties DEF State
        <4> QED BY <4>3, <4>4 DEF Range
      <3>3. CASE t # Head(sched.waiting) /\ sched.processing[t] # Null
        BY <3>3, <1>0, <2>1 DEF State, TypeOK
      <3> QED BY <3>1, <3>2, <3>3 DEF NothingLost
    <2> QED BY <2>1, <2>3, <2>5, <2>6, <2>7
  <1>2. CASE ~getTaskOk(sched)
    <2>1. UNCHANGED vars
      BY <1>0, <1>2, GetTaskLemma DEF GetTaskReq, vars, envVars
    <2> QED BY <2>1 DEF vars, TypeOK, OnePlace, NothingLost, FreshInOrder, FreshIsPast
  <1> QED BY <1>1, <1>2

(***************************************************************************)
(* endTask leaves the list alone; the task it drops from the map leaves    *)
(* the set of submitted ones in the same step.                             *)
(***************************************************************************)
LEMMA EndTaskReqIInv ==
  ASSUME IInv, NEW c \in Client, NEW t \in Task, EndTaskReq(c, t)
  PROVE  IInv'
  <1> USE DEF IInv
  <1>1. sched \in State
    BY DEF TypeOK
  <1>2. /\ sched' \in State /\ OnePlace'
        /\ sched'.waiting = sched.waiting
        /\ sched'.processing = [sched.processing EXCEPT ![t] = Null]
    BY <1>1, EndTaskLemma DEF EndTaskReq, OnePlace
  <1>3. /\ held' = [held EXCEPT ![c] = @ \ {t}]
        /\ submitted' = submitted \ {t}
        /\ UNCHANGED <<age, clock, back, notices, alive>>
    BY DEF EndTaskReq, envVars
  <1>4. TypeOK'
    BY <1>2, <1>3 DEF TypeOK
  <1>5. NothingLost'
    BY <1>1, <1>2, <1>3 DEF NothingLost, State
  <1>6. FreshInOrder' /\ FreshIsPast'
    BY <1>2, <1>3 DEF FreshInOrder, FreshIsPast
  <1> QED BY <1>2, <1>4, <1>5, <1>6

(***************************************************************************)
(* A ClientFailure moves one task to the front part of the list; the rest  *)
(* of the list moves up by one place.                                      *)
(***************************************************************************)
LEMMA ClientFailureIInv ==
  ASSUME IInv, NEW c \in Client, ClientFailure(c)
  PROVE  IInv'
  <1> USE DEF IInv
  <1>0. sched \in State
    BY DEF TypeOK
  <1>1. /\ sched' = shiftTasksFromClient(sched, c)
        /\ notices' = [notices EXCEPT ![c] = @ - 1]
        /\ notices[c] \in Nat /\ notices[c] - 1 \in Nat
        /\ UNCHANGED <<held, alive, age, clock, submitted>>
    BY DEF ClientFailure, TypeOK
  <1>2. CASE tasksOf(sched, c) # {}
    <2>1. /\ sched' \in State /\ OnePlace'
      BY <1>0, <1>1, ShiftLemma DEF OnePlace
    <2>2. PICK t \in Task :
             /\ sched.processing[t] = c
             /\ Len(sched'.waiting) = Len(sched.waiting) + 1
             /\ sched'.waiting[1] = t
             /\ \A i \in 1..Len(sched.waiting) : sched'.waiting[i + 1] = sched.waiting[i]
             /\ sched'.processing = [sched.processing EXCEPT ![t] = Null]
      <3>1. \E t \in Task : ShiftMoves(sched, c, t)
        BY <1>0, <1>2, ShiftLemma
      <3> QED BY <1>1, <3>1 DEF ShiftMoves
    <2>3. back' = back + 1
      BY <1>2 DEF ClientFailure
    <2>4. TypeOK'
      <3>1. back' \in 0..Len(sched'.waiting)
        BY <2>2, <2>3, WaitingFacts
      <3> QED BY <1>1, <2>1, <3>1 DEF TypeOK
    <2>5. \A i \in (back' + 1)..Len(sched'.waiting) :
             /\ i - 1 \in (back + 1)..Len(sched.waiting)
             /\ sched'.waiting[i] = sched.waiting[i - 1]
      <3> TAKE i \in (back' + 1)..Len(sched'.waiting)
      <3>1. i - 1 \in (back + 1)..Len(sched.waiting) /\ i - 1 \in 1..Len(sched.waiting)
            /\ (i - 1) + 1 = i
        BY <2>2, <2>3, WaitingFacts
      <3> QED BY <2>2, <3>1
    <2>6. FreshIsPast'
      BY <1>1, <2>5 DEF FreshIsPast
    <2>7. FreshInOrder'
      <3> SUFFICES ASSUME NEW i \in (back' + 1)..Len(sched'.waiting),
                          NEW j \in (back' + 1)..Len(sched'.waiting), i < j
                   PROVE  age'[sched'.waiting[i]] < age'[sched'.waiting[j]]
        BY DEF FreshInOrder
      <3>1. i - 1 < j - 1
        BY <2>4, WaitingFacts DEF TypeOK
      <3> QED BY <3>1, <1>1, <2>5 DEF FreshInOrder
    <2>8. NothingLost'
      <3> SUFFICES ASSUME NEW u \in submitted
                   PROVE  u \in Range(sched'.waiting) \/ sched'.processing[u] # Null
        BY <1>1 DEF NothingLost
      <3>1. DOMAIN sched'.waiting = 1..Len(sched'.waiting)
        BY <2>1, LenProperties DEF State
      <3>2. CASE u = t
        BY <3>1, <3>2, <2>2, WaitingFacts DEF Range
      <3>3. CASE u \in Range(sched.waiting)
        <4>1. PICK i \in 1..Len(sched.waiting) : u = sched.waiting[i]
          BY <3>3, WaitingFacts DEF Range
        <4>2. i + 1 \in 1..Len(sched'.waiting)
          BY <4>1, <2>2, WaitingFacts
        <4> QED BY <3>1, <4>1, <4>2, <2>2 DEF Range
      <3>4. CASE u # t /\ sched.processing[u] # Null
        BY <3>4, <1>0, <2>2 DEF State, TypeOK
      <3> QED BY <3>2, <3>3, <3>4 DEF NothingLost
    <2> QED BY <2>1, <2>4, <2>6, <2>7, <2>8
  <1>3. CASE tasksOf(sched, c) = {}
    <2>1. UNCHANGED <<sched, held, alive, age, clock, submitted, back>>
      BY <1>0, <1>1, <1>3, ShiftLemma DEF ClientFailure
    <2>2. TypeOK'
      BY <1>1, <2>1 DEF TypeOK
    <2> QED BY <2>1, <2>2 DEF OnePlace, NothingLost, FreshInOrder, FreshIsPast
  <1> QED BY <1>2, <1>3

(***************************************************************************)
(* Every step, and every stuttering step, keeps the invariant.             *)
(***************************************************************************)
LEMMA NextIInv ==
  ASSUME IInv, [Next]_vars
  PROVE  IInv'
  <1>1. ASSUME NEW url \in Task, NewTaskReq(url) PROVE IInv'
    BY <1>1, NewTaskReqIInv
  <1>2. ASSUME NEW c \in Client, GetTaskReq(c) PROVE IInv'
    BY <1>2, GetTaskReqIInv
  <1>3. ASSUME NEW c \in Client, NEW t \in Task, EndTaskReq(c, t) PROVE IInv'
    BY <1>3, EndTaskReqIInv
  <1>4. ASSUME NEW c \in Client, NEW n \in MinSurvivors..MaxNotices, ClientCrash(c, n)
        PROVE  IInv'
    <2>1. TypeOK'
      BY <1>4 DEF ClientCrash, IInv, TypeOK
    <2> QED BY <1>4, <2>1
          DEF ClientCrash, IInv, OnePlace, NothingLost, FreshInOrder, FreshIsPast
  <1>5. ASSUME NEW c \in Client, ClientConnect(c) PROVE IInv'
    BY <1>5 DEF ClientConnect, IInv, TypeOK, OnePlace, NothingLost, FreshInOrder, FreshIsPast
  <1>6. ASSUME NEW c \in Client, ClientFailure(c) PROVE IInv'
    BY <1>6, ClientFailureIInv
  <1>7. CASE UNCHANGED vars
    BY <1>7 DEF vars, IInv, TypeOK, OnePlace, NothingLost, FreshInOrder, FreshIsPast
  <1> QED BY <1>1, <1>2, <1>3, <1>4, <1>5, <1>6, <1>7 DEF Next

(***************************************************************************)
(* The invariant holds in every reachable state.                           *)
(***************************************************************************)
THEOREM Invariance == Spec => []IInv
  <1>1. Init => IInv
    BY InitIInv
  <1>2. IInv /\ [Next]_vars => IInv'
    BY NextIInv
  <1> QED BY <1>1, <1>2, PTL DEF Spec

(***************************************************************************)
(* The variables of SchedulerImp keep their types.                         *)
(***************************************************************************)
THEOREM TypeCorrect == Spec => []TypeOK
  BY Invariance, PTL DEF IInv

(***************************************************************************)
(* No URL is ever twice in waiting_tasks or both waiting and processing.   *)
(***************************************************************************)
THEOREM OnePlaceHolds == Spec => []OnePlace
  BY Invariance, PTL DEF IInv

(***************************************************************************)
(* An accepted task is in waiting_tasks or processing_tasks until endTask  *)
(* names it, whatever clients fail and however often that is reported.     *)
(***************************************************************************)
THEOREM NothingLostHolds == Spec => []NothingLost
  BY Invariance, PTL DEF IInv

(***************************************************************************)
(* Tasks never assigned stay in order of arrival behind the returned ones. *)
(***************************************************************************)
THEOREM FreshInOrderHolds == Spec => []FreshInOrder
  BY Invariance, PTL DEF IInv

(***************************************************************************)
(* processTask never overwrites an entry of processing_tasks: the task it  *)
(* writes comes from the list, where OnePlace says no assigned task is.    *)
(***************************************************************************)
THEOREM NoStealingHolds == Spec => NoStealing
  <1> DEFINE Kept == \A t \in Task :
                sched.processing[t] # Null /\ sched'.processing[t] # Null
                  => sched'.processing[t] = sched.processing[t]
  <1>1. ASSUME IInv, [Next]_vars PROVE Kept
    <2> SUFFICES ASSUME NEW t \in Task,
                        sched.processing[t] # Null, sched'.processing[t] # Null
                 PROVE  sched'.processing[t] = sched.processing[t]
      OBVIOUS
    <2>0. sched \in State
      BY <1>1 DEF IInv, TypeOK
    <2>1. ASSUME NEW url \in Task, NewTaskReq(url)
          PROVE  sched'.processing[t] = sched.processing[t]
      BY <2>0, <2>1, NewTaskLemma DEF NewTaskReq
    <2>2. ASSUME NEW c \in Client, GetTaskReq(c)
          PROVE  sched'.processing[t] = sched.processing[t]
      <3>1. CASE getTaskOk(sched)
        <4>1. sched'.processing = [sched.processing EXCEPT ![sched.waiting[1]] = c]
              /\ 1 \in 1..Len(sched.waiting)
          BY <2>0, <2>2, <3>1, GetTaskLemma, LenProperties DEF GetTaskReq, State
        <4>2. t # sched.waiting[1]
          BY <1>1, <4>1 DEF IInv, OnePlace, Consistent
        <4> QED BY <2>0, <4>1, <4>2 DEF State
      <3>2. CASE ~getTaskOk(sched)
        BY <2>0, <2>2, <3>2, GetTaskLemma DEF GetTaskReq
      <3> QED BY <3>1, <3>2
    <2>3. ASSUME NEW c \in Client, NEW u \in Task, EndTaskReq(c, u)
          PROVE  sched'.processing[t] = sched.processing[t]
      <3>1. sched'.processing = [sched.processing EXCEPT ![u] = Null]
        BY <2>0, <2>3, EndTaskLemma DEF EndTaskReq
      <3> QED BY <2>0, <3>1 DEF State
    <2>4. ASSUME NEW c \in Client, NEW n \in MinSurvivors..MaxNotices, ClientCrash(c, n)
          PROVE  sched'.processing[t] = sched.processing[t]
      BY <2>4 DEF ClientCrash
    <2>5. ASSUME NEW c \in Client, ClientFailure(c)
          PROVE  sched'.processing[t] = sched.processing[t]
      <3>1. CASE tasksOf(sched, c) # {}
        <4>1. PICK u \in Task : ShiftMoves(sched, c, u)
          BY <2>0, <3>1, ShiftLemma
        <4>2. sched'.processing = [sched.processing EXCEPT ![u] = Null]
          BY <2>5, <4>1 DEF ClientFailure, ShiftMoves
        <4> QED BY <2>0, <4>2 DEF State
      <3>2. CASE tasksOf(sched, c) = {}
        BY <2>0, <2>5, <3>2, ShiftLemma DEF ClientFailure
      <3> QED BY <3>1, <3>2
    <2>6. ASSUME NEW c \in Client, ClientConnect(c)
          PROVE  sched'.processing[t] = sched.processing[t]
      BY <2>6 DEF ClientConnect
    <2>7. CASE UNCHANGED vars
      BY <2>7 DEF vars
    <2> QED BY <1>1, <2>1, <2>2, <2>3, <2>4, <2>5, <2>6, <2>7 DEF Next
  <1>2. IInv /\ [Next]_vars => [Kept]_vars
    BY <1>1
  <1> QED BY Invariance, <1>2, PTL DEF Spec, NoStealing

-----------------------------------------------------------------------------
(***************************************************************************)
(* Plain users: a client that is connected holds what is assigned to it,   *)
(* at most one task, and no ClientFailure names it; to one that is gone at *)
(* most one task is assigned, so that one ClientFailure takes it back.     *)
(***************************************************************************)
Connected(c) ==
  /\ notices[c] = 0
  /\ \A t \in Task : sched.processing[t] = c <=> t \in held[c]

Gone(c) ==
  /\ held[c] = {}
  /\ \A t, u \in Task : sched.processing[t] = c /\ sched.processing[u] = c => t = u
  /\ \A t \in Task : sched.processing[t] = c => notices[c] > 0

PlainInv ==
  plain => \A c \in Client :
             /\ \A t, u \in held[c] : t = u
             /\ IF c \in alive THEN Connected(c) ELSE Gone(c)

FiniteHeld == \A c \in Client : IsFiniteSet(held[c])

\* A set with at most one element.
LEMMA AtMostOne ==
  ASSUME NEW S, IsFiniteSet(S), Cardinality(S) <= 1
  PROVE  \A t, u \in S : t = u
  <1> SUFFICES ASSUME NEW t \in S, NEW u \in S, t # u PROVE FALSE
    OBVIOUS
  <1>1. IsFiniteSet({t}) /\ Cardinality({t}) = 1
    BY FS_Singleton
  <1>2. Cardinality({t} \cup {u}) = 1 + 1
    BY <1>1, FS_AddElement
  <1>3. Cardinality({t} \cup {u}) <= Cardinality(S)
    BY FS_Subset
  <1>4. Cardinality(S) \in Nat
    BY FS_CardinalityType
  <1> QED BY <1>2, <1>3, <1>4

(***************************************************************************)
(* A client holds finitely many tasks: it takes one at a time.             *)
(***************************************************************************)
LEMMA FiniteHeldStep ==
  ASSUME TypeOK, FiniteHeld, [Next]_vars
  PROVE  FiniteHeld'
  <1> USE DEF FiniteHeld, TypeOK
  <1>1. ASSUME NEW url \in Task, NewTaskReq(url) PROVE FiniteHeld'
    BY <1>1 DEF NewTaskReq
  <1>2. ASSUME NEW c \in Client, GetTaskReq(c) PROVE FiniteHeld'
    BY <1>2, FS_AddElement DEF GetTaskReq
  <1>3. ASSUME NEW c \in Client, NEW t \in Task, EndTaskReq(c, t) PROVE FiniteHeld'
    BY <1>3, FS_RemoveElement DEF EndTaskReq
  <1>4. ASSUME NEW c \in Client, NEW n \in MinSurvivors..MaxNotices, ClientCrash(c, n)
        PROVE  FiniteHeld'
    BY <1>4, FS_EmptySet DEF ClientCrash
  <1>5. ASSUME NEW c \in Client, ClientConnect(c) \/ ClientFailure(c) PROVE FiniteHeld'
    BY <1>5 DEF ClientConnect, ClientFailure
  <1>6. CASE UNCHANGED vars
    BY <1>6 DEF vars
  <1> QED BY <1>1, <1>2, <1>3, <1>4, <1>5, <1>6 DEF Next

(***************************************************************************)
(* Each step keeps what is assigned to a client and what it holds in step. *)
(***************************************************************************)
LEMMA PlainStep ==
  ASSUME IInv, FiniteHeld, PlainInv, [PlainNext]_<<vars, plain>>
  PROVE  PlainInv'
  <1>0. CASE UNCHANGED <<vars, plain>>
    BY <1>0 DEF vars, PlainInv, Connected, Gone
  <1> SUFFICES ASSUME PlainNext, plain'
               PROVE  \A c \in Client :
                        /\ \A t, u \in held'[c] : t = u
                        /\ IF c \in alive' THEN Connected(c)' ELSE Gone(c)'
    BY <1>0 DEF PlainInv
  <1>1. /\ Next /\ plain /\ alive' \subseteq alive
        /\ \A c \in Client : Cardinality(held'[c]) <= 1
        /\ \A c \in alive \ alive' : notices'[c] > notices[c]
    BY DEF PlainNext
  <1>2. /\ sched \in State /\ held \in [Client -> SUBSET Task]
        /\ notices \in [Client -> Nat] /\ alive \subseteq Client /\ Null \notin Client
        /\ sched.processing \in [Task -> Client \cup {Null}]
    BY NullAssumption DEF IInv, TypeOK, State
  <1>3. \A c \in Client : \A t, u \in held'[c] : t = u
    <2>1. FiniteHeld'
      BY <1>1, FiniteHeldStep DEF IInv
    <2> QED BY <2>1, <1>1, AtMostOne DEF FiniteHeld
  <1>4. \A c \in Client : /\ \A t, u \in held[c] : t = u
                          /\ c \in alive => Connected(c)
                          /\ c \notin alive => Gone(c)
    BY <1>1 DEF PlainInv
  <1> SUFFICES ASSUME NEW c \in Client
               PROVE  IF c \in alive' THEN Connected(c)' ELSE Gone(c)'
    BY <1>3
  <1>5. ASSUME NEW url \in Task, NewTaskReq(url)
        PROVE  IF c \in alive' THEN Connected(c)' ELSE Gone(c)'
    <2>1. sched'.processing = sched.processing
      BY <1>2, <1>5, NewTaskLemma DEF NewTaskReq
    <2> QED BY <2>1, <1>4, <1>5 DEF NewTaskReq, envVars, Connected, Gone
  <1>6. ASSUME NEW x \in Client, GetTaskReq(x)
        PROVE  IF c \in alive' THEN Connected(c)' ELSE Gone(c)'
    <2>1. CASE getTaskOk(sched)
      <3> DEFINE t == Head(sched.waiting)
      <3>1. /\ t = sched.waiting[1] /\ 1 \in 1..Len(sched.waiting) /\ t \in Task
            /\ sched'.processing = [sched.processing EXCEPT ![t] = x]
        <4>1. /\ t \in Task /\ t = sched.waiting[1] /\ Len(sched.waiting) > 0
              /\ sched'.processing = [sched.processing EXCEPT ![t] = x]
          BY <1>2, <1>6, <2>1, GetTaskLemma DEF GetTaskReq
        <4> QED BY <4>1, WaitingFacts DEF IInv
      <3>2. /\ held' = [held EXCEPT ![x] = @ \cup {t}] /\ x \in alive
            /\ UNCHANGED <<notices, alive>>
        BY <1>6, <2>1 DEF GetTaskReq, envVars
      <3>3. sched.processing[t] = Null
        BY <3>1 DEF IInv, OnePlace, Consistent
      <3> HIDE DEF t
      <3>4. CASE c = x
        <4>1. \A u \in Task : /\ sched'.processing[u] = c <=> u = t \/ sched.processing[u] = c
                              /\ u \in held'[c] <=> u = t \/ u \in held[c]
          BY <1>2, <3>1, <3>2, <3>3, <3>4
        <4> QED BY <4>1, <1>4, <3>2, <3>4 DEF Connected
      <3>5. CASE c # x
        <4>1. \A u \in Task : sched'.processing[u] = c <=> sched.processing[u] = c
          BY <1>2, <3>1, <3>3, <3>5
        <4>2. held'[c] = held[c]
          BY <1>2, <3>2, <3>5
        <4> QED BY <4>1, <4>2, <1>4, <3>2 DEF Connected, Gone
      <3> QED BY <3>4, <3>5
    <2>2. CASE ~getTaskOk(sched)
      <3>1. sched' = sched
        BY <1>2, <1>6, <2>2, GetTaskLemma DEF GetTaskReq
      <3> QED BY <3>1, <1>4, <1>6, <2>2 DEF GetTaskReq, envVars, Connected, Gone
    <2> QED BY <2>1, <2>2
  <1>7. ASSUME NEW x \in Client, NEW t \in Task, EndTaskReq(x, t)
        PROVE  IF c \in alive' THEN Connected(c)' ELSE Gone(c)'
    <2>1. sched'.processing = [sched.processing EXCEPT ![t] = Null]
      BY <1>2, <1>7, EndTaskLemma DEF EndTaskReq
    <2>2. /\ t \in held[x] /\ held' = [held EXCEPT ![x] = @ \ {t}]
          /\ UNCHANGED <<notices, alive>>
      BY <1>7 DEF EndTaskReq, envVars
    <2>3. x \in alive /\ sched.processing[t] = x
      BY <2>2, <1>4 DEF Connected, Gone
    <2> QED BY <1>2, <1>4, <2>1, <2>2, <2>3 DEF Connected, Gone
  <1>8. ASSUME NEW x \in Client, NEW n \in MinSurvivors..MaxNotices, ClientCrash(x, n)
        PROVE  IF c \in alive' THEN Connected(c)' ELSE Gone(c)'
    <2>1. /\ x \in alive /\ alive' = alive \ {x} /\ held' = [held EXCEPT ![x] = {}]
          /\ notices' = [notices EXCEPT ![x] = @ + n] /\ UNCHANGED sched
      BY <1>8 DEF ClientCrash
    <2>2. CASE c = x
      <3>1. notices'[c] > 0
        BY <1>1, <1>2, <1>4, <2>1, <2>2 DEF Connected
      <3> QED BY <3>1, <1>2, <1>4, <2>1, <2>2 DEF Connected, Gone
    <2>3. CASE c # x
      BY <1>2, <1>4, <2>1, <2>3 DEF Connected, Gone
    <2> QED BY <2>2, <2>3
  <1>9. ASSUME NEW x \in Client, ClientConnect(x)
        PROVE  IF c \in alive' THEN Connected(c)' ELSE Gone(c)'
    BY <1>1, <1>9 DEF ClientConnect
  <1>10. ASSUME NEW x \in Client, ClientFailure(x)
         PROVE  IF c \in alive' THEN Connected(c)' ELSE Gone(c)'
    <2>1. /\ notices[x] > 0 /\ notices' = [notices EXCEPT ![x] = @ - 1]
          /\ sched' = shiftTasksFromClient(sched, x) /\ UNCHANGED <<held, alive>>
      BY <1>10 DEF ClientFailure
    <2>2. x \notin alive /\ Gone(x)
      BY <2>1, <1>4 DEF Connected
    <2>3. CASE tasksOf(sched, x) # {}
      <3>1. PICK t \in Task : ShiftMoves(sched, x, t)
        BY <1>2, <2>3, ShiftLemma
      <3>2. /\ sched.processing[t] = x
            /\ sched'.processing = [sched.processing EXCEPT ![t] = Null]
        BY <2>1, <3>1 DEF ShiftMoves
      <3>3. \A u \in Task : sched'.processing[u] # x
        BY <1>2, <2>2, <3>2 DEF Gone
      <3>4. CASE c = x
        BY <2>1, <2>2, <3>3, <3>4 DEF Gone
      <3>5. CASE c # x
        BY <1>2, <1>4, <2>1, <3>2, <3>5 DEF Connected, Gone
      <3> QED BY <3>4, <3>5
    <2>4. CASE tasksOf(sched, x) = {}
      <3>1. sched' = sched /\ \A u \in Task : sched.processing[u] # x
        BY <1>2, <2>1, <2>4, ShiftLemma DEF tasksOf
      <3>2. CASE c = x
        BY <2>1, <2>2, <3>1, <3>2 DEF Gone
      <3>3. CASE c # x
        BY <1>2, <1>4, <2>1, <3>1, <3>3 DEF Connected, Gone
      <3> QED BY <3>2, <3>3
    <2> QED BY <2>3, <2>4
  <1> QED BY <1>1, <1>5, <1>6, <1>7, <1>8, <1>9, <1>10 DEF Next

(***************************************************************************)
(* No task is orphaned while the users are plain: whatever is assigned to  *)
(* a client that is gone comes back, since a ClientFailure is still to     *)
(* come and shiftTasksFromClient needs to take back one task only.         *)
(***************************************************************************)
THEOREM NoOrphanHolds == PlainSpec => []NoOrphan
  <1>1. PlainInit => Init /\ FiniteHeld /\ PlainInv
    <2> SUFFICES ASSUME PlainInit PROVE FiniteHeld /\ PlainInv
      BY DEF PlainInit
    <2>1. FiniteHeld
      BY FS_EmptySet DEF PlainInit, Init, FiniteHeld
    <2>2. \A c \in Client : Connected(c) /\ c \in alive /\ held[c] = {}
      <3>1. Null \notin Client
        BY NullAssumption
      <3> QED BY <3>1 DEF PlainInit, Init, Connected, EmptyState
    <2> QED BY <2>1, <2>2 DEF PlainInv
  <1>2. [PlainNext]_<<vars, plain>> => [Next]_vars
    BY DEF PlainNext
  <1>3. IInv /\ FiniteHeld /\ PlainInv /\ [PlainNext]_<<vars, plain>>
          => (FiniteHeld /\ PlainInv)'
    BY <1>2, PlainStep, FiniteHeldStep DEF IInv
  <1>4. IInv /\ PlainInv => NoOrphan
    BY DEF IInv, TypeOK, PlainInv, Connected, Gone, NoOrphan
  <1>5. PlainSpec => []IInv
    BY <1>1, <1>2, InitIInv, NextIInv, PTL DEF PlainSpec
  <1> QED BY <1>1, <1>3, <1>4, <1>5, PTL DEF PlainSpec

-----------------------------------------------------------------------------
(***************************************************************************)
(* SchedulerImp implements TaskPool: every handler is a step of the pool   *)
(* or leaves it alone.                                                     *)
(***************************************************************************)

\* The two parts of the list in the refinement mapping.
Suffix(w, k) == SubSeq(w, k + 1, Len(w))
Front(w, k)  == {w[i] : i \in 1..k}

fresh    == Suffix(sched.waiting, back)
returned == Front(sched.waiting, back)
holder   == sched.processing

-----------------------------------------------------------------------------
(***************************************************************************)
(* The elements of a suffix of the list.                                   *)
(***************************************************************************)
LEMMA SuffixElements ==
  ASSUME NEW w \in Seq(Task), NEW k \in 0..Len(w)
  PROVE  /\ Suffix(w, k) \in Seq(Task)
         /\ Len(Suffix(w, k)) = Len(w) - k
         /\ \A i \in 1..(Len(w) - k) : Suffix(w, k)[i] = w[k + i]
  <1>1. Len(w) \in Nat /\ \A i \in (k + 1)..Len(w) : w[i] \in Task
    BY LenProperties, ElementOfSeq
  <1>2. /\ Suffix(w, k) \in Seq(Task)
        /\ Len(Suffix(w, k)) = IF k + 1 <= Len(w) THEN Len(w) - (k + 1) + 1 ELSE 0
        /\ \A i \in 1..(Len(w) - (k + 1) + 1) : Suffix(w, k)[i] = w[(k + 1) + i - 1]
    BY <1>1, SubSeqProperties DEF Suffix
  <1> HIDE DEF Suffix
  <1>3. Len(w) - (k + 1) + 1 = Len(w) - k
    BY <1>1
  <1>4. Len(Suffix(w, k)) = Len(w) - k
    BY <1>1, <1>2
  <1>5. ASSUME NEW i \in 1..(Len(w) - k) PROVE Suffix(w, k)[i] = w[k + i]
    <2>1. (k + 1) + i - 1 = k + i
      OBVIOUS
    <2> QED BY <2>1, <1>2, <1>3
  <1> QED BY <1>2, <1>4, <1>5

\* Suffixes with the same elements are the same sequence.
LEMMA SuffixEqual ==
  ASSUME NEW w \in Seq(Task), NEW k \in 0..Len(w),
         NEW v \in Seq(Task), NEW l \in 0..Len(v),
         Len(w) - k = Len(v) - l,
         \A i \in 1..(Len(w) - k) : w[k + i] = v[l + i]
  PROVE  Suffix(w, k) = Suffix(v, l)
  <1>1. /\ Suffix(w, k) \in Seq(Task) /\ Suffix(v, l) \in Seq(Task)
        /\ Len(Suffix(w, k)) = Len(Suffix(v, l))
        /\ Len(Suffix(w, k)) = Len(w) - k
    BY SuffixElements
  <1>2. ASSUME NEW i \in 1..(Len(w) - k) PROVE Suffix(w, k)[i] = Suffix(v, l)[i]
    <2>1. Suffix(w, k)[i] = w[k + i]
      BY SuffixElements
    <2>2. Suffix(v, l)[i] = v[l + i]
      BY SuffixElements
    <2> QED BY <2>1, <2>2
  <1> QED BY <1>1, <1>2, SeqEqual

(***************************************************************************)
(* An accepted submission joins the queue of fresh tasks.                  *)
(***************************************************************************)
LEMMA NewTaskReqPool ==
  ASSUME IInv, NEW url \in Task, NewTaskReq(url)
  PROVE  Pool!Submit(url) \/ UNCHANGED <<fresh, returned, holder>>
  <1> DEFINE w == sched.waiting
             v == sched'.waiting
  <1>0. sched \in State /\ w \in Seq(Task) /\ Len(w) \in Nat /\ back \in 0..Len(w)
    BY LenProperties DEF IInv, TypeOK, State
  <1>1. CASE newTaskOk(sched, url)
    <2>1. v = Append(w, url) /\ sched'.processing = sched.processing /\ back' = back
      BY <1>0, <1>1, NewTaskLemma DEF NewTaskReq
    <2>2. /\ v \in Seq(Task) /\ Len(v) = Len(w) + 1 /\ v[Len(w) + 1] = url
          /\ \A i \in 1..Len(w) : v[i] = w[i]
      BY <2>1, <1>0, AppendProperties
    <2>3. \A i \in 1..Len(w) : w[i] # url
      BY <1>0, <1>1 DEF newTaskOk, waitingTasksContains, Range
    <2>4. sched.processing[url] = Null
      BY <1>1 DEF newTaskOk, processingTasksContains
    <2> HIDE DEF w, v
    <2>5. Suffix(v, back) = Append(Suffix(w, back), url)
      <3>1. /\ Suffix(w, back) \in Seq(Task) /\ Len(Suffix(w, back)) = Len(w) - back
            /\ \A i \in 1..(Len(w) - back) : Suffix(w, back)[i] = w[back + i]
        BY <1>0, SuffixElements
      <3>2. /\ Suffix(v, back) \in Seq(Task) /\ Len(Suffix(v, back)) = Len(w) + 1 - back
            /\ \A i \in 1..(Len(w) + 1 - back) : Suffix(v, back)[i] = v[back + i]
        <4>1. back \in 0..Len(v)
          BY <1>0, <2>2
        <4>2. /\ Suffix(v, back) \in Seq(Task) /\ Len(Suffix(v, back)) = Len(v) - back
              /\ \A i \in 1..(Len(v) - back) : Suffix(v, back)[i] = v[back + i]
          BY <4>1, <2>2, SuffixElements
        <4>3. Len(v) - back = Len(w) + 1 - back
          BY <1>0, <2>2
        <4> QED BY <4>2, <4>3
      <3> DEFINE a == Append(Suffix(w, back), url)
      <3>3. /\ a \in Seq(Task) /\ Len(a) = Len(w) - back + 1
            /\ \A i \in 1..(Len(w) - back) : a[i] = Suffix(w, back)[i]
            /\ a[Len(w) - back + 1] = url
        BY <3>1, AppendProperties
      <3> HIDE DEF a
      <3>4. ASSUME NEW i \in 1..(Len(w) + 1 - back) PROVE Suffix(v, back)[i] = a[i]
        <4>1. CASE i \in 1..(Len(w) - back)
          BY <4>1, <1>0, <2>2, <3>1, <3>2, <3>3
        <4>2. CASE i = Len(w) - back + 1
          BY <4>2, <1>0, <2>2, <3>2, <3>3, SMTT(60)
        <4> QED BY <4>1, <4>2, <1>0
      <3>5. Suffix(v, back) = a
        BY <3>2, <3>3, <3>4, <1>0, SeqEqual, SMTT(60)
      <3> QED BY <3>5 DEF a
    <2>6. Front(v, back) = Front(w, back)
      BY <1>0, <2>2 DEF Front
    <2>7. url \notin Front(w, back)
      BY <1>0, <2>3 DEF Front
    <2>8. url \notin Range(Suffix(w, back))
      <3>1. Range(Suffix(w, back)) = {Suffix(w, back)[i] : i \in 1..Len(Suffix(w, back))}
        BY <1>0, SuffixElements, RangeEquality
      <3>2. /\ Len(Suffix(w, back)) = Len(w) - back
            /\ \A i \in 1..(Len(w) - back) : Suffix(w, back)[i] = w[back + i]
        BY <1>0, SuffixElements
      <3>3. \A i \in 1..(Len(w) - back) : back + i \in 1..Len(w)
        BY <1>0
      <3> QED BY <3>1, <3>2, <3>3, <2>3
    <2>9. Pool!Unknown(url)
      BY <2>4, <2>7, <2>8 DEF Pool!Unknown, Pool!Range, Range, Suffix, Front, w
    <2>10. fresh' = Append(fresh, url) /\ returned' = returned /\ holder' = holder
      BY <2>1, <2>5, <2>6 DEF fresh, returned, holder, w, v
    <2> QED BY <2>9, <2>10 DEF Pool!Submit, fresh, returned, holder, Suffix, Front
  <1>2. CASE ~newTaskOk(sched, url)
    <2>1. sched' = sched /\ back' = back
      BY <1>0, <1>2, NewTaskLemma DEF NewTaskReq
    <2> QED BY <2>1 DEF fresh, returned, holder, Suffix, Front
  <1> QED BY <1>1, <1>2

(***************************************************************************)
(* A request for a task takes a returned one while there is any, and the   *)
(* oldest fresh one otherwise.                                             *)
(***************************************************************************)
LEMMA GetTaskReqPool ==
  ASSUME IInv, NEW c \in Client, GetTaskReq(c)
  PROVE  \/ Pool!TakeFresh(c)
         \/ \E t \in Task : Pool!TakeReturned(c, t)
         \/ UNCHANGED <<fresh, returned, holder>>
  <1> DEFINE w == sched.waiting
             v == sched'.waiting
  <1>0. sched \in State /\ w \in Seq(Task) /\ Len(w) \in Nat /\ back \in 0..Len(w)
    BY LenProperties DEF IInv, TypeOK, State
  <1>1. CASE getTaskOk(sched)
    <2>1. /\ v = Tail(w) /\ w # <<>> /\ Len(w) > 0 /\ w[1] \in Task /\ Head(w) = w[1]
          /\ sched'.processing = [sched.processing EXCEPT ![w[1]] = c]
          /\ back' = IF back > 0 THEN back - 1 ELSE back
      BY <1>0, <1>1, GetTaskLemma DEF GetTaskReq, getTaskOk
    <2>2. /\ v \in Seq(Task) /\ Len(v) = Len(w) - 1
          /\ \A i \in 1..(Len(w) - 1) : v[i] = w[i + 1]
      BY <2>1, <1>0, HeadTailProperties
    <2>3. \A i, j \in 1..Len(w) : w[i] = w[j] => i = j
      BY DEF IInv, OnePlace, Consistent
    <2> HIDE DEF w, v
    <2>4. CASE back > 0
      <3>1. Suffix(v, back - 1) = Suffix(w, back)
        <4>1. back - 1 \in 0..Len(v) /\ Len(v) - (back - 1) = Len(w) - back
          BY <1>0, <2>2, <2>4
        <4>2. \A i \in 1..(Len(v) - (back - 1)) : v[(back - 1) + i] = w[back + i]
          <5> SUFFICES ASSUME NEW i \in 1..(Len(v) - (back - 1))
                       PROVE  v[(back - 1) + i] = w[back + i]
            OBVIOUS
          <5>1. (back - 1) + i \in 1..(Len(w) - 1) /\ (back - 1) + i + 1 = back + i
            BY <1>0, <2>4, <4>1
          <5> QED BY <5>1, <2>2
        <4> QED BY <4>1, <4>2, <1>0, <2>2, SuffixEqual
      <3>2. Front(v, back - 1) = Front(w, back) \ {w[1]}
        <4>1. ASSUME NEW i \in 1..(back - 1)
              PROVE  v[i] = w[i + 1] /\ i + 1 \in 1..back /\ w[i + 1] # w[1]
          BY <1>0, <2>1, <2>2, <2>3, <2>4
        <4>2. ASSUME NEW i \in 1..back, i # 1
              PROVE  i - 1 \in 1..(back - 1) /\ w[i] = v[i - 1]
          <5>1. i - 1 \in 1..(back - 1) /\ i - 1 \in 1..(Len(w) - 1) /\ (i - 1) + 1 = i
            BY <4>2, <1>0, <2>4
          <5> QED BY <5>1, <2>2
        <4> QED BY <4>1, <4>2 DEF Front
      <3>3. w[1] \in Front(w, back)
        BY <1>0, <2>4 DEF Front
      <3>4. PICK t \in Task : t = w[1]
        BY <2>1
      <3>5. /\ t \in returned /\ returned' = returned \ {t}
            /\ holder' = [holder EXCEPT ![t] = c] /\ fresh' = fresh
        BY <2>1, <2>4, <3>1, <3>2, <3>3, <3>4 DEF fresh, returned, holder, w, v
      <3>6. Pool!TakeReturned(c, t)
        BY <3>5 DEF Pool!TakeReturned, fresh, returned, holder, Suffix, Front
      <3> QED BY <3>6
    <2>5. CASE back = 0
      <3>1. Suffix(w, 0) = w /\ Suffix(v, 0) = v
        <4>1. 0 \in 0..Len(w) /\ 0 \in 0..Len(v)
          BY <1>0, <2>1, <2>2
        <4>2. ASSUME NEW x \in Seq(Task), 0 \in 0..Len(x) PROVE Suffix(x, 0) = x
          <5>1. /\ Suffix(x, 0) \in Seq(Task) /\ Len(Suffix(x, 0)) = Len(x) - 0
                /\ \A i \in 1..(Len(x) - 0) : Suffix(x, 0)[i] = x[0 + i]
            BY <4>2, SuffixElements
          <5>2. Len(x) \in Nat
            BY LenProperties
          <5>3. Len(Suffix(x, 0)) = Len(x) /\ \A i \in 1..Len(x) : Suffix(x, 0)[i] = x[i]
            BY <5>1, <5>2
          <5> QED BY <5>1, <5>3, SeqEqual
        <4> QED BY <4>1, <4>2, <1>0, <2>2
      <3>2. Front(w, 0) = {} /\ Front(v, 0) = {}
        BY DEF Front
      <3>3. fresh = w /\ fresh' = v /\ returned = {} /\ returned' = {}
        BY <2>1, <2>5, <3>1, <3>2 DEF fresh, returned, w, v
      <3>4. /\ returned = {} /\ fresh # <<>> /\ fresh' = Tail(fresh)
            /\ holder' = [holder EXCEPT ![Head(fresh)] = c] /\ returned' = returned
        BY <2>1, <3>3 DEF holder
      <3>5. Pool!TakeFresh(c)
        BY <3>4 DEF Pool!TakeFresh, fresh, returned, holder, Suffix, Front
      <3> QED BY <3>5
    <2> QED BY <2>4, <2>5, <1>0
  <1>2. CASE ~getTaskOk(sched)
    <2>1. sched' = sched /\ back' = back
      BY <1>0, <1>2, GetTaskLemma DEF GetTaskReq
    <2> QED BY <2>1 DEF fresh, returned, holder, Suffix, Front
  <1> QED BY <1>1, <1>2

\* An end of a task removes its entry, or nothing.
LEMMA EndTaskReqPool ==
  ASSUME IInv, NEW c \in Client, NEW t \in Task, EndTaskReq(c, t)
  PROVE  Pool!Finish(t) \/ UNCHANGED <<fresh, returned, holder>>
  <1>0. sched \in State
    BY DEF IInv, TypeOK
  <1>1. /\ sched'.waiting = sched.waiting /\ back' = back
        /\ sched'.processing = [sched.processing EXCEPT ![t] = Null]
    BY <1>0, EndTaskLemma DEF EndTaskReq
  <1>2. /\ fresh' = fresh /\ returned' = returned
        /\ holder' = [holder EXCEPT ![t] = Null]
    BY <1>1 DEF fresh, returned, holder, Suffix, Front
  <1>3. CASE holder[t] # Null
    BY <1>2, <1>3 DEF Pool!Finish, fresh, returned, holder, Suffix, Front
  <1>4. CASE holder[t] = Null
    BY <1>0, <1>2, <1>4 DEF holder, State
  <1> QED BY <1>3, <1>4

\* A ClientFailure takes one task back, or nothing.
LEMMA ClientFailurePool ==
  ASSUME IInv, NEW c \in Client, ClientFailure(c)
  PROVE  (\E t \in Task : Pool!TakeBack(t)) \/ UNCHANGED <<fresh, returned, holder>>
  <1> DEFINE w == sched.waiting
             v == sched'.waiting
  <1>0. sched \in State /\ w \in Seq(Task) /\ Len(w) \in Nat /\ back \in 0..Len(w)
    BY LenProperties DEF IInv, TypeOK, State
  <1>1. CASE tasksOf(sched, c) # {}
    <2>1. PICK t \in Task : ShiftMoves(sched, c, t)
      BY <1>0, <1>1, ShiftLemma
    <2>2. /\ sched.processing[t] = c /\ v \in Seq(Task) /\ Len(v) = Len(w) + 1
          /\ v[1] = t /\ \A i \in 1..Len(w) : v[i + 1] = w[i]
          /\ sched'.processing = [sched.processing EXCEPT ![t] = Null]
          /\ back' = back + 1
      <3>1. sched' \in State
        BY <1>0, ShiftLemma DEF ClientFailure
      <3> QED BY <1>1, <2>1, <3>1 DEF ClientFailure, ShiftMoves, State
    <2> HIDE DEF w, v
    <2>3. Suffix(v, back + 1) = Suffix(w, back)
      <3>1. back + 1 \in 0..Len(v) /\ Len(v) - (back + 1) = Len(w) - back
        BY <1>0, <2>2
      <3>2. \A i \in 1..(Len(v) - (back + 1)) : v[(back + 1) + i] = w[back + i]
        <4> SUFFICES ASSUME NEW i \in 1..(Len(v) - (back + 1))
                     PROVE  v[(back + 1) + i] = w[back + i]
          OBVIOUS
        <4>1. back + i \in 1..Len(w) /\ (back + i) + 1 = (back + 1) + i
          BY <1>0, <3>1
        <4> QED BY <4>1, <2>2
      <3>3. w \in Seq(Task) /\ v \in Seq(Task) /\ back \in 0..Len(w)
        BY <1>0, <2>2
      <3> QED BY <3>1, <3>2, <3>3, SuffixEqual
    <2>4. Front(v, back + 1) = Front(w, back) \cup {t}
      <3>1. ASSUME NEW i \in 1..back PROVE i + 1 \in 1..(back + 1) /\ v[i + 1] = w[i]
        BY <1>0, <2>2
      <3>2. ASSUME NEW i \in 1..(back + 1), i # 1
            PROVE  i - 1 \in 1..back /\ v[i] = w[i - 1]
        <4>1. i - 1 \in 1..back /\ i - 1 \in 1..Len(w) /\ (i - 1) + 1 = i
          BY <3>2, <1>0
        <4> QED BY <4>1, <2>2
      <3>3. 1 \in 1..(back + 1)
        BY <1>0
      <3>4. v[1] = t
        BY <2>2
      <3>5. Front(v, back + 1) \subseteq Front(w, back) \cup {t}
        BY <3>2, <3>4 DEF Front
      <3>6. Front(w, back) \cup {t} \subseteq Front(v, back + 1)
        BY <3>1, <3>3, <3>4 DEF Front
      <3> QED BY <3>5, <3>6
    <2>5. /\ holder[t] # Null /\ holder' = [holder EXCEPT ![t] = Null]
          /\ returned' = returned \cup {t} /\ fresh' = fresh
      BY <2>2, <2>3, <2>4, NullAssumption DEF fresh, returned, holder, w, v
    <2>6. Pool!TakeBack(t)
      BY <2>5 DEF Pool!TakeBack, fresh, returned, holder, Suffix, Front
    <2> QED BY <2>6
  <1>2. CASE tasksOf(sched, c) = {}
    <2>1. sched' = sched /\ back' = back
      BY <1>0, <1>2, ShiftLemma DEF ClientFailure
    <2> QED BY <2>1 DEF fresh, returned, holder, Suffix, Front
  <1> QED BY <1>1, <1>2

-----------------------------------------------------------------------------
(***************************************************************************)
(* SchedulerImp implements the task pool: a list whose front is what       *)
(* failed clients had, a map, and a loop that stops after one entry behave *)
(* as a store that hands out returned tasks first and fresh ones in order  *)
(* of arrival, and never to two clients.                                   *)
(***************************************************************************)
THEOREM ImplementsPool == Spec => PoolSpec
  <1>1. Init => Pool!Init
    <2> SUFFICES ASSUME Init PROVE Pool!Init
      OBVIOUS
    <2>1. sched.waiting = <<>> /\ sched.processing = [t \in Task |-> Null] /\ back = 0
      BY DEF Init, EmptyState
    <2>2. Len(sched.waiting) = 0 /\ SubSeq(sched.waiting, 0 + 1, 0) = <<>>
      BY <2>1, SubSeqEmpty
    <2> QED BY <2>1, <2>2 DEF Pool!Init
  <1>2. IInv /\ [Next]_vars => [Pool!Next]_(Pool!poolVars)
    <2> SUFFICES ASSUME IInv, [Next]_vars PROVE [Pool!Next]_(Pool!poolVars)
      OBVIOUS
    <2>0. ASSUME UNCHANGED <<fresh, returned, holder>>
          PROVE  UNCHANGED Pool!poolVars
      BY <2>0 DEF Pool!poolVars, fresh, returned, holder, Suffix, Front
    <2>1. ASSUME NEW url \in Task, NewTaskReq(url) PROVE [Pool!Next]_(Pool!poolVars)
      BY <2>0, <2>1, NewTaskReqPool DEF Pool!Next
    <2>2. ASSUME NEW c \in Client, GetTaskReq(c) PROVE [Pool!Next]_(Pool!poolVars)
      BY <2>0, <2>2, GetTaskReqPool DEF Pool!Next
    <2>3. ASSUME NEW c \in Client, NEW t \in Task, EndTaskReq(c, t)
          PROVE  [Pool!Next]_(Pool!poolVars)
      BY <2>0, <2>3, EndTaskReqPool DEF Pool!Next
    <2>4. ASSUME NEW c \in Client, ClientFailure(c) PROVE [Pool!Next]_(Pool!poolVars)
      BY <2>0, <2>4, ClientFailurePool DEF Pool!Next
    <2>5. ASSUME UNCHANGED <<sched, back>> PROVE [Pool!Next]_(Pool!poolVars)
      BY <2>0, <2>5 DEF fresh, returned, holder, Suffix, Front
    <2>6. ASSUME NEW c \in Client, NEW n \in MinSurvivors..MaxNotices, ClientCrash(c, n)
          PROVE  UNCHANGED <<sched, back>>
      BY <2>6 DEF ClientCrash
    <2>7. ASSUME NEW c \in Client, ClientConnect(c) PROVE UNCHANGED <<sched, back>>
      BY <2>7 DEF ClientConnect
    <2>8. UNCHANGED vars => UNCHANGED <<sched, back>>
      BY DEF vars
    <2> QED BY <2>1, <2>2, <2>3, <2>4, <2>5, <2>6, <2>7, <2>8 DEF Next
  <1> QED BY <1>1, <1>2, Invariance, PTL DEF Spec, PoolSpec, Pool!Spec

=============================================================================
