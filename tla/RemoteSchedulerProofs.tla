------------------------ MODULE RemoteSchedulerProofs ------------------------
(***************************************************************************)
(* A call of the stub gets the answer to its own request, for any number   *)
(* of servers and calls, however the user's and the Spread thread          *)
(* interleave: among all calls if the client's name is never used again,   *)
(* and among the calls of one process if the user is not hurried.          *)
(***************************************************************************)
EXTENDS RemoteScheduler, SequenceTheorems, TLAPS

\* The calls of the process that runs now.
Current(f) == f <= calls /\ lifeOf[f] = restarts

\* A message carries the number that its call has taken.
Known(m) == m.call <= calls /\ m.id = idOf[m.call]

(***************************************************************************)
(* The future in cf is the last call of this process; no cf, no call.      *)
(***************************************************************************)
LastCall ==
  /\ \A f \in Call : f > calls => idOf[f] = Null /\ value[f] = Null
  /\ cf # Null => cf = calls /\ lifeOf[cf] = restarts
  /\ cf = Null => pc = "idle" /\ hpc = "idle" /\ \A f \in Call : ~Current(f)
  /\ \A f \in Call : f <= calls => lifeOf[f] <= restarts

(***************************************************************************)
(* Numbers grow with the calls of a process, and req_id bounds them.       *)
(***************************************************************************)
Numbers ==
  /\ \A f \in Call : Current(f) /\ idOf[f] # Null => idOf[f] <= req_id
  /\ \A f, g \in Call :
       /\ Current(f) /\ Current(g) /\ f < g
       /\ idOf[f] # Null /\ idOf[g] # Null
       => idOf[f] < idOf[g]
  /\ cf # Null => (idOf[cf] = Null <=> pc = "number")
  /\ pc = "send" => id_req = idOf[cf] /\ kind \in Kind
  /\ pc = "number" => kind \in Kind

Messages ==
  /\ \A r \in Replica : \A i \in 1..Len(pending[r]) : Known(pending[r][i])
  /\ \A m \in inbox : Known(m)
  /\ hpc = "complete" => msg # Null /\ Known(msg)
  /\ \A f \in Call : value[f] # Null => value[f].call <= calls

(***************************************************************************)
(* All calls of the process but the one that runs have returned, and the   *)
(* number of a completed call is used up: req_id is past it, or about to   *)
(* be.                                                                     *)
(***************************************************************************)
UsedUp ==
  /\ \A f \in Call : Current(f) /\ f # cf => value[f] # Null
  /\ cf # Null /\ pc \in {"idle", "dead"} => value[cf] # Null
  /\ pc = "number" => value[cf] = Null
  /\ \A f \in Call :
       Current(f) /\ value[f] # Null
         => idOf[f] # Null /\ (idOf[f] < req_id \/ hpc = "increment")

(***************************************************************************)
(* An answer is accepted only while its call waits.                        *)
(***************************************************************************)
Accepted(rep) ==
  /\ pc \in {"send", "get"} /\ value[cf] = Null
  /\ lifeOf[rep.call] = restarts => rep.call = cf

(***************************************************************************)
(* With an unhurried user every request has an odd number: req_id is odd   *)
(* exactly from the moment a call takes its number until the handler of    *)
(* its answer increments it.                                               *)
(***************************************************************************)
Waiting == (pc \in {"send", "get"} /\ value[cf] = Null) \/ hpc = "increment"

OddNumbers ==
  /\ \A f \in Call : idOf[f] # Null => idOf[f] % 2 = 1
  /\ Waiting => req_id % 2 = 1
  /\ ~Waiting => req_id % 2 = 0
  /\ pc = "number" => hpc = "idle"
  /\ hpc = "increment" => cf # Null /\ value[cf] # Null

StubInv ==
  /\ TypeOK /\ LastCall /\ Numbers /\ Messages /\ UsedUp
  /\ hpc = "complete" => Accepted(msg)
  /\ SlowUser => OddNumbers
  /\ ReplyMatchesInLife

\* The conditions under which the numbers identify the requests.
Mode == MaxRestarts = 0 \/ SlowUser

USE StubAssumption

-----------------------------------------------------------------------------
(***************************************************************************)
(* The stub starts without calls, so all parts of the invariant hold.      *)
(***************************************************************************)
LEMMA InitStub == Init => StubInv
  <1> SUFFICES ASSUME Init PROVE StubInv
    OBVIOUS
  <1> USE DEF Init
  <1>1. TypeOK
    BY DEF TypeOK
  <1>2. LastCall /\ Numbers /\ UsedUp
    BY DEF LastCall, Numbers, UsedUp, Current, Call
  <1>3. Messages
    BY DEF Messages
  <1>4. OddNumbers /\ ReplyMatchesInLife
    BY DEF OddNumbers, Waiting, ReplyMatchesInLife
  <1> QED BY <1>1, <1>2, <1>3, <1>4 DEF StubInv

(***************************************************************************)
(* The requests a server has yet to answer are requests.                   *)
(***************************************************************************)
LEMMA PendingTypes ==
  ASSUME TypeOK, NEW r \in Replica, NEW i \in 1..Len(pending[r])
  PROVE  pending[r][i].call \in Call /\ pending[r][i].id \in Nat
  <1>1. pending[r] \in Seq(Request)
    BY DEF TypeOK
  <1>2. pending[r][i] \in Request
    BY <1>1, ElementOfSeq
  <1> QED BY <1>2 DEF Request

(***************************************************************************)
(* The reply handlers' test msg.id == req_id lets an answer through only   *)
(* if a call waits and, when the answer is to a request of this process,   *)
(* if it is to that call's.                                                *)
(***************************************************************************)
LEMMA AcceptLemma ==
  ASSUME StubInv, Mode, hpc = "idle", NEW rep \in inbox, Accept(rep)
  PROVE  Accepted(rep)
  <1>1. /\ rep \in Reply /\ rep.call \in Call /\ rep.id \in Nat
        /\ rep.call <= calls /\ idOf[rep.call] = req_id /\ req_id \in Nat
        /\ cf \in Call
    BY DEF StubInv, TypeOK, Messages, Known, Accept, Reply
  <1>2. idOf[rep.call] # Null
    BY <1>1
  <1>3. lifeOf[rep.call] = restarts => rep.call = cf /\ value[cf] = Null
    BY <1>1, <1>2 DEF StubInv, UsedUp, Current, TypeOK
  <1>4. pc \in {"send", "get"} /\ value[cf] = Null
    <2>1. CASE MaxRestarts = 0
      <3>1. lifeOf[rep.call] = restarts
        BY <2>1, <1>1 DEF StubInv, TypeOK
      <3>2. pc # "number" /\ pc \notin {"idle", "dead"}
        BY <3>1, <1>1, <1>2, <1>3 DEF StubInv, Numbers, UsedUp, Call
      <3> QED BY <3>1, <3>2, <1>3 DEF StubInv, TypeOK
    <2>2. CASE SlowUser
      <3>1. req_id % 2 = 1
        BY <2>2, <1>1, <1>2 DEF StubInv, OddNumbers
      <3>2. Waiting
        BY <2>2, <3>1 DEF StubInv, OddNumbers
      <3> QED BY <3>2 DEF Waiting
    <2> QED BY <2>1, <2>2 DEF Mode
  <1> QED BY <1>3, <1>4 DEF Accepted

-----------------------------------------------------------------------------
(* One lemma per action: each keeps the invariant.                         *)

\* cf = new CompletableFuture(); the handler is not about to use the old cf.
LEMMA NewFutureStub ==
  ASSUME StubInv, NEW k \in Kind, NewFuture(k)
  PROVE  StubInv'
  <1> USE DEF NewFuture
  <1>0. calls + 1 \in Call /\ calls \in Nat /\ restarts \in Nat /\ calls' = calls + 1
    BY DEF StubInv, TypeOK, Call
  <1>1. TypeOK'
    BY <1>0 DEF StubInv, TypeOK
  <1>2. \A f \in Call : f # calls + 1 => lifeOf'[f] = lifeOf[f] /\ (Current(f)' <=> Current(f))
    BY <1>0 DEF StubInv, TypeOK, Current, Call
  <1>3. lifeOf'[calls + 1] = restarts /\ idOf[calls + 1] = Null /\ value[calls + 1] = Null
    BY <1>0 DEF StubInv, TypeOK, LastCall
  <1>4. hpc # "complete" 
    BY DEF StubInv, Accepted
  <1>5. LastCall'
    BY <1>0, <1>2, <1>3 DEF StubInv, LastCall, TypeOK, Call
  <1>6. Numbers'
    BY <1>0, <1>2, <1>3 DEF StubInv, Numbers, TypeOK, Call
  <1>7. Messages'
    <2>1. ASSUME NEW m, m.call \in Call, Known(m) PROVE Known(m)'
      BY <2>1, <1>0 DEF Known, Call
    <2>2. \A r \in Replica : \A i \in 1..Len(pending[r]) : Known(pending[r][i])'
      BY <2>1, PendingTypes DEF StubInv, Messages
    <2>3. \A f \in Call : value[f] # Null => value[f].call <= calls'
      <3> SUFFICES ASSUME NEW f \in Call, value[f] # Null
                   PROVE  value[f].call <= calls'
        OBVIOUS
      <3>1. value[f].call \in Call /\ value[f].call <= calls
        BY DEF StubInv, Messages, TypeOK, Reply
      <3> QED BY <3>1, <1>0 DEF Call
    <2> QED BY <1>4, <2>1, <2>2, <2>3 DEF StubInv, Messages, TypeOK, Reply
  <1>8. UsedUp'
    BY <1>0, <1>2, <1>3 DEF StubInv, UsedUp, LastCall, TypeOK, Call, Current
  <1>9. SlowUser => OddNumbers'
    BY <1>0, <1>3 DEF StubInv, OddNumbers, Waiting, UsedUp, LastCall
  <1>10. ReplyMatchesInLife'
    BY <1>0, <1>2, <1>3 DEF StubInv, ReplyMatchesInLife, Messages, TypeOK, Reply, Call
  <1> QED BY <1>1, <1>4, <1>5, <1>6, <1>7, <1>8, <1>9, <1>10 DEF StubInv

\* int id_req = req_id.incrementAndGet(); the new number exceeds all others.
LEMMA TakeNumberStub ==
  ASSUME StubInv, TakeNumber
  PROVE  StubInv'
  <1> USE DEF TakeNumber
  <1>0. /\ cf \in Call /\ cf = calls /\ req_id \in Nat /\ idOf[cf] = Null
        /\ value[cf] = Null /\ lifeOf[cf] = restarts
    BY DEF StubInv, TypeOK, LastCall, Numbers, UsedUp
  <1>1. TypeOK'
    BY <1>0 DEF StubInv, TypeOK
  <1>2. idOf'[cf] = req_id + 1 /\ \A f \in Call : f # cf => idOf'[f] = idOf[f]
    BY <1>0 DEF StubInv, TypeOK
  <1>3. hpc # "complete"
    BY DEF StubInv, Accepted
  <1>4. LastCall'
    BY <1>0, <1>2 DEF StubInv, LastCall, Current, Call
  <1>5. Numbers'
    BY <1>0, <1>2 DEF StubInv, Numbers, Current, TypeOK, Call
  <1>6. Messages'
    <2>1. ASSUME NEW m, m.call \in Call, m.id \in Nat, Known(m) PROVE Known(m)'
      BY <2>1, <1>0, <1>2 DEF Known
    <2> QED BY <1>3, <2>1, PendingTypes DEF StubInv, Messages, TypeOK, Reply
  <1>7. UsedUp'
    BY <1>0, <1>2 DEF StubInv, UsedUp, Current, TypeOK, Call
  <1>8. SlowUser => OddNumbers'
    <2> SUFFICES ASSUME SlowUser PROVE OddNumbers'
      OBVIOUS
    <2>1. hpc = "idle" /\ ~Waiting /\ req_id % 2 = 0
      BY DEF StubInv, OddNumbers, Waiting
    <2>2. (req_id + 1) % 2 = 1
      BY <2>1, <1>0
    <2> QED BY <2>1, <2>2, <1>0, <1>2 DEF StubInv, OddNumbers, Waiting
  <1>9. ReplyMatchesInLife'
    BY DEF StubInv, ReplyMatchesInLife
  <1> QED BY <1>1, <1>3, <1>4, <1>5, <1>6, <1>7, <1>8, <1>9 DEF StubInv

\* The request carries the number its call has taken.
LEMMA BroadcastStub ==
  ASSUME StubInv, Broadcast
  PROVE  StubInv'
  <1> USE DEF Broadcast
  <1> DEFINE req == [id |-> id_req, call |-> cf, kind |-> kind]
  <1>0. cf \in Call /\ cf = calls /\ id_req = idOf[cf]
    BY DEF StubInv, TypeOK, LastCall, Numbers
  <1>1. kind \in Kind
    BY DEF StubInv, Numbers
  <1>2. req \in Request /\ Known(req)
    BY <1>0, <1>1 DEF StubInv, TypeOK, Request, Known, Call
  <1>3. TypeOK'
    BY <1>2 DEF StubInv, TypeOK
  <1>4. Messages'
    <2>1. SUFFICES ASSUME NEW r \in Replica, NEW i \in 1..Len(pending'[r])
                   PROVE  Known(pending'[r][i])
      BY DEF StubInv, Messages, Known
    <2>2. pending[r] \in Seq(Request)
      BY DEF StubInv, TypeOK
    <2>3. CASE r \in up
      <3>1. pending'[r] = Append(pending[r], req)
        BY <2>3
      <3> QED BY <3>1, <2>2, <1>2, AppendProperties DEF StubInv, Messages
    <2>4. CASE r \notin up
      BY <2>4 DEF StubInv, Messages
    <2> QED BY <2>3, <2>4
  <1>5. LastCall' /\ Numbers' /\ UsedUp'
    BY DEF StubInv, LastCall, Numbers, UsedUp, Current
  <1>6. hpc' = "complete" => Accepted(msg)'
    BY DEF StubInv, Accepted
  <1>7. SlowUser => OddNumbers'
    BY DEF StubInv, OddNumbers, Waiting
  <1>8. ReplyMatchesInLife'
    BY DEF StubInv, ReplyMatchesInLife
  <1> QED BY <1>3, <1>4, <1>5, <1>6, <1>7, <1>8 DEF StubInv

\* cf.get() returns; the call is completed.
LEMMA ReturnStub ==
  ASSUME StubInv, Return
  PROVE  StubInv'
  <1> USE DEF Return
  <1>0. cf \in Call /\ pc' \in {"idle", "dead"}
    BY DEF StubInv, TypeOK, LastCall
  <1>1. TypeOK'
    BY <1>0 DEF StubInv, TypeOK
  <1>2. LastCall' /\ Numbers' /\ UsedUp'
    BY <1>0 DEF StubInv, LastCall, Numbers, UsedUp, Current
  <1>3. Messages' /\ ReplyMatchesInLife' /\ hpc' # "complete"
    BY DEF StubInv, Messages, Known, ReplyMatchesInLife, Accepted
  <1>4. SlowUser => OddNumbers'
    BY <1>0 DEF StubInv, OddNumbers, Waiting
  <1> QED BY <1>1, <1>2, <1>3, <1>4 DEF StubInv

\* Only an accepted answer reaches the handler's second step.
LEMMA DeliverStub ==
  ASSUME StubInv, Mode, NEW rep \in inbox, Deliver(rep)
  PROVE  StubInv'
  <1> USE DEF Deliver
  <1>1. rep \in Reply /\ rep # Null
    BY DEF StubInv, TypeOK
  <1>2. TypeOK'
    BY <1>1 DEF StubInv, TypeOK
  <1>3. Accept(rep) => Accepted(rep)
    BY AcceptLemma
  <1>4. Accept(rep) => cf # Null
    BY DEF Accept
  <1>5. LastCall' /\ Numbers' /\ UsedUp'
    BY <1>4 DEF StubInv, LastCall, Numbers, UsedUp, Current
  <1>6. Messages'
    BY <1>1 DEF StubInv, Messages, Known
  <1>7. hpc' = "complete" => Accepted(msg)'
    BY <1>3 DEF StubInv, Accepted
  <1>8. SlowUser => OddNumbers'
    BY <1>3 DEF StubInv, OddNumbers, Waiting, Accepted
  <1>9. ReplyMatchesInLife'
    BY DEF StubInv, ReplyMatchesInLife
  <1> QED BY <1>2, <1>5, <1>6, <1>7, <1>8, <1>9 DEF StubInv

\* cf.complete(msg); the future is still the one of the call that waits.
LEMMA CompleteStub ==
  ASSUME StubInv, Complete
  PROVE  StubInv'
  <1> USE DEF Complete
  <1>0. /\ Accepted(msg) /\ msg \in Reply /\ msg # Null /\ Known(msg)
        /\ cf \in Call /\ cf = calls /\ lifeOf[cf] = restarts
    BY DEF StubInv, TypeOK, LastCall, Messages
  <1>1. value'[cf] = msg /\ \A f \in Call : f # cf => value'[f] = value[f]
    BY <1>0 DEF StubInv, TypeOK, Accepted
  <1>2. TypeOK'
    BY <1>0 DEF StubInv, TypeOK
  <1>3. LastCall' /\ Numbers'
    BY <1>0, <1>1 DEF StubInv, LastCall, Numbers, Current, Call
  <1>4. Messages'
    BY <1>0, <1>1 DEF StubInv, Messages, Known
  <1>5. UsedUp'
    BY <1>0, <1>1 DEF StubInv, UsedUp, Numbers, Accepted, Current, Call
  <1>6. SlowUser => OddNumbers'
    BY <1>0, <1>1 DEF StubInv, OddNumbers, Waiting, Accepted, Call
  <1>7. ReplyMatchesInLife'
    BY <1>0, <1>1 DEF StubInv, ReplyMatchesInLife, Accepted
  <1> QED BY <1>2, <1>3, <1>4, <1>5, <1>6, <1>7 DEF StubInv

\* req_id.incrementAndGet(); every number taken so far is used up.
LEMMA IncrementStub ==
  ASSUME StubInv, Increment
  PROVE  StubInv'
  <1> USE DEF Increment
  <1>0. req_id \in Nat /\ req_id' = req_id + 1 /\ hpc' = "idle"
    BY DEF StubInv, TypeOK
  <1>1. TypeOK'
    BY DEF StubInv, TypeOK
  <1>2. LastCall' /\ Numbers'
    BY <1>0 DEF StubInv, LastCall, Numbers, Current, TypeOK
  <1>3. Messages' /\ ReplyMatchesInLife'
    BY DEF StubInv, Messages, Known, ReplyMatchesInLife
  <1>4. UsedUp'
    BY <1>0 DEF StubInv, UsedUp, Numbers, Current, TypeOK
  <1>5. SlowUser => OddNumbers'
    <2> SUFFICES ASSUME SlowUser PROVE OddNumbers'
      OBVIOUS
    <2>1. req_id % 2 = 1 /\ value[cf] # Null
      BY DEF StubInv, OddNumbers, Waiting
    <2>2. (req_id + 1) % 2 = 0
      BY <2>1, <1>0
    <2> QED BY <2>1, <2>2, <1>0 DEF StubInv, OddNumbers, Waiting
  <1> QED BY <1>0, <1>1, <1>2, <1>3, <1>4, <1>5 DEF StubInv

\* A server answers with the number of the request.
LEMMA AnswerStub ==
  ASSUME StubInv, NEW r \in Replica, Answer(r)
  PROVE  StubInv'
  <1> USE DEF Answer, stubVars
  <1> DEFINE req == Head(pending[r])
             rep == [id |-> req.id, call |-> req.call, kind |-> req.kind, from |-> r]
  <1>0. pending[r] \in Seq(Request) /\ pending[r] # <<>>
    BY DEF StubInv, TypeOK
  <1>1. /\ req \in Request /\ req = pending[r][1] /\ 1 \in 1..Len(pending[r])
        /\ Tail(pending[r]) \in Seq(Request)
        /\ Len(Tail(pending[r])) = Len(pending[r]) - 1
        /\ \A i \in 1..Len(Tail(pending[r])) :
             Tail(pending[r])[i] = pending[r][i + 1] /\ i + 1 \in 1..Len(pending[r])
    BY <1>0, HeadTailProperties, ElementOfSeq
  <1>2. rep \in Reply /\ Known(rep)
    BY <1>1 DEF StubInv, Messages, Known, Request, Reply
  <1>3. /\ pending'[r] = Tail(pending[r])
        /\ \A q \in Replica : q # r => pending'[q] = pending[q]
    BY DEF StubInv, TypeOK
  <1>4. TypeOK'
    BY <1>1, <1>2 DEF StubInv, TypeOK
  <1>5. Messages'
    <2>1. \A q \in Replica : \A i \in 1..Len(pending'[q]) : Known(pending'[q][i])
      BY <1>1, <1>3 DEF StubInv, Messages
    <2> QED BY <2>1, <1>2 DEF StubInv, Messages, Known
  <1>6. LastCall' /\ Numbers' /\ UsedUp'
    BY DEF StubInv, LastCall, Numbers, UsedUp, Current
  <1>7. /\ hpc' = "complete" => Accepted(msg)'
        /\ SlowUser => OddNumbers'
        /\ ReplyMatchesInLife'
    BY DEF StubInv, Accepted, OddNumbers, Waiting, ReplyMatchesInLife
  <1> QED BY <1>4, <1>5, <1>6, <1>7 DEF StubInv

\* A crash drops requests.
LEMMA ReplicaCrashStub ==
  ASSUME StubInv, NEW r \in Replica, ReplicaCrash(r)
  PROVE  StubInv'
  <1> USE DEF ReplicaCrash, stubVars
  <1>1. /\ pending'[r] = <<>>
        /\ \A q \in Replica : q # r => pending'[q] = pending[q]
    BY DEF StubInv, TypeOK
  <1>2. TypeOK'
    BY DEF StubInv, TypeOK
  <1>3. Messages'
    <2>1. \A q \in Replica : \A i \in 1..Len(pending'[q]) : Known(pending'[q][i])
      BY <1>1 DEF StubInv, Messages
    <2> QED BY <2>1 DEF StubInv, Messages, Known
  <1>4. LastCall' /\ Numbers' /\ UsedUp'
    BY DEF StubInv, LastCall, Numbers, UsedUp, Current
  <1>5. /\ hpc' = "complete" => Accepted(msg)'
        /\ SlowUser => OddNumbers'
        /\ ReplyMatchesInLife'
    BY DEF StubInv, Accepted, OddNumbers, Waiting, ReplyMatchesInLife
  <1> QED BY <1>2, <1>3, <1>4, <1>5 DEF StubInv

\* A new process has made no call; the old answers keep their numbers.
LEMMA RestartStub ==
  ASSUME StubInv, Restart
  PROVE  StubInv'
  <1> USE DEF Restart
  <1>0. restarts \in Nat /\ restarts' = restarts + 1 /\ restarts' \in 0..MaxRestarts
    BY DEF StubInv, TypeOK
  <1>1. TypeOK'
    BY <1>0 DEF StubInv, TypeOK
  <1>2. \A f \in Call : ~Current(f)'
    BY <1>0 DEF StubInv, LastCall, Current, TypeOK
  <1>3. LastCall'
    BY <1>0, <1>2 DEF StubInv, LastCall, TypeOK
  <1>4. Numbers' /\ UsedUp'
    BY <1>2 DEF Numbers, UsedUp
  <1>5. Messages' /\ ReplyMatchesInLife'
    BY DEF StubInv, Messages, Known, ReplyMatchesInLife
  <1>6. SlowUser => OddNumbers'
    BY DEF StubInv, OddNumbers, Waiting
  <1> QED BY <1>1, <1>3, <1>4, <1>5, <1>6 DEF StubInv

-----------------------------------------------------------------------------
(***************************************************************************)
(* Every step of the stub, the servers and the client's process keeps the  *)
(* invariant.                                                              *)
(***************************************************************************)
LEMMA NextStub ==
  ASSUME StubInv, Mode, [Next]_vars
  PROVE  StubInv'
  <1>1. CASE UNCHANGED vars
    <2> USE <1>1 DEF vars, stubVars
    <2>1. TypeOK' /\ LastCall' /\ Numbers' /\ UsedUp'
      BY DEF StubInv, TypeOK, LastCall, Numbers, UsedUp, Current
    <2>2. /\ Messages' /\ ReplyMatchesInLife'
          /\ hpc' = "complete" => Accepted(msg)'
          /\ SlowUser => OddNumbers'
      BY DEF StubInv, Messages, Known, Accepted, OddNumbers, Waiting, ReplyMatchesInLife
    <2> QED BY <2>1, <2>2 DEF StubInv
  <1>2. ASSUME NEW k \in Kind, NewFuture(k) PROVE StubInv'
    BY <1>2, NewFutureStub
  <1>3. CASE UserStep
    BY <1>3, TakeNumberStub, BroadcastStub, ReturnStub DEF UserStep
  <1>4. CASE SpreadStep
    BY <1>4, DeliverStub, CompleteStub, IncrementStub DEF SpreadStep
  <1>5. ASSUME NEW r \in Replica, Answer(r) \/ ReplicaCrash(r) PROVE StubInv'
    BY <1>5, AnswerStub, ReplicaCrashStub
  <1>6. CASE Restart
    BY <1>6, RestartStub
  <1> QED BY <1>1, <1>2, <1>3, <1>4, <1>5, <1>6 DEF Next

\* The invariant holds in every reachable state.
LEMMA StubInvariance ==
  ASSUME Mode
  PROVE  Spec => []StubInv
  <1>1. StubInv /\ [Next]_vars => StubInv'
    BY NextStub
  <1> QED BY <1>1, InitStub, PTL DEF Spec

(***************************************************************************)
(* The variables of the stub keep their types, whenever the numbers can    *)
(* be trusted.                                                             *)
(***************************************************************************)
THEOREM StubTypeCorrect ==
  ASSUME Mode
  PROVE  Spec => []TypeOK
  <1>1. StubInv => TypeOK
    BY DEF StubInv
  <1> QED BY <1>1, StubInvariance, PTL

(***************************************************************************)
(* If no process ever reuses the client's name, every call returns the     *)
(* answer to its own request, although req_id and cf are read and written  *)
(* by two threads without a lock and every server answers every request.   *)
(***************************************************************************)
THEOREM ReplyMatchesRequestHolds ==
  ASSUME MaxRestarts = 0
  PROVE  Spec => []ReplyMatchesRequest
  <1>1. StubInv => ReplyMatchesRequest
    <2> SUFFICES ASSUME StubInv, NEW f \in Call, value[f] # Null
                 PROVE  value[f].call = f
      BY DEF ReplyMatchesRequest
    <2>1. value[f].call \in Call
      BY DEF StubInv, TypeOK, Reply
    <2>2. lifeOf[value[f].call] = 0 /\ lifeOf[f] = 0
      BY <2>1 DEF StubInv, TypeOK
    <2> QED BY <2>2 DEF StubInv, ReplyMatchesInLife
  <1>2. Mode
    BY DEF Mode
  <1> QED BY <1>1, <1>2, StubInvariance, PTL

(***************************************************************************)
(* If the next call starts after the handler of the previous answer has    *)
(* ended, a call never returns the answer to another request of the same   *)
(* process, whatever answers to earlier processes still arrive.            *)
(***************************************************************************)
THEOREM ReplyMatchesInLifeHolds ==
  ASSUME SlowUser
  PROVE  Spec => []ReplyMatchesInLife
  <1>1. StubInv => ReplyMatchesInLife
    BY DEF StubInv
  <1>2. Mode
    BY DEF Mode
  <1> QED BY <1>1, <1>2, StubInvariance, PTL

=============================================================================
