--------------------------- MODULE RemoteScheduler ---------------------------
(***************************************************************************)
(* The client stub.  The user's thread runs newTask, getTask and endTask,  *)
(* which have one shape: create a future in the field cf, take the next    *)
(* request number, broadcast, block in cf.get().  The Spread thread runs   *)
(* the reply handlers: compare the number of the reply with req_id,        *)
(* complete the future, increment req_id.  The two threads share cf and    *)
(* req_id and no lock, so every access is a step of its own.               *)
(*                                                                         *)
(* The servers are reduced to what the stub can observe: each one answers  *)
(* the requests it receives in their agreed order, some time later, and    *)
(* may crash as long as one is left.  Replies are sent reliable, not       *)
(* ordered, so they arrive in any order.                                   *)
(***************************************************************************)
EXTENDS Naturals, Sequences, FiniteSets

CONSTANTS Replica,      \* the servers
          Null,         \* Java's null
          MaxCalls,     \* bound: calls of the stub's methods
          MaxRestarts,  \* bound: restarts of the client under its old name
          SlowUser      \* the next call starts after the reply handler is done

Kind == {"NewTask", "GetTask", "EndTask"}
Call == 1..MaxCalls   \* a call, and the future it creates

Request == [id : Nat, call : Call, kind : Kind]
Reply   == [id : Nat, call : Call, kind : Kind, from : Replica]

ASSUME StubAssumption ==
  /\ IsFiniteSet(Replica) /\ Replica # {}
  /\ MaxCalls \in Nat /\ MaxRestarts \in Nat /\ SlowUser \in BOOLEAN
  /\ Null \notin Nat /\ Null \notin Kind /\ Null \notin Reply

VARIABLES
  req_id,    \* AtomicInteger req_id
  cf,        \* CompletableFuture cf: the call that created it, Null at first
  pc,        \* where the user's thread is
  id_req,    \* its local variable id_req
  kind,      \* which method it is in
  hpc,       \* where the Spread thread is
  msg,       \* the reply its handler was called with
  inbox,     \* replies that arrived at the client's connection
  pending,   \* per server: requests delivered and not yet answered
  up         \* servers that have not crashed

\* History and bounds.
VARIABLES
  calls,     \* calls started so far
  idOf,      \* the request number each call has taken, Null before
  lifeOf,    \* restarts of the client before each call
  value,     \* the reply each future was completed with, Null before
  restarts

stubVars == <<req_id, cf, pc, id_req, kind, hpc, msg>>
vars == <<stubVars, inbox, pending, up, calls, idOf, lifeOf, value, restarts>>

Init ==
  /\ req_id = 0 /\ cf = Null
  /\ pc = "idle" /\ id_req = 0 /\ kind = Null
  /\ hpc = "idle" /\ msg = Null
  /\ inbox = {}
  /\ pending = [r \in Replica |-> <<>>]
  /\ up = Replica
  /\ calls = 0
  /\ idOf = [f \in Call |-> Null]
  /\ lifeOf = [f \in Call |-> 0]
  /\ value = [f \in Call |-> Null]
  /\ restarts = 0

-----------------------------------------------------------------------------
(* The user's thread.                                                      *)

\* cf = new CompletableFuture();
NewFuture(k) ==
  /\ pc = "idle" /\ calls < MaxCalls
  /\ SlowUser => hpc = "idle"
  /\ calls' = calls + 1
  /\ cf' = calls + 1
  /\ kind' = k
  /\ pc' = "number"
  /\ lifeOf' = [lifeOf EXCEPT ![calls + 1] = restarts]
  /\ UNCHANGED <<req_id, id_req, hpc, msg, inbox, pending, up, idOf, value, restarts>>

\* int id_req = req_id.incrementAndGet();
TakeNumber ==
  /\ pc = "number"
  /\ req_id' = req_id + 1
  /\ id_req' = req_id + 1
  /\ idOf' = [idOf EXCEPT ![cf] = req_id + 1]
  /\ pc' = "send"
  /\ UNCHANGED <<cf, kind, hpc, msg, inbox, pending, up, calls, lifeOf, value, restarts>>

\* broadcast(this.server_group, new ...Req(id_req, ...));
Broadcast ==
  /\ pc = "send"
  /\ LET req == [id |-> id_req, call |-> cf, kind |-> kind]
     IN  pending' = [r \in Replica |->
                       IF r \in up THEN Append(pending[r], req) ELSE pending[r]]
  /\ pc' = "get"
  /\ UNCHANGED <<req_id, cf, id_req, kind, hpc, msg, inbox, up, calls, idOf, lifeOf, value, restarts>>

(***************************************************************************)
(* cf.get() returns.  A reply of another class makes the cast throw; the   *)
(* catch clause prints it and the null reply is dereferenced.  Client_UI   *)
(* catches that exception around getTask and endTask; around newTask it    *)
(* does not, and the thread ends.                                          *)
(***************************************************************************)
Return ==
  /\ pc = "get" /\ value[cf] # Null
  /\ pc' = IF value[cf].kind # kind /\ kind = "NewTask" THEN "dead" ELSE "idle"
  /\ UNCHANGED <<req_id, cf, id_req, kind, hpc, msg, inbox, pending, up, calls, idOf,
                 lifeOf, value, restarts>>

-----------------------------------------------------------------------------
(* The Spread thread.                                                      *)

\* Seeded fault: the number of the reply is not compared.
AcceptAny(rep) == cf # Null

\* Seeded fault: the handler expects the number after the one it got.
AcceptOffByOne(rep) == rep.id = req_id + 1 /\ cf # Null

\* if(msg.id == req_id.intValue() && cf!=null)
Accept(rep) == rep.id = req_id /\ cf # Null

Deliver(rep) ==
  /\ hpc = "idle" /\ rep \in inbox
  /\ inbox' = inbox \ {rep}
  /\ IF Accept(rep) THEN hpc' = "complete" /\ msg' = rep
                    ELSE UNCHANGED <<hpc, msg>>
  /\ UNCHANGED <<req_id, cf, pc, id_req, kind, pending, up, calls, idOf, lifeOf, value, restarts>>

\* Seeded fault: the future gets the request back and not a reply.
CompleteWithRequest ==
  /\ hpc = "complete"
  /\ value' = [value EXCEPT ![cf] = [id |-> msg.id, call |-> msg.call, kind |-> msg.kind]]
  /\ hpc' = "increment"
  /\ UNCHANGED <<req_id, cf, pc, id_req, kind, msg, inbox, pending, up, calls, idOf, lifeOf, restarts>>

\* cf.complete(msg);  a future that has a value keeps it
Complete ==
  /\ hpc = "complete"
  /\ value' = [value EXCEPT ![cf] = IF @ = Null THEN msg ELSE @]
  /\ hpc' = "increment"
  /\ UNCHANGED <<req_id, cf, pc, id_req, kind, msg, inbox, pending, up, calls, idOf, lifeOf, restarts>>

\* req_id.incrementAndGet();
Increment ==
  /\ hpc = "increment"
  /\ req_id' = req_id + 1
  /\ hpc' = "idle" /\ msg' = Null
  /\ UNCHANGED <<cf, pc, id_req, kind, inbox, pending, up, calls, idOf, lifeOf, value, restarts>>

-----------------------------------------------------------------------------
(* The servers, as the stub sees them, and the client's process.           *)

\* directMsg(sender.getSender(), new ...Rep(msg.id, ...))
Answer(r) ==
  /\ r \in up /\ pending[r] # <<>>
  /\ LET req == Head(pending[r])
     IN  inbox' = inbox \cup
           {[id |-> req.id, call |-> req.call, kind |-> req.kind, from |-> r]}
  /\ pending' = [pending EXCEPT ![r] = Tail(@)]
  /\ UNCHANGED <<stubVars, up, calls, idOf, lifeOf, value, restarts>>

ReplicaCrash(r) ==
  /\ r \in up /\ Cardinality(up) > 1
  /\ up' = up \ {r}
  /\ pending' = [pending EXCEPT ![r] = <<>>]
  /\ UNCHANGED <<stubVars, inbox, calls, idOf, lifeOf, value, restarts>>

(***************************************************************************)
(* The client's process ends and new RemoteScheduler(id) connects under    *)
(* the same private name "user-" + id.  What had arrived is lost; answers  *)
(* to the old requests that are still to be sent reach the new connection. *)
(***************************************************************************)
Restart ==
  /\ restarts < MaxRestarts
  /\ restarts' = restarts + 1
  /\ req_id' = 0 /\ cf' = Null
  /\ pc' = "idle" /\ id_req' = 0 /\ kind' = Null
  /\ hpc' = "idle" /\ msg' = Null
  /\ inbox' = {}
  /\ UNCHANGED <<pending, up, calls, idOf, lifeOf, value>>

UserStep == TakeNumber \/ Broadcast \/ Return
SpreadStep == (\E rep \in inbox : Deliver(rep)) \/ Complete \/ Increment

Next ==
  \/ \E k \in Kind : NewFuture(k)
  \/ UserStep
  \/ SpreadStep
  \/ \E r \in Replica : Answer(r) \/ ReplicaCrash(r)
  \/ Restart

Spec == Init /\ [][Next]_vars

(***************************************************************************)
(* Both threads run and a server that is up answers; nobody has to call,   *)
(* crash or restart.                                                       *)
(***************************************************************************)
Fairness ==
  /\ WF_vars(UserStep)
  /\ WF_vars(SpreadStep)
  /\ \A r \in Replica : WF_vars(Answer(r))

FairSpec == Spec /\ Fairness

-----------------------------------------------------------------------------
\* The variables hold values of their types.
TypeOK ==
  /\ req_id \in Nat /\ id_req \in Nat
  /\ cf \in Call \cup {Null}
  /\ pc \in {"idle", "number", "send", "get", "dead"}
  /\ kind \in Kind \cup {Null}
  /\ hpc \in {"idle", "complete", "increment"}
  /\ msg \in Reply \cup {Null}
  /\ inbox \subseteq Reply
  /\ pending \in [Replica -> Seq(Request)]
  /\ up \subseteq Replica
  /\ calls \in 0..MaxCalls
  /\ idOf \in [Call -> Nat \cup {Null}]
  /\ lifeOf \in [Call -> 0..MaxRestarts]
  /\ value \in [Call -> Reply \cup {Null}]
  /\ restarts \in 0..MaxRestarts

(***************************************************************************)
(* A call returns the answer to its own request and to no other one        *)
(* (RelatorioTF.pdf, p. 9, on the request number: "de forma a termos a     *)
(* certeza que uma dada resposta recebida corresponde efetivamente ao      *)
(* pedido efetuado").                                                      *)
(***************************************************************************)
ReplyMatchesRequest ==
  \A f \in Call : value[f] # Null => value[f].call = f

(***************************************************************************)
(* Among the requests of one process, a future is only completed with the  *)
(* answer to its own, even when answers to an earlier process under the    *)
(* same name still arrive.  This holds for an unhurried user, whose        *)
(* requests carry odd numbers only.  It fails for a hurried one: the race  *)
(* on req_id gives a request of the first process an even number, and its  *)
(* answer shifts the numbers of the second one (five calls are needed).    *)
(***************************************************************************)
ReplyMatchesInLife ==
  \A f \in Call :
    value[f] # Null /\ lifeOf[value[f].call] = lifeOf[f] => value[f].call = f

(***************************************************************************)
(* A call of the stub returns or throws, as long as one server is up:      *)
(* cf.get() has no timeout, so a future that is never completed blocks the *)
(* user.                                                                   *)
(***************************************************************************)
CallReturns == pc \in {"number", "send", "get"} ~> pc \in {"idle", "dead"}

=============================================================================
