-------------------------- MODULE MCRemoteScheduler --------------------------
(***************************************************************************)
(* RemoteScheduler with two kinds of users: a hurried one, who calls again *)
(* as soon as a call returns and whose process lives on, and a slow one,   *)
(* whose next call finds the reply handler done and whose process may be   *)
(* restarted under its name.                                               *)
(***************************************************************************)
EXTENDS RemoteScheduler

CONSTANTS SlowCalls    \* bound: calls of the slow user

VARIABLE user

Hurried == INSTANCE RemoteScheduler WITH SlowUser <- FALSE, MaxRestarts <- 0
Slow == INSTANCE RemoteScheduler WITH SlowUser <- TRUE

MCInit == Init /\ user \in {"hurried", "slow"}
MCNext ==
  \/ user = "hurried" /\ Hurried!Next /\ UNCHANGED user
  \/ user = "slow" /\ Slow!Next /\ calls' <= SlowCalls /\ UNCHANGED user
MCSpec == MCInit /\ [][MCNext]_<<vars, user>> /\ Fairness

(***************************************************************************)
(* Each call of a slow user returns or throws as long as one server is up. *)
(***************************************************************************)
SlowCallReturns ==
  user = "slow" /\ pc \in {"number", "send", "get"} ~> pc \in {"idle", "dead"}

=============================================================================
