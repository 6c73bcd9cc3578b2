----------------------------- MODULE PlainUsers -----------------------------
(***************************************************************************)
(* SchedulerImp and its clients, with a history of how they behaved.  A    *)
(* run of Client_Simple takes one task and ends it before it ends itself.  *)
(***************************************************************************)
EXTENDS SchedulerImp

VARIABLE plain    \* so far clients held one task at most, no crash went unreported,
                  \* and nobody came back under an old name

PlainInit == Init /\ plain = TRUE
PlainNext ==
  /\ Next
  /\ plain' = (/\ plain
               /\ \A c \in Client : Cardinality(held'[c]) <= 1
               /\ \A c \in alive \ alive' : notices'[c] > notices[c]
               /\ alive' \subseteq alive)
PlainSpec == PlainInit /\ [][PlainNext]_<<vars, plain>>

(***************************************************************************)
(* As long as the users are plain, a task that is assigned to a client     *)
(* that no longer has it is about to be taken back: some ClientFailure     *)
(* naming that client is still to come.  Otherwise no request ever moves   *)
(* the task again.                                                         *)
(***************************************************************************)
NoOrphan ==
  plain => \A t \in Task : \A c \in Client :
             sched.processing[t] = c /\ t \notin held[c] => notices[c] > 0

=============================================================================
