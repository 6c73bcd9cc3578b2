--------------------------- MODULE MCSchedulerImp ---------------------------
(***************************************************************************)
(* Small instances of SchedulerImp.  The hash order of the tasks is an     *)
(* arbitrary but fixed one, opposite to the order of their names.          *)
(***************************************************************************)
EXTENDS PlainUsers, TLC

CONSTANTS t1, t2, t3

MCRank3 == t1 :> 3 @@ t2 :> 2 @@ t3 :> 1
MCRank2 == t1 :> 2 @@ t2 :> 1

=============================================================================
