------------------------------ MODULE TaskPool ------------------------------
(***************************************************************************)
(* What the task store promises, without lists, maps or iteration orders:  *)
(* a URL is unknown, waiting for the first time, waiting again after its   *)
(* client failed, or assigned to exactly one client.  Tasks that came back *)
(* are handed out before any other; the others in order of arrival.        *)
(***************************************************************************)
EXTENDS Naturals, Sequences, Functions

CONSTANTS Task, Client, Null

VARIABLES fresh,     \* tasks never assigned, oldest first
          returned,  \* tasks taken back from a failed client
          holder     \* the client of each assigned task, Null for the others

poolVars == <<fresh, returned, holder>>

Unknown(t) == t \notin Range(fresh) /\ t \notin returned /\ holder[t] = Null

Init == fresh = <<>> /\ returned = {} /\ holder = [t \in Task |-> Null]

Submit(t) ==
  /\ Unknown(t)
  /\ fresh' = Append(fresh, t)
  /\ UNCHANGED <<returned, holder>>

TakeReturned(c, t) ==
  /\ t \in returned
  /\ returned' = returned \ {t}
  /\ holder' = [holder EXCEPT ![t] = c]
  /\ UNCHANGED fresh

TakeFresh(c) ==
  /\ returned = {} /\ fresh # <<>>
  /\ fresh' = Tail(fresh)
  /\ holder' = [holder EXCEPT ![Head(fresh)] = c]
  /\ UNCHANGED returned

Finish(t) ==
  /\ holder[t] # Null
  /\ holder' = [holder EXCEPT ![t] = Null]
  /\ UNCHANGED <<fresh, returned>>

TakeBack(t) ==
  /\ holder[t] # Null
  /\ holder' = [holder EXCEPT ![t] = Null]
  /\ returned' = returned \cup {t}
  /\ UNCHANGED fresh

Next ==
  \/ \E t \in Task : Submit(t) \/ Finish(t) \/ TakeBack(t)
  \/ \E c \in Client : TakeFresh(c) \/ \E t \in Task : TakeReturned(c, t)

Spec == Init /\ [][Next]_poolVars

=============================================================================
