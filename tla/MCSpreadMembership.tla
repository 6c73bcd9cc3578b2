------------------------- MODULE MCSpreadMembership -------------------------
(* Small instances of SpreadMembership: daemons 1 and 2 share a segment,      *)
(* daemon 3 has one of its own.                                               *)
EXTENDS SpreadMembership

MCSegOf == [p \in Procs |-> IF p = 3 THEN 2 ELSE 1]

Bounds(f, s, a, t, r) ==
    [forms |-> f, losses |-> s, arrivals |-> a, late |-> t, restarts |-> r]

MCStarts ==
    { \* an operating ring loses its token, perhaps at every daemon
      [up |-> {1, 2, 3}, ring |-> {1, 2, 3}, bounds |-> Bounds(1, 3, 4, 0, 0)],
      \* a ring of one segment and a daemon of the other find each other
      [up |-> {1, 2, 3}, ring |-> {1, 2}, bounds |-> Bounds(1, 1, 4, 0, 0)],
      \* everybody starts
      [up |-> {1, 2, 3}, ring |-> {}, bounds |-> Bounds(1, 0, 4, 0, 0)],
      \* a second attempt after a first one failed or was interrupted
      [up |-> {1, 2}, ring |-> {1, 2}, bounds |-> Bounds(2, 2, 3, 0, 0)],
      \* a daemon is started again, or the third one late
      [up |-> {1, 2}, ring |-> {1, 2}, bounds |-> Bounds(1, 1, 3, 0, 1)],
      \* packets of an earlier phase arrive in a later one
      [up |-> {1, 3}, ring |-> {1, 3}, bounds |-> Bounds(2, 1, 4, 1, 0)],
      \* the daemon that joins is referred to the leader of the ring, late
      [up |-> {1, 2, 3}, ring |-> {1, 2}, bounds |-> Bounds(1, 0, 3, 1, 0)] }

\* One segment: daemon 1 starts and gathers 2 and 3, whose ring lost its token;
\* the packet that is late is its ALIVE to 2, which reaches 2 while the new
\* membership is being installed.
MCOneSegment == [p \in Procs |-> 1]
MCLateStarts == { [up |-> {1, 2, 3}, ring |-> {2, 3}, bounds |-> Bounds(1, 2, 6, 1, 0)] }
LateAlive ==
    /\ \A m \in late : m.type = "ALIVE" /\ m.from = 1 /\ m.to = 2
    /\ \A p \in {2, 3} : d[p].State # "GATHER"
    /\ d[1].State # "REPRESENTED"
    /\ d[1].State = "GATHER" => d[1].F_members = <<1, 2, 3>>

\* One segment: daemon 3 of the ring {2, 3} loses its token and is represented
\* by daemon 1, which starts, while 2 still takes it for a member of its ring;
\* a packet of 1 finds 3 again after the form token was lost on it.
MCTwiceStarts == { [up |-> {1, 2, 3}, ring |-> {2, 3}, bounds |-> Bounds(1, 2, 7, 1, 0)] }
LatePacket ==
    /\ \A m \in late : m.from = 1 /\ m.to = 3
    /\ d[1].State # "REPRESENTED" /\ d[3].State # "GATHER"
    /\ d[2].State \in {"OP", "GATHER", "FORM"}
=============================================================================
