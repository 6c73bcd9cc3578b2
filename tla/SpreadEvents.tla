---------------------------- MODULE SpreadEvents ----------------------------
(* The event loop of Spread (libspread-util/src/events.c), the only scheduler  *)
(* of a daemon: timers in a queue ordered by time, descriptors in three queues *)
(* by priority.  A round runs all due timers, then every ready descriptor of   *)
(* the highest priority that has one, then one of low priority.  Callbacks run *)
(* to their end and change all of this while the loop is walking over it.      *)
(*                                                                             *)
(* Callbacks are sequences of calls of the library (Programs); a time is a     *)
(* pair of seconds and USEC-ths; the slow-event statistics are left out.       *)
EXTENDS Integers, SequencesExt, FiniteSetsExt

CONSTANTS Programs,      \* [attached, handlers]: the calls made before E_handle_events, and the
                         \* callbacks: a function from their names to what they may call
          USEC,          \* microseconds in a second
          MaxSec         \* bound: the seconds that are followed

VARIABLES e,      \* the static variables of events.c
          loop,   \* the local variables of E_handle_events
          program,
          now,    \* the clock
          seen    \* history: did a timer run early, and how often descriptors were passed over

vars == <<e, loop, program, now, seen>>

LOW == 0
MEDIUM == 1
HIGH == 2
Priorities == LOW .. HIGH
Long_timeout == [sec |-> 10000, usec |-> 0]

E_add_time(t, d) ==
    LET u == t.usec + d.usec
    IN  IF u > USEC THEN [sec |-> t.sec + d.sec + 1, usec |-> u - USEC] ELSE [sec |-> t.sec + d.sec, usec |-> u]

E_sub_time(t, d) ==
    LET u == t.usec - d.usec
    IN  IF u < 0 THEN [sec |-> t.sec - d.sec - 1, usec |-> u + USEC] ELSE [sec |-> t.sec - d.sec, usec |-> u]

E_compare_time(s, t) == IF s.sec # t.sec THEN s.sec - t.sec ELSE s.usec - t.usec

-----------------------------------------------------------------------------
(* Timers.  A timer is named by its function, code and data. *)

\* E_queue: behind the timers of the same time, and instead of itself.
E_queue(s, timer, delta) ==
    LET t == E_add_time(now, delta)
        rest == SelectSeq(s.Time_queue, LAMBDA x : x.timer # timer)
        before == SelectSeq(rest, LAMBDA x : E_compare_time(x.t, t) <= 0)
        after == SelectSeq(rest, LAMBDA x : E_compare_time(x.t, t) > 0)
    IN  [s EXCEPT !.Time_queue = before \o <<[timer |-> timer, t |-> t]>> \o after]

E_dequeue(s, timer) == [s EXCEPT !.Time_queue = SelectSeq(@, LAMBDA x : x.timer # timer)]

-----------------------------------------------------------------------------
(* Descriptors.  An entry of Fd_queue[priority] is [fd, type, func, active]. *)

Index(q, fd, type) == {j \in DOMAIN q : q[j].fd = fd /\ q[j].type = type}
Active(q) == {j \in DOMAIN q : q[j].active}

E_attach_fd(s, fd, type, func, priority) ==
    LET q == s.Fd_queue[priority]
        entry == [fd |-> fd, type |-> type, func |-> func, active |-> TRUE]
    IN  IF Index(q, fd, type) # {}
        THEN [s EXCEPT !.Fd_queue[priority][Min(Index(q, fd, type))] = entry]
        ELSE [s EXCEPT !.Fd_queue[priority] = Append(@, entry),
                       !.Fd_mask = IF s.Active_priority <= priority THEN @ \cup {<<fd, type>>} ELSE @]

\* The last entry takes the place of the one that goes.
E_detach_fd_priority(s, fd, type, priority) ==
    LET q == s.Fd_queue[priority]
        i == Min(Index(q, fd, type))
    IN  IF Index(q, fd, type) = {} THEN s
        ELSE [s EXCEPT !.Fd_queue[priority] = Front([q EXCEPT ![i] = Last(q)]),
                       !.Fd_mask = @ \ {<<fd, type>>}]

E_detach_fd(s, fd, type) ==
    FoldLeft(LAMBDA x, p : E_detach_fd_priority(x, fd, type, p), s, <<LOW, MEDIUM, HIGH>>)

SetActive(s, fd, type, active) ==
    [s EXCEPT !.Fd_queue = [p \in Priorities |-> [j \in DOMAIN @[p] |->
        IF j \in Index(@[p], fd, type) THEN [@[p][j] EXCEPT !.active = active] ELSE @[p][j]]]]

E_deactivate_fd(s, fd, type) ==
    LET found == \E p \in Priorities : Index(s.Fd_queue[p], fd, type) # {}
    IN  [SetActive(s, fd, type, FALSE) EXCEPT !.Fd_mask = IF found THEN @ \ {<<fd, type>>} ELSE @]

E_activate_fd(s, fd, type) ==
    LET shown == \E p \in s.Active_priority .. HIGH : Index(s.Fd_queue[p], fd, type) # {}
    IN  [SetActive(s, fd, type, TRUE) EXCEPT !.Fd_mask = IF shown THEN @ \cup {<<fd, type>>} ELSE @]

E_set_active_threshold(s, priority) ==
    IF priority = s.Active_priority THEN s
    ELSE [s EXCEPT !.Active_priority = priority,
                   !.Fd_mask = UNION {{<<s.Fd_queue[p][j].fd, s.Fd_queue[p][j].type>> : j \in Active(s.Fd_queue[p])} :
                                      p \in priority .. HIGH}]

-----------------------------------------------------------------------------
(* Callbacks *)

\* One call c of the library.
Do(s, c) ==
    CASE c.op = "queue" -> E_queue(s, c.timer, c.delta)
      [] c.op = "dequeue" -> E_dequeue(s, c.timer)
      [] c.op = "attach" -> E_attach_fd(s, c.fd, c.type, c.func, c.priority)
      [] c.op = "detach" -> E_detach_fd(s, c.fd, c.type)
      [] c.op = "detach_priority" -> E_detach_fd_priority(s, c.fd, c.type, c.priority)
      [] c.op = "deactivate" -> E_deactivate_fd(s, c.fd, c.type)
      [] c.op = "activate" -> E_activate_fd(s, c.fd, c.type)
      [] c.op = "threshold" -> E_set_active_threshold(s, c.priority)
      [] c.op = "exit" -> [s EXCEPT !.Exit_events = TRUE]

Run(s, calls) == FoldLeft(Do, s, calls)

\* As the daemon calls: what is detached from a priority is there, and what is
\* attached is attached nowhere else and not deactivated.
Legal(s, c) ==
    /\ c.op = "detach_priority" => Index(s.Fd_queue[c.priority], c.fd, c.type) # {}
    /\ c.op = "attach" => \A p \in Priorities : \A j \in Index(s.Fd_queue[p], c.fd, c.type) :
                             p = c.priority /\ s.Fd_queue[p][j].active

MayCall(func) == {calls \in program.handlers[func] : \A i \in DOMAIN calls : Legal(Run(e, SubSeq(calls, 1, i - 1)), calls[i])}

-----------------------------------------------------------------------------
(* E_handle_events *)

\* Who was passed over, counted anew when sessions are attached or detached.
Passed(s, over) == [f \in DOMAIN seen.passed |->
    IF s.Fd_queue[LOW] # e.Fd_queue[LOW] THEN 0 ELSE over[f]]

Real(t) == t.sec * USEC + t.usec
Ended == loop.pc = "end"

\* Due timers, first to last; none before the first round without urgent descriptors.
HandleTime ==
    /\ loop.pc = "times"
    /\ LET due == ~loop.first /\ e.Time_queue # <<>> /\ E_compare_time(now, e.Time_queue[1].t) >= 0
           head == e.Time_queue[1]
           out == E_sub_time(head.t, now)
           popped == [e EXCEPT !.Time_queue = Tail(@)]
       IN  \/ /\ due
              /\ \E calls \in MayCall(head.timer) :
                   LET s == Run(popped, calls)
                   IN  /\ e' = s /\ loop' = [loop EXCEPT !.pc = IF s.Exit_events THEN "end" ELSE "times"]
                       /\ seen' = [early |-> Real(now) < Real(head.t), passed |-> Passed(s, seen.passed)]
           \/ /\ ~due
              /\ loop' = [loop EXCEPT !.pc = "select",
                            !.timeout = IF e.Time_queue = <<>> THEN Long_timeout
                                        ELSE IF out.sec < 0 THEN [sec |-> 0, usec |-> 0] ELSE out]
              /\ UNCHANGED <<e, seen>>
    /\ UNCHANGED now

\* The two calls of select: what is ready, or else nothing until the timeout.
Select ==
    /\ loop.pc = "select"
    /\ \/ \E ready \in SUBSET e.Fd_mask \ {{}} :
            /\ loop' = [loop EXCEPT !.pc = "urgent", !.mask = ready, !.num_set = Cardinality(ready),
                                    !.i = HIGH, !.j = 1, !.treated = FALSE]
            /\ UNCHANGED now
       \/ /\ (loop.timeout # Long_timeout /\ Real(now) < MaxSec * USEC) \/ e.Exit_events
          /\ loop' = [loop EXCEPT !.pc = "urgent", !.mask = {}, !.num_set = 0, !.i = HIGH, !.j = 1,
                                  !.treated = FALSE]
          /\ LET wake == Real(now) + Real(loop.timeout)
             IN  now' = IF e.Exit_events THEN now ELSE [sec |-> wake \div USEC, usec |-> wake % USEC]
    /\ UNCHANGED <<e, seen>>

\* The entries of a queue that select reported, from index j on.
Set(q, j) == {k \in DOMAIN q : k >= j /\ <<q[k].fd, q[k].type>> \in loop.mask}

\* High and medium priority: all that is ready in the first queue with any.
HandleUrgent ==
    /\ loop.pc = "urgent"
    /\ LET q == e.Fd_queue[loop.i]
           k == Min(Set(q, loop.j))
       IN  IF loop.num_set > 0 /\ Set(q, loop.j) # {}
           THEN \E calls \in MayCall(q[k].func) :
                  LET s == Run(e, calls)
                  IN  /\ e' = s
                      /\ loop' = [loop EXCEPT !.pc = IF s.Exit_events THEN "end" ELSE "urgent", !.j = k + 1,
                                              !.treated = TRUE, !.num_set = @ - 1]
                      /\ seen' = [seen EXCEPT !.passed = Passed(s, @)]
           ELSE /\ loop' = IF loop.treated \/ loop.num_set = 0 \/ loop.i = MEDIUM
                           THEN [loop EXCEPT !.pc = "low", !.first = @ /\ loop.treated]
                           ELSE [loop EXCEPT !.i = @ - 1, !.j = 1]
                /\ UNCHANGED <<e, seen>>
    /\ UNCHANGED now

\* One of low priority, in turn.
Turn(q, rr) == [i \in DOMAIN q |-> ((i - 1 + rr) % Len(q)) + 1]

\* Mutant: the turn always starts at the same place.
NextTurnSame(q, k) == 0
NextTurn(q, k) == k % Len(q)

HandleLow ==
    /\ loop.pc = "low"
    /\ LET q == e.Fd_queue[LOW]
           turn == Turn(q, e.Round_robin)
           set == {i \in DOMAIN q : turn[i] \in Set(q, 1)}
           k == turn[Min(set)]
       IN  IF set # {} /\ loop.num_set > 0 /\ e.Active_priority = LOW
           THEN /\ \E calls \in MayCall(q[k].func) :
                     LET s == Run([e EXCEPT !.Round_robin = NextTurn(q, k)], calls)
                         ready == {<<q[i].fd, q[i].type>> : i \in Set(q, 1)}
                         over == [f \in DOMAIN seen.passed |-> IF f \in ready \ {<<q[k].fd, q[k].type>>}
                                                              THEN seen.passed[f] + 1 ELSE 0]
                     IN  /\ e' = s
                         /\ loop' = [loop EXCEPT !.pc = IF s.Exit_events THEN "end" ELSE "times", !.mask = {},
                                                 !.num_set = 0]
                         /\ seen' = [seen EXCEPT !.passed = Passed(s, over)]
           ELSE /\ loop' = [loop EXCEPT !.pc = IF e.Exit_events THEN "end" ELSE "times", !.mask = {}, !.num_set = 0]
                /\ UNCHANGED <<e, seen>>
    /\ UNCHANGED now

\* Time passes (callbacks take none of their own); a signal handler asks for the end.
Tick ==
    /\ loop.pc = "times" /\ Real(now) < MaxSec * USEC
    /\ now' = [sec |-> (Real(now) + 1) \div USEC, usec |-> (Real(now) + 1) % USEC]
    /\ UNCHANGED <<e, loop, seen>>

E_exit_events_async_safe ==
    /\ ~Ended /\ ~e.Exit_events
    /\ e' = [e EXCEPT !.Exit_events = TRUE]
    /\ UNCHANGED <<loop, now, seen>>

-----------------------------------------------------------------------------
Names == LET calls == UNION {ToSet(c) : c \in {program.attached} \cup UNION {program.handlers[h] : h \in DOMAIN program.handlers}}
         IN  {<<c.fd, c.type>> : c \in {x \in calls : x.op = "attach"}}

\* E_init, and what is attached before the loop starts.
E_init == [Time_queue |-> <<>>, Fd_queue |-> [p \in Priorities |-> <<>>], Fd_mask |-> {},
           Active_priority |-> LOW, Round_robin |-> 0, Exit_events |-> FALSE]

Init ==
    /\ program \in Programs /\ now = [sec |-> 0, usec |-> 0]
    /\ e = Run(E_init, program.attached)
    /\ loop = [pc |-> "times", first |-> TRUE, timeout |-> Long_timeout, mask |-> {}, num_set |-> 0, i |-> HIGH,
               j |-> 1, treated |-> FALSE]
    /\ seen = [early |-> FALSE, passed |-> [f \in Names |-> 0]]

Next == /\ UNCHANGED program
        /\ HandleTime \/ Select \/ HandleUrgent \/ HandleLow \/ Tick \/ E_exit_events_async_safe

Spec == Init /\ [][Next]_vars

-----------------------------------------------------------------------------
(* A timer is queued once; the queue is sorted by the real time, whatever      *)
(* microsecond overflow E_add_time leaves.                                     *)
TimersSorted ==
    \A i, j \in DOMAIN e.Time_queue : i < j =>
        /\ Real(e.Time_queue[i].t) <= Real(e.Time_queue[j].t)
        /\ e.Time_queue[i].timer # e.Time_queue[j].timer

(* select watches exactly the active descriptors that the threshold admits:    *)
(* one that is forgotten would never be read again, one too many would make    *)
(* the loop spin.                                                              *)
MaskExact ==
    e.Fd_mask = UNION {{<<e.Fd_queue[p][j].fd, e.Fd_queue[p][j].type>> : j \in Active(e.Fd_queue[p])} :
                       p \in e.Active_priority .. HIGH}

(* No timer runs early, and select sleeps until the first timer: neither past  *)
(* it nor less.                                                                *)
TimersOnTime ==
    /\ ~seen.early
    /\ loop.pc = "select" /\ e.Time_queue # <<>> =>
         Real(loop.timeout) = Max({0, Real(e.Time_queue[1].t) - Real(now)})

(* A ready session waits at most for one turn of each other one (as long as    *)
(* none is attached or detached).                                              *)
LowInTurn == \A f \in DOMAIN seen.passed : seen.passed[f] < Len(e.Fd_queue[LOW]) \/ seen.passed[f] = 0
=============================================================================
