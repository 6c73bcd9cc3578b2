---------------------------- MODULE MCSpreadParts ----------------------------
(* Small instances of the parts of Spread that run on their own: the sessions  *)
(* of a daemon, the client library, the flush layer, the event loop, the       *)
(* memory pools and the containers of stdutil.  A behaviour is a behaviour of  *)
(* one part; the parts share the variables x1 .. x7.                           *)
EXTENDS Integers, Sequences, FiniteSets

CONSTANTS Parts,             \* which of the parts are checked
          ClientProfiles,    \* programs that use the client library
          PutFreely,         \* skip list: may put be hinted at a key that is in the list?
          Junk               \* what a slot holds that nobody wrote

VARIABLES part, x1, x2, x3, x4, x5, x6, x7

vars == <<part, x1, x2, x3, x4, x5, x6, x7>>

Off == "off"

-----------------------------------------------------------------------------
(* Sessions: three connections, with the names, hellos and requests of the     *)
(* profiles; two of them fit.                                                  *)
Op(t, grp) == [type |-> t, group |-> grp, from |-> 0, discard |-> FALSE]
User(n, reqs) == [name |-> n, hello |-> "legal", old |-> FALSE, methods |-> <<"NULL">>, ip |-> TRUE,
                  password |-> TRUE, script |-> reqs]
NoUser == User(0, <<>>)
Auth(p, ms, ip, pw) == [p EXCEPT !.methods = ms, !.ip = ip, !.password = pw]

SessionProfiles == {
    <<User(1, <<Op("JOIN", 11), Op("DATA", 11)>>), User(2, <<Op("JOIN", 11)>>), NoUser>>,
    <<User(1, <<Op("JOIN", 11), Op("KILL", 0)>>), User(1, <<Op("JOIN", 11)>>), NoUser>>,
    <<User(1, <<>>), [User(2, <<>>) EXCEPT !.hello = "REJECT_ILLEGAL_NAME"], User(3, <<>>)>>,
    <<User(1, <<>>), Auth(User(2, <<>>), <<"PWORD", "NULL">>, TRUE, FALSE), User(3, <<>>)>>,
    <<[Auth(User(1, <<Op("JOIN", 11)>>), <<>>, FALSE, TRUE) EXCEPT !.old = TRUE],
      Auth(User(2, <<Op("JOIN", 11)>>), <<"PWORD">>, TRUE, TRUE), NoUser>>,
    <<User(1, <<Op("JOIN", 12), Op("LEAVE", 11)>>),
      User(2, <<[Op("DATA", 2) EXCEPT !.discard = TRUE], Op("DATA", 1)>>), NoUser>>,
    <<User(1, <<Op("JOIN", 11), Op("LEAVE", 11)>>), User(2, <<[Op("JOIN", 11) EXCEPT !.from = 1]>>), NoUser>>}

Session == INSTANCE SpreadSession WITH
    s <- x1, who <- x2, due <- x3, remote <- x4,
    Clients <- 1 .. 3, Profiles <- SessionProfiles, Fds <- 1 .. 3, MaxSessions <- 2, MaxMess <- 2, SockBuf <- 1,
    LocalLimit <- 2, Allowed <- {"NULL", "IP", "PWORD"}, Required <- {"IP"}, Denied <- {<<"JOIN", 12>>},
    GroupNames <- {11, 12}, RemoteMsgs <- 1

-----------------------------------------------------------------------------
(* Client library: two threads.                                                *)
M(i, grps, len) == [id |-> i, reject |-> FALSE, groups |-> grps, len |-> len]
Recv(grps, len) == [op |-> "receive", on |-> 1, groups |-> grps, len |-> len, drop |-> FALSE]
Drop(grps, len) == [Recv(grps, len) EXCEPT !.drop = TRUE]
Do(op, k) == [op |-> op, on |-> k]

Two == <<M(1, 1, 2), [M(2, 2, 0) EXCEPT !.reject = TRUE]>>
MCProfiles == {
    [open |-> 1, streams |-> <<Two>>,
     script |-> <<<<Recv(1, 1), Recv(2, 2), Recv(2, 2)>>, <<Recv(2, 1), Recv(2, 2), Recv(2, 2)>>>>],
    [open |-> 1, streams |-> <<Two>>,
     script |-> <<<<Drop(1, 1), Drop(1, 1)>>, <<Do("multicast", 1), Drop(2, 2)>>>>],
    [open |-> 1, streams |-> <<<<>>>>,
     script |-> <<<<Do("join", 1), Do("multicast", 1)>>, <<Do("multicast", 1), Do("leave", 1)>>>>],
    [open |-> 1, streams |-> <<Two, Two>>,
     script |-> <<<<Recv(2, 2), Recv(2, 2)>>,
                  <<Do("disconnect", 1), Do("connect", 0), [Recv(2, 2) EXCEPT !.on = 2]>>>>],
    [open |-> 2, streams |-> <<<<>>, <<>>, Two, <<>>>>,
     script |-> <<<<Do("connect", 0), Do("disconnect", 3), Do("connect", 0)>>,
                  <<Do("disconnect", 2), Do("disconnect", 1)>>>>],
    [open |-> 1, streams |-> <<<<M(1, 1, 1)>>, Two>>,
     script |-> <<<<Do("connect_timeout", 0), Recv(1, 1)>>, <<Recv(0, 1)>>>>]}

\* A message does not fit, and is read with DROP_RECV into a buffer that is too short
\* again: with these profiles and Parts = {"client"}, ClientSound is violated.
MCDropProfiles == {
    [open |-> 1, streams |-> <<<<M(1, 1, 2), M(2, 1, 1), M(3, 1, 1)>>>>,
     script |-> <<<<Recv(1, 1), Drop(1, 1), Recv(1, 1), Recv(1, 2)>>, <<>>>>]}

Client == INSTANCE SpreadClient WITH
    Sessions <- x1, Num_sessions <- x2, conns <- x3, th <- x4, app <- x5, raced <- x6,
    Threads <- {1, 2}, Fds <- 1 .. 3, MAX_LIB_SESSIONS <- 2, Profiles <- ClientProfiles

-----------------------------------------------------------------------------
(* Flush layer: what three users do, in order; a number waits for the change   *)
(* of that rank.                                                               *)
MCScripts == {
    <<<<"join", "fifo", "agreed">>, <<"join", "fifo">>, <<>>>>,
    <<<<"join", "fifo">>, <<"join", "fifo", "disconnect">>, <<>>>>,
    <<<<"join">>, <<"join", "agreed", "leave", "join">>, <<>>>>,
    <<<<"join", "3", "fifo">>, <<"1", "join", "2", "disconnect">>, <<"2", "join">>>>,
    <<<<"join", "3", "fifo">>, <<"1", "join", "3", "disconnect">>, <<"2", "join", "3", "leave">>>>}

Flush == INSTANCE FlushLayer WITH
    g <- x1, user <- x2, out <- x3, inbox <- x4, sp <- x5, script <- x6, aborted <- x7,
    Clients <- 1 .. 3, Scripts <- MCScripts, FLOK_AGE_LIMIT <- 200

-----------------------------------------------------------------------------
(* Event loop.                                                                 *)
LOW == 0
MEDIUM == 1
HIGH == 2
A(fd, type, func, priority) == [op |-> "attach", fd |-> fd, type |-> type, func |-> func, priority |-> priority]
D(fd, type) == [op |-> "detach", fd |-> fd, type |-> type]
P(fd, priority) == [op |-> "detach_priority", fd |-> fd, type |-> "R", priority |-> priority]
Q(timer, sec, usec) == [op |-> "queue", timer |-> timer, delta |-> [sec |-> sec, usec |-> usec]]
T(priority) == [op |-> "threshold", priority |-> priority]
O(op, fd) == [op |-> op, fd |-> fd, type |-> "R"]

\* 1 is the packet channel, 2 the token channel (protocol.c exchanges their
\* priorities), 3 a session that may be killed.
Daemon ==
    [attached |-> <<A(1, "R", "bcast", HIGH), A(2, "R", "token", MEDIUM), A(3, "R", "read", LOW), Q("loss", 1, 1)>>,
     handlers |->
       [bcast |-> {<<>>, <<P(1, HIGH), A(1, "R", "bcast", MEDIUM), P(2, MEDIUM), A(2, "R", "token", HIGH)>>,
                   <<D(3, "R"), D(3, "W")>>},
        token |-> {<<Q("loss", 1, 1)>>,
                   <<P(1, MEDIUM), A(1, "R", "bcast", HIGH), P(2, HIGH), A(2, "R", "token", MEDIUM)>>},
        read |-> {<<A(3, "W", "badger", LOW), Q("badger", 0, 1)>>, <<T(MEDIUM)>>},
        badger |-> {<<D(3, "W")>>, <<Q("badger", 1, 0)>>},
        loss |-> {<<T(LOW), Q("loss", 0, 1)>>, <<[op |-> "dequeue", timer |-> "badger"]>>}]]

\* Sessions that come and go, and block each other.
ManySessions ==
    [attached |-> <<A(3, "R", "read", LOW), A(4, "R", "read", LOW), A(5, "R", "accept", LOW)>>,
     handlers |->
       [read |-> {<<>>, <<O("deactivate", 4), Q("wake", 0, 1)>>, <<D(3, "R")>>, <<T(HIGH), Q("wake", 1, 0)>>,
                  <<[op |-> "exit"]>>},
        accept |-> {<<A(3, "R", "read", LOW)>>, <<A(4, "R", "read", LOW)>>},
        wake |-> {<<T(LOW), O("activate", 4)>>, <<O("activate", 4), Q("wake", 1, 1)>>}]]

Events == INSTANCE SpreadEvents WITH
    e <- x1, loop <- x2, program <- x3, now <- x4, seen <- x5,
    Programs <- {Daemon, ManySessions}, USEC <- 2, MaxSec <- 2

-----------------------------------------------------------------------------
(* Memory pools.                                                               *)
MCTypes == [message |-> [size |-> 2, threshold |-> 1, initial |-> 1],
            packet |-> [size |-> 3, threshold |-> 1, initial |-> 2]]

Memory == INSTANCE SpreadMemory WITH
    mem <- x1, Mem <- x2, total <- x3, debug <- x4, held <- x5,
    Blocks <- 1 .. 4, Types <- MCTypes, Lengths <- {4}, MaxRefs <- 2

-----------------------------------------------------------------------------
(* Containers.  In the hash table k and l have the same hash code, 0 counting  *)
(* as 1; m starts where they do and goes another way.                          *)
Carr == INSTANCE StdCarr WITH carr <- x1, MinAlloc <- 4, MaxSize <- 7, MaxStep <- 2

Hash == INSTANCE StdHash WITH
    h <- x1, it <- x2, ref <- x3, rest <- x4, drift <- x5,
    Keys <- {"k", "l", "m"}, hcode_fcn <- [k |-> 1, l |-> 0, m |-> 9],
    Rows <- {<<"k">>, <<"l">>, <<"m">>, <<"k", "k">>, <<"m", "k">>},
    Codes <- 16, MinAlloc <- 1, MaxSize <- 3, MaxDrift <- 1

Skl == INSTANCE StdSkl WITH
    l <- x1, ref <- x2, Keys <- {1, 2}, Rows <- {<<1>>, <<2>>, <<2, 1>>, <<1, 2>>, <<2, 2>>},
    EndHeight <- 1, MAX_HEIGHT <- 2, MaxSize <- 3

Arr == INSTANCE StdArr WITH
    arr <- x1, arr_it <- x2, arr_ref <- x3, Values <- {"a", "b"}, ArrMinAlloc <- 2, ArrMaxSize <- 3, ArrMaxStep <- 2

Dll == INSTANCE StdDll WITH
    dll <- x1, dll_it <- x2, dll_ref <- x3, Values <- {"a", "b"}, DllMaxSize <- 3, DllMaxStep <- 2

-----------------------------------------------------------------------------
Init ==
    /\ part \in Parts
    /\ \/ part = "session" /\ Session!Init /\ x5 = Off /\ x6 = Off /\ x7 = Off
       \/ part = "client" /\ Client!Init /\ x7 = Off
       \/ part = "flush" /\ Flush!Init
       \/ part = "events" /\ Events!Init /\ x6 = Off /\ x7 = Off
       \/ part = "memory" /\ Memory!Init /\ x6 = Off /\ x7 = Off
       \/ part = "carr" /\ Carr!Init /\ x2 = Off /\ x3 = Off /\ x4 = Off /\ x5 = Off /\ x6 = Off /\ x7 = Off
       \/ part = "hash" /\ Hash!Init /\ x6 = Off /\ x7 = Off
       \/ part = "skl" /\ Skl!Init /\ x3 = Off /\ x4 = Off /\ x5 = Off /\ x6 = Off /\ x7 = Off
       \/ part = "arr" /\ Arr!Init /\ x4 = Off /\ x5 = Off /\ x6 = Off /\ x7 = Off
       \/ part = "dll" /\ Dll!Init /\ x4 = Off /\ x5 = Off /\ x6 = Off /\ x7 = Off

Next ==
    /\ UNCHANGED part
    /\ \/ part = "session" /\ Session!Next /\ UNCHANGED <<x5, x6, x7>>
       \/ part = "client" /\ Client!Next /\ UNCHANGED x7
       \/ part = "flush" /\ Flush!Next
       \/ part = "events" /\ Events!Next /\ UNCHANGED <<x6, x7>>
       \/ part = "memory" /\ Memory!Next /\ UNCHANGED <<x6, x7>>
       \/ part = "carr" /\ Carr!Next /\ UNCHANGED <<x2, x3, x4, x5, x6, x7>>
       \/ part = "hash" /\ Hash!Next /\ UNCHANGED <<x6, x7>>
       \/ part = "skl" /\ Skl!Next /\ UNCHANGED <<x3, x4, x5, x6, x7>>
       \/ part = "arr" /\ Arr!Next /\ UNCHANGED <<x4, x5, x6, x7>>
       \/ part = "dll" /\ Dll!Next /\ UNCHANGED <<x4, x5, x6, x7>>

Spec == Init /\ [][Next]_vars

-----------------------------------------------------------------------------


(* The flush layer keeps its promises and the assertions of fl.c, which the   *)
(* build leaves out: a user gets a message in the view in which it was sent,  *)
(* users that go from one view to the same next one got the same messages in  *)
(* it, a view has at most one transitional signal, and when nothing is left   *)
(* to deliver or to permit every member has installed the last view: no flush *)
(* is waited for in vain.                                                     *)
FlushSound ==
    part = "flush" =>
        /\ Flush!TypeOK
        /\ Flush!SentAndDeliveredInView
        /\ Flush!VirtualSynchrony
        /\ Flush!OneTransition
        /\ Flush!Converged

(* A timer is queued once, in the order of real time (E_queue), none runs     *)
(* early and select sleeps exactly until the first one; select watches the    *)
(* active descriptors that the threshold admits and no others, whatever       *)
(* callbacks attached, detached or blocked; and a ready session waits at most *)
(* for one turn of each other session (E_handle_events).                      *)
EventsSound ==
    part = "events" =>
        Events!TimersSorted /\ Events!MaskExact /\ Events!TimersOnTime /\ Events!LowInTurn

(* Pools hold exactly the freed objects, nothing leaks, nothing referenced is *)
(* in a pool, a pool does not outgrow its threshold, and the counts of a      *)
(* debugging build are exact (memory.c).                                      *)
MemorySound ==
    part = "memory" => Memory!PoolsSound /\ Memory!StatisticsExact /\ Memory!PoolBounded



(* The circular array, the array and the list hold the elements the calls     *)
(* left in them, in order, through wraps, growth, shrinking and failed        *)
(* allocations; no shift copies outside a buffer or with memcpy onto itself,  *)
(* a list leads through the same nodes both ways and leaks none, and the      *)
(* iterator handed back points into the block, or at the node, that exists    *)
(* now (stdcarr.c, stdarr.c, stddll.c).                                       *)
SequencesExact ==
    /\ part = "carr" => Carr!Legal /\ Carr!CopiesSound /\ Carr!Contents
    /\ part = "arr" => Arr!Legal /\ Arr!Contents /\ Arr!IteratorFollows
    /\ part = "dll" => Dll!Linked /\ Dll!Contents /\ Dll!IteratorFollows

=============================================================================
