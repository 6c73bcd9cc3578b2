-------------------------- MODULE MCSpreadProtocol --------------------------
(* Instance of SpreadProtocol: one Safe message in a ring of three, with a     *)
(* membership attempt and a lost packet, or with a lost token; a message of    *)
(* two packets, beside a Reliable one or with an attempt; messages of          *)
(* different services with two attempts, or an attempt and a lost token; two   *)
(* small messages that may share a packet.                                     *)
EXTENDS SpreadProtocol

MCSegOf == [p \in Procs |-> IF p = 3 THEN 2 ELSE 1]
MCTypeOf == (1 :> Agreed) @@ (2 :> Safe) @@ (3 :> Agreed) @@ (4 :> Reliable) @@ (5 :> Agreed)
MCNumElements == (1 :> 1) @@ (2 :> 1) @@ (3 :> 2) @@ (4 :> 1) @@ (5 :> 1)
Start(load, forms, losses, lost) ==
    [ring |-> DOMAIN load, load |-> load,
     bounds |-> [forms |-> forms, losses |-> losses, lost |-> lost]]
MCStarts == {
    Start(<<<<>>, <<2>>, <<>>>>, 1, 0, 1),
    Start(<<<<>>, <<2>>, <<>>>>, 0, 1, 0),
    Start(<<<<3>>, <<4>>>>, 0, 0, 0),
    Start(<<<<3>>, <<>>>>, 1, 0, 0),
    Start(<<<<4>>, <<1>>>>, 1, 0, 0),
    Start(<<<<1>>, <<2>>>>, 2, 0, 0),
    Start(<<<<1>>, <<2>>>>, 1, 1, 0),
    Start(<<<<1, 5>>, <<>>>>, 0, 0, 1)}
=============================================================================
