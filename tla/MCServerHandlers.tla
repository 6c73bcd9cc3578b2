-------------------------- MODULE MCServerHandlers --------------------------
(***************************************************************************)
(* Small instances of ServerHandlers.  Servers and clients are             *)
(* interchangeable; tasks are not, the hash order tells them apart.        *)
(***************************************************************************)
EXTENDS ServerHandlers, TLC

CONSTANTS t1, t2

MCRank == t1 :> 2 @@ t2 :> 1

MCSymmetry == Permutations(Server) \cup Permutations(Client)

=============================================================================
