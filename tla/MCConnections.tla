---------------------------- MODULE MCConnections ---------------------------
(* Connections: a client with requests and events of one or two words, and    *)
(* two clients that only connect and hang up.                                 *)
EXTENDS Connections

CONSTANTS c1, c2

MCIn == (c1 :> 2)
MCOut == (c1 :> 3)

MCNoneIn == (c1 :> 0 @@ c2 :> 0)
MCNoneOut == MCNoneIn
=============================================================================
