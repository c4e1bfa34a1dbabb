---------------------------- MODULE SceneBatches ----------------------------
(***************************************************************************)
(* What surfaces promise of the screen, without buffers, roles or a queue: *)
(* the requests of a batch change it as a whole when the batch is done, as *)
(* every other handler of the main thread finds it, or, when the client is *)
(* removed, not at all; and a client that is gone has nothing on it.       *)
(***************************************************************************)
CONSTANTS
  Key,          \* a client and an object id of its own
  NoClient,
  NoKey

VARIABLES
  connected,    \* the clients
  client,       \* the client whose batch is open
  staged,       \* the surface on screen if the batch ended now
  screen        \* the surface on screen

vars == <<connected, client, staged, screen>>

Init ==
  /\ connected = {k[1] : k \in Key}
  /\ client = NoClient
  /\ staged = NoKey
  /\ screen = NoKey

Begin(c) ==
  /\ client = NoClient
  /\ c \in connected
  /\ client' = c
  /\ UNCHANGED <<connected, staged, screen>>

\* The client shows a surface of its own.
Show(s) ==
  /\ client = s[1]
  /\ staged' = s
  /\ UNCHANGED <<connected, client, screen>>

\* It can hide no other.
Hide(s) ==
  /\ client = s[1]
  /\ staged = s
  /\ staged' = NoKey
  /\ UNCHANGED <<connected, client, screen>>

Publish ==
  /\ client # NoClient
  /\ screen' = staged
  /\ client' = NoClient
  /\ UNCHANGED <<connected, staged>>

\* What the batch has staged is forgotten.
Drop(c) ==
  /\ client \in {NoClient, c}
  /\ connected' = connected \ {c}
  /\ client' = NoClient
  /\ screen' = IF screen # NoKey /\ screen[1] = c THEN NoKey ELSE screen
  /\ staged' = screen'

Next ==
  \/ \E c \in connected : Begin(c) \/ Drop(c)
  \/ \E s \in Key : Show(s) \/ Hide(s)
  \/ Publish

Spec == Init /\ [][Next]_vars
=============================================================================
