------------------------------ MODULE Registry ------------------------------
(***************************************************************************)
(* Globals, protocol objects and the dispatch of requests: the registry of *)
(* each connection (crates/lumalla_wayland_protocol/src/registry.rs), the  *)
(* handle_request functions that the macros generate, the globals          *)
(* (crates/lumalla_display/src/lib.rs, seat.rs) and, of the handlers       *)
(* (protocols/wayland.rs), what they do to objects and their ids.          *)
(*                                                                         *)
(* On its side a client keeps a proxy for each object.  It behaves as long *)
(* as its ids are free on its side, its objects know the requests it makes *)
(* and the arguments are right; an id that the server frees comes back to  *)
(* it with a delete_id event, any time later.  A request is handled in the *)
(* step that makes it: only a client's own requests, in order, change its  *)
(* objects, so it makes no difference how long each was on its way.        *)
(***************************************************************************)
EXTENDS Naturals, Sequences

CONSTANTS
  Client,       \* connections
  Id,           \* object ids of a client's own range
  Display,      \* the id of the display
  ServerId,     \* an id of the server's range, or what an id of zero is read as
  SeatName,     \* names that libseat may have for the seat
  Version,      \* versions that clients bind
  Use,          \* bound: the interfaces a client uses each of its ids for
  Gone,         \* what a client has for an object that it destroyed
  None

ASSUME IdAssumption == Display \in Id /\ ServerId \notin Id /\ None \notin Id /\ Gone # None
ASSUME VersionAssumption == Version \subseteq Nat

\* Interfaces whose handlers are all todo!().
Missing ==
  {"wl_data_offer", "wl_data_source", "wl_data_device", "wl_data_device_manager", "wl_pointer",
   "wl_touch", "wl_output", "wl_subcompositor", "wl_subsurface", "wl_fixes"}

Interface ==
  Missing \cup
  {"wl_display", "wl_registry", "wl_callback", "wl_compositor", "wl_shm_pool", "wl_shm",
   "wl_buffer", "wl_shell", "wl_shell_surface", "wl_surface", "wl_seat", "wl_keyboard",
   "wl_region"}

InterfaceVersion ==
  [i \in Interface |->
     CASE i \in {"wl_seat", "wl_keyboard", "wl_pointer", "wl_touch"} -> 10
       [] i \in {"wl_compositor", "wl_surface"} -> 6
       [] i = "wl_output" -> 4
       [] i \in {"wl_data_offer", "wl_data_source", "wl_data_device", "wl_data_device_manager"} -> 3
       [] i \in {"wl_shm", "wl_shm_pool"} -> 2
       [] OTHER -> 1]

\* The requests of an interface.  "other" is for those that leave every object
\* as it is, and for those of an interface with no handler.
Requests ==
  [i \in Interface |->
     CASE i = "wl_display" -> {"sync", "get_registry"}
       [] i = "wl_registry" -> {"bind"}
       [] i = "wl_callback" -> {}
       [] i = "wl_compositor" -> {"create_surface", "create_region"}
       [] i = "wl_shm" -> {"create_pool", "release"}
       [] i = "wl_shm_pool" -> {"create_buffer", "destroy", "other"}
       [] i = "wl_buffer" -> {"destroy"}
       [] i = "wl_shell" -> {"get_shell_surface"}
       [] i = "wl_surface" -> {"destroy", "frame", "commit", "other", "set_buffer_transform",
                               "set_buffer_scale", "damage_buffer", "offset"}
       [] i = "wl_seat" -> {"get_keyboard", "get_pointer", "get_touch", "release"}
       [] i = "wl_keyboard" -> {"release"}
       [] i = "wl_region" -> {"destroy", "other"}
       [] OTHER -> {"other"}]

ASSUME UseAssumption == Use \in [Client -> [Id -> SUBSET Interface]]

\* The version that brought a request.
Since(i, op) ==
  CASE op = "set_buffer_transform" -> 2
    [] op = "set_buffer_scale" -> 3
    [] op = "damage_buffer" -> 4
    [] op = "offset" -> 5
    [] op = "release" /\ i = "wl_seat" -> 5
    [] op = "release" /\ i = "wl_keyboard" -> 3
    [] op = "release" /\ i = "wl_shm" -> 2
    [] OTHER -> 1

Todo(i, op) ==
  i \in Missing \/ op \in {"set_buffer_transform", "set_buffer_scale", "damage_buffer", "offset"}

\* The factories that make an object of their own version, and what they make.
Inheriting ==
  [create_surface |-> "wl_surface", create_region |-> "wl_region",
   create_pool |-> "wl_shm_pool", get_keyboard |-> "wl_keyboard"]

Object == [interface : Interface, version : Nat]
Of(i, v) == [interface |-> i, version |-> v]
Name == Nat \ {0}

ASSUME ObjectAssumption == None \notin Object /\ Gone \notin Object

VARIABLES
  globals,      \* Globals: interface and version of each global, by its name
  mainSeat,     \* SeatManager.has_main_seat
  knownSeats,   \* SeatManager.known_seats
  connected,    \* AppData.connected_clients
  objects,      \* Registry.objects of each connection
  callbacks,    \* frame callbacks of a surface
  shell,        \* shell surface of a surface
  told,         \* names of the globals each registry object was told of, in order
  errors,       \* clients that were sent wl_display.error
  proxies,      \* client: its objects,
  returning,    \* the delete_id events on their way to it,
  behaved       \* and whether it has behaved so far

serverVars == <<globals, mainSeat, knownSeats>>
vars == <<serverVars, connected, objects, callbacks, shell, told, errors, proxies,
          returning, behaved>>

TypeOK ==
  /\ globals \in Seq(Object)
  /\ mainSeat \in BOOLEAN
  /\ knownSeats \subseteq SeatName
  /\ connected \subseteq Client
  /\ objects \in [Client -> [Id -> Object \cup {None}]]
  /\ callbacks \in [Client -> [Id -> SUBSET Id]]
  /\ shell \in [Client -> [Id -> Id \cup {None}]]
  /\ told \in [Client -> [Id -> Seq(Name)]]
  /\ errors \subseteq Client
  /\ proxies \in [Client -> [Id -> Object \cup {None, Gone}]]
  /\ returning \in [Client -> [Id -> Nat]]
  /\ behaved \subseteq Client

----------------------------------------------------------------------------
(* The connections.                                                        *)

NewObjects == [n \in Id |-> IF n = Display THEN Of("wl_display", 1) ELSE None]
Nothing(x) == [n \in Id |-> x]

\* Registry::new for a client that connects.
Connect(c) ==
  /\ c \notin connected
  /\ connected' = connected \cup {c}
  /\ objects' = [objects EXCEPT ![c] = NewObjects]
  /\ proxies' = [proxies EXCEPT ![c] = NewObjects]
  /\ behaved' = behaved \cup {c}
  /\ errors' = errors \ {c}
  /\ UNCHANGED <<serverVars, callbacks, shell, told, returning>>

\* The connection and its registry are dropped.
Dropped(c) ==
  /\ connected' = connected \ {c}
  /\ objects' = [objects EXCEPT ![c] = Nothing(None)]
  /\ callbacks' = [callbacks EXCEPT ![c] = Nothing({})]
  /\ shell' = [shell EXCEPT ![c] = Nothing(None)]
  /\ told' = [told EXCEPT ![c] = Nothing(<<>>)]
  /\ proxies' = [proxies EXCEPT ![c] = Nothing(None)]
  /\ returning' = [returning EXCEPT ![c] = Nothing(0)]

Disconnect(c) ==
  /\ c \in connected
  /\ Dropped(c)
  /\ UNCHANGED <<serverVars, errors, behaved>>

\* The client takes a delete_id event: the id is free to it.
TakeDeleteId(c, n) ==
  /\ returning[c][n] > 0
  /\ returning' = [returning EXCEPT ![c][n] = @ - 1]
  /\ proxies' = [proxies EXCEPT ![c][n] = None]
  /\ UNCHANGED <<serverVars, connected, objects, callbacks, shell, told, errors, behaved>>

----------------------------------------------------------------------------
(* Dispatch.                                                               *)

Knows(object, op) ==
  /\ object # None /\ object # Gone
  /\ op \in Requests[object.interface]
  /\ object.version >= Since(object.interface, op)

\* The generated handle_request finds the object and the request in its version.
Received(c, o, op) ==
  /\ c \in connected
  /\ Knows(objects[c][o], op)

\* It does not: the client is sent an error and disconnected.
Refuse(c, o, op) ==
  /\ c \in connected
  /\ ~Knows(objects[c][o], op)
  /\ errors' = errors \cup {c}
  /\ behaved' = IF Knows(proxies[c][o], op) THEN behaved ELSE behaved \ {c}
  /\ Dropped(c)
  /\ UNCHANGED serverVars

----------------------------------------------------------------------------
(* Objects.                                                                *)

\* The client names a new object with an id: one of those it uses for the interface,
\* or one of the server's range.
Names(c, n, i) == n \in Id => i \in Use[c][n]

\* Registry::register_client_object_with_version takes the object.
Registrable(c, n, object) ==
  /\ n \in Id
  /\ objects[c][n] = None
  /\ 0 < object.version /\ object.version <= InterfaceVersion[object.interface]

\* The objects once Registry::free_object is called on some ids.
Without(c, ids) == [objects EXCEPT ![c] = [n \in Id |-> IF n \in ids THEN None ELSE @[n]]]

\* What the client has after a request of its own: its proxies, and a delete_id
\* event on its way for each object freed.  A client that misbehaves is given up.
Believes(c, proper, proxy, freed) ==
  /\ behaved' = IF proper THEN behaved ELSE behaved \ {c}
  /\ proxies' = [proxies EXCEPT ![c] = IF c \in behaved' THEN proxy ELSE Nothing(None)]
  /\ returning' = [returning EXCEPT ![c] =
       [n \in Id |-> IF c \notin behaved' THEN 0 ELSE IF n \in freed THEN @[n] + 1 ELSE @[n]]]

\* The events of an error, or none.
Errors(c, failed) == errors' = IF failed THEN errors \cup {c} ELSE errors

\* An id of its own that the client has no use of.
Fresh(c, n) == n \in Id /\ proxies[c][n] = None

\* The client's proxies without those it destroyed.
WithoutProxies(c, ids) == [n \in Id |-> IF n \in ids THEN Gone ELSE proxies[c][n]]

\* The client's proxies with a new one, which has the version of its factory's.
WithProxy(c, o, n, i) == [proxies[c] EXCEPT ![n] = Of(i, proxies[c][o].version)]

\* A request that makes an object and fails when its id is not free.
MakeObject(c, n, object, proper, proxy) ==
  /\ objects' = IF Registrable(c, n, object) THEN [objects EXCEPT ![c][n] = object] ELSE objects
  /\ Believes(c, proper, proxy, {})

----------------------------------------------------------------------------
(* The handlers.                                                           *)

\* The callback is registered, answered and freed at once.
Sync(c, o, n) ==
  /\ Received(c, o, "sync") /\ Names(c, n, "wl_callback")
  /\ LET made == Registrable(c, n, Of("wl_callback", 1))
     IN /\ Believes(c, Fresh(c, n), WithProxy(c, o, n, "wl_callback"), IF made THEN {n} ELSE {})
        /\ Errors(c, ~made)
  /\ UNCHANGED <<serverVars, connected, objects, callbacks, shell, told>>

\* The new registry object is told of each global there is.
GetRegistry(c, o, n) ==
  /\ Received(c, o, "get_registry") /\ Names(c, n, "wl_registry")
  /\ MakeObject(c, n, Of("wl_registry", 1), Fresh(c, n), WithProxy(c, o, n, "wl_registry"))
  /\ LET made == Registrable(c, n, Of("wl_registry", 1))
     IN /\ told' = IF made THEN [told EXCEPT ![c][n] = [g \in DOMAIN globals |-> g]] ELSE told
        /\ Errors(c, ~made)
  /\ UNCHANGED <<serverVars, connected, callbacks, shell>>

\* The client binds a global it was told of, in a version of the global's.
ProperBind(c, o, n, g, i, v) ==
  /\ Fresh(c, n)
  /\ \E k \in DOMAIN told[c][o] : told[c][o][k] = g
  /\ i = globals[g].interface
  /\ 0 < v /\ v <= globals[g].version

\* An unknown name is ignored; a wrong interface or version is an error.
Bind(c, o, n, g, i, v) ==
  /\ Received(c, o, "bind") /\ Names(c, n, i)
  /\ LET known == g \in DOMAIN globals
         right == known /\ i = globals[g].interface /\ 0 < v /\ v <= globals[g].version
         made == right /\ Registrable(c, n, Of(i, v))
     IN /\ objects' = IF made THEN [objects EXCEPT ![c][n] = Of(i, v)] ELSE objects
        /\ Believes(c, ProperBind(c, o, n, g, i, v), [proxies[c] EXCEPT ![n] = Of(i, v)], {})
        /\ Errors(c, known /\ ~made)
  /\ UNCHANGED <<serverVars, connected, callbacks, shell, told>>

Least(a, b) == IF a < b THEN a ELSE b

\* Mutation: the object gets the version of its interface (register_object).
InheritedNewest(object, i) == Of(i, InterfaceVersion[i])

\* An object of its factory's version, if its interface has it.
Inherited(object, i) == Of(i, Least(object.version, InterfaceVersion[i]))

\* create_surface, create_region, create_pool and get_keyboard.  A pool that cannot
\* be made is an error, of a registered object.
Create(c, o, op, n, ok) ==
  /\ Received(c, o, op) /\ op \in DOMAIN Inheriting /\ Names(c, n, Inheriting[op])
  /\ op = "create_pool" \/ ok
  /\ LET i == Inheriting[op]
         object == Inherited(objects[c][o], i)
     IN /\ MakeObject(c, n, object, Fresh(c, n) /\ ok, WithProxy(c, o, n, i))
        /\ Errors(c, ~Registrable(c, n, object) \/ ~ok)
  /\ UNCHANGED <<serverVars, connected, callbacks, shell, told>>

CreateBuffer(c, o, n, ok) ==
  /\ Received(c, o, "create_buffer") /\ Names(c, n, "wl_buffer")
  /\ MakeObject(c, n, Of("wl_buffer", 1), Fresh(c, n) /\ ok, WithProxy(c, o, n, "wl_buffer"))
  /\ Errors(c, ~Registrable(c, n, Of("wl_buffer", 1)) \/ ~ok)
  /\ UNCHANGED <<serverVars, connected, callbacks, shell, told>>

IsSurface(object) == object # None /\ object # Gone /\ object.interface = "wl_surface"

\* The surface must be one, and have no role yet, or it is an error; only the
\* second is found once the object is registered.
GetShellSurface(c, o, n, s) ==
  /\ Received(c, o, "get_shell_surface") /\ Names(c, n, "wl_shell_surface")
  /\ LET object == Of("wl_shell_surface", 1)
         made == IsSurface(objects[c][s]) /\ Registrable(c, n, object)
         paired == made /\ shell[c][s] = None
         proper == Fresh(c, n) /\ IsSurface(proxies[c][s]) /\ shell[c][s] = None
     IN /\ objects' = IF made THEN [objects EXCEPT ![c][n] = object] ELSE objects
        /\ shell' = IF paired THEN [shell EXCEPT ![c][s] = n] ELSE shell
        /\ Believes(c, proper, WithProxy(c, o, n, "wl_shell_surface"), {})
        /\ Errors(c, ~paired)
  /\ UNCHANGED <<serverVars, connected, callbacks, told>>

Frame(c, o, n) ==
  /\ Received(c, o, "frame") /\ Names(c, n, "wl_callback")
  /\ MakeObject(c, n, Of("wl_callback", 1), Fresh(c, n), WithProxy(c, o, n, "wl_callback"))
  /\ LET made == Registrable(c, n, Of("wl_callback", 1))
     IN /\ callbacks' = IF made THEN [callbacks EXCEPT ![c][o] = @ \cup {n}] ELSE callbacks
        /\ Errors(c, ~made)
  /\ UNCHANGED <<serverVars, connected, shell, told>>

\* The callbacks' ids that are registered still.
Waiting(c, o) == {n \in callbacks[c][o] : objects[c][n] # None}

\* Mutation: the callbacks stay with the surface.
CommitKeepsCallbacks(c, o, ok) ==
  /\ Received(c, o, "commit")
  /\ LET done == IF ok THEN Waiting(c, o) ELSE {}
     IN /\ objects' = Without(c, done)
        /\ Believes(c, ok, proxies[c], done)
  /\ Errors(c, ~ok)
  /\ UNCHANGED <<serverVars, connected, callbacks, shell, told>>

\* The callbacks are taken from the surface, and answered and freed unless the
\* buffer cannot be copied (the client destroyed it), which is an error.
Commit(c, o, ok) ==
  /\ Received(c, o, "commit")
  /\ callbacks' = [callbacks EXCEPT ![c][o] = {}]
  /\ LET done == IF ok THEN Waiting(c, o) ELSE {}
     IN /\ objects' = Without(c, done)
        /\ Believes(c, ok, proxies[c], done)
  /\ Errors(c, ~ok)
  /\ UNCHANGED <<serverVars, connected, shell, told>>

\* Mutation: the role is forgotten, its object left.
DestroySurfaceKeepsRole(c, o) ==
  /\ Received(c, o, "destroy") /\ objects[c][o].interface = "wl_surface"
  /\ LET gone == Waiting(c, o) \cup {o}
     IN /\ objects' = Without(c, gone)
        /\ Believes(c, TRUE, WithoutProxies(c, {o, shell[c][o]}), gone)
  /\ callbacks' = [callbacks EXCEPT ![c][o] = {}]
  /\ shell' = [shell EXCEPT ![c][o] = None]
  /\ UNCHANGED <<serverVars, connected, told, errors>>

\* The surface's callbacks and its shell surface are freed, then the surface.
DestroySurface(c, o) ==
  /\ Received(c, o, "destroy") /\ objects[c][o].interface = "wl_surface"
  /\ LET role == {n \in Id : n = shell[c][o] /\ objects[c][n] # None}
         gone == Waiting(c, o) \cup role \cup {o}
     IN /\ objects' = Without(c, gone)
        /\ Believes(c, TRUE, WithoutProxies(c, {o, shell[c][o]}), gone)
  /\ callbacks' = [callbacks EXCEPT ![c][o] = {}]
  /\ shell' = [shell EXCEPT ![c][o] = None]
  /\ UNCHANGED <<serverVars, connected, told, errors>>

\* The destructors of the other interfaces.
Destroy(c, o, op) ==
  /\ Received(c, o, op) /\ op \in {"destroy", "release"}
  /\ objects[c][o].interface \in
       {"wl_shm", "wl_shm_pool", "wl_buffer", "wl_region", "wl_seat", "wl_keyboard"}
  /\ objects' = Without(c, {o})
  /\ Believes(c, TRUE, WithoutProxies(c, {o}), {o})
  /\ UNCHANGED <<serverVars, connected, callbacks, shell, told, errors>>

\* A request that leaves every object as it is, or for a device the seat has not.
Other(c, o, op, ok) ==
  /\ Received(c, o, op) /\ op \in {"other", "get_pointer", "get_touch"}
  /\ objects[c][o].interface \notin Missing
  /\ ok => op = "other"
  /\ Believes(c, ok, proxies[c], {})
  /\ Errors(c, ~ok)
  /\ UNCHANGED <<serverVars, connected, objects, callbacks, shell, told>>

----------------------------------------------------------------------------
(* The seat.                                                               *)

RegistryObjects(c) == {n \in Id : objects[c][n] # None /\ objects[c][n].interface = "wl_registry"}

\* Mutation: the new global is told to the clients that connect later.
ActivateMainSeatSilent(name) ==
  /\ ~mainSeat
  /\ mainSeat' = TRUE
  /\ knownSeats' = knownSeats \cup {name}
  /\ globals' = IF name \in knownSeats THEN globals
                ELSE Append(globals, Of("wl_seat", InterfaceVersion["wl_seat"]))
  /\ UNCHANGED <<connected, objects, callbacks, shell, told, errors, proxies,
                 returning, behaved>>

\* The first session: the seat becomes a global, which each registry object of
\* each connection is told of.
ActivateMainSeat(name) ==
  /\ ~mainSeat
  /\ mainSeat' = TRUE
  /\ knownSeats' = knownSeats \cup {name}
  /\ globals' = IF name \in knownSeats THEN globals
                ELSE Append(globals, Of("wl_seat", InterfaceVersion["wl_seat"]))
  /\ told' = [c \in Client |-> [n \in Id |->
                IF c \in connected /\ n \in RegistryObjects(c) /\ name \notin knownSeats
                THEN Append(told[c][n], Len(globals')) ELSE told[c][n]]]
  /\ UNCHANGED <<connected, objects, callbacks, shell, errors, proxies, returning,
                 behaved>>

----------------------------------------------------------------------------

Init ==
  /\ globals = <<Of("wl_compositor", 1), Of("wl_shm", 1), Of("wl_shell", 1)>>
  /\ mainSeat = FALSE
  /\ knownSeats = {}
  /\ connected = {}
  /\ objects = [c \in Client |-> Nothing(None)]
  /\ callbacks = [c \in Client |-> Nothing({})]
  /\ shell = [c \in Client |-> Nothing(None)]
  /\ told = [c \in Client |-> Nothing(<<>>)]
  /\ errors = {}
  /\ proxies = [c \in Client |-> Nothing(None)]
  /\ returning = [c \in Client |-> Nothing(0)]
  /\ behaved = {}

Op == UNION {Requests[i] : i \in Interface}
NewId == Id \cup {ServerId}

Handle(c, o) ==
  \/ \E op \in Op : Refuse(c, o, op) \/ Destroy(c, o, op)
  \/ \E n \in NewId : Sync(c, o, n) \/ GetRegistry(c, o, n) \/ Frame(c, o, n)
  \/ \E n \in NewId, g \in 1 .. Len(globals) + 1, v \in Version :
       \E k \in DOMAIN globals : Bind(c, o, n, g, globals[k].interface, v)
  \/ \E n \in NewId, op \in DOMAIN Inheriting, ok \in BOOLEAN : Create(c, o, op, n, ok)
  \/ \E n \in NewId, ok \in BOOLEAN : CreateBuffer(c, o, n, ok)
  \/ \E n \in NewId, s \in Id : GetShellSurface(c, o, n, s)
  \/ \E ok \in BOOLEAN : Commit(c, o, ok)
  \/ DestroySurface(c, o)
  \/ \E op \in Op, ok \in BOOLEAN : Other(c, o, op, ok)

Next ==
  \/ \E c \in Client : Connect(c) \/ Disconnect(c)
  \/ \E c \in Client, n \in Id : TakeDeleteId(c, n)
  \/ \E c \in Client, o \in Id : Handle(c, o)
  \/ \E name \in SeatName : ActivateMainSeat(name)

Spec == Init /\ [][Next]_vars

----------------------------------------------------------------------------
(* What the registry promises.                                             *)

\* No request, of whatever client, reaches a handler that is todo!() and panics: the
\* globals are advertised in versions, and objects made in versions, that keep
\* those requests out (test advertises_only_the_minimal_implemented_globals).
NeverUnimplemented ==
  \A c \in connected : \A o \in Id : \A op \in Op :
    Knows(objects[c][o], op) => ~Todo(objects[c][o].interface, op)

\* Each registry object of each connection has been told of each global once,
\* whichever came first (get_registry, register_version and broadcast_global).
ToldOnce ==
  \A c \in connected : \A n \in RegistryObjects(c) :
    /\ Len(told[c][n]) = Len(globals)
    /\ \A g \in DOMAIN globals : \E k \in DOMAIN told[c][n] : told[c][n][k] = g

\* Of a client that behaves, each id it has in use either is registered, with the
\* interface and version that the client believes, or has one delete_id on its
\* way; an id it has no use of is neither (free_object, the factories' versions).
IdsAgree ==
  \A c \in connected \cap behaved : \A n \in Id :
    IF objects[c][n] # None THEN proxies[c][n] = objects[c][n] /\ returning[c][n] = 0
    ELSE returning[c][n] = IF proxies[c][n] # None THEN 1 ELSE 0

\* A client that behaves is never sent an error: what it may use is registered,
\* and an id it may use again is free.
BehavedServed == behaved \cap errors = {}
=============================================================================
