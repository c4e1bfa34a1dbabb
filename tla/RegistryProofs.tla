--------------------------- MODULE RegistryProofs ---------------------------
(***************************************************************************)
(* The registry's promises hold for all numbers of clients, ids, versions  *)
(* and seats: no handler that is todo!() is reached, every registry object *)
(* is told of every global, a client that behaves agrees with the server   *)
(* on its ids and is never sent an error.                                  *)
(*                                                                         *)
(* All follow from one invariant, since a request of a client changes its  *)
(* own connection only: Sound says what a connection's tables hold, Agree  *)
(* what its client has made of them.                                       *)
(***************************************************************************)
EXTENDS Registry, SequenceTheorems, TLAPS

\* All that is ever registered: seats and keyboards, and objects of version 1.
Versioned(object) ==
  /\ object.interface \notin Missing
  /\ 1 <= object.version /\ object.version <= 10
  /\ object.interface \notin {"wl_seat", "wl_keyboard"} => object.version = 1

\* The objects of a connection, the callbacks and the roles of its surfaces: what a
\* surface refers to is registered, and no other surface's.
Sound(ob, cb, sh) ==
  /\ ob \in [Id -> Object \cup {None}]
  /\ cb \in [Id -> SUBSET Id]
  /\ sh \in [Id -> Id \cup {None}]
  /\ \A n \in Id : ob[n] # None => Versioned(ob[n])
  /\ \A o \in Id : \A n \in cb[o] : ob[n] # None /\ ob[n].interface = "wl_callback"
  /\ \A o, p \in Id : o # p => cb[o] \cap cb[p] = {}
  /\ \A o \in Id : sh[o] # None =>
       ob[sh[o]] # None /\ ob[sh[o]].interface = "wl_shell_surface"
  /\ \A o, p \in Id : o # p /\ sh[o] # None => sh[o] # sh[p]

\* A client's proxies and the delete_id events on their way to it: an object that
\* is gone and that the client did not destroy is a callback.
Agree(ob, pr, re) ==
  /\ pr \in [Id -> Object \cup {None, Gone}]
  /\ re \in [Id -> Nat]
  /\ \A n \in Id : ob[n] # None => pr[n] = ob[n] /\ re[n] = 0
  /\ \A n \in Id : ob[n] = None => re[n] = IF pr[n] # None THEN 1 ELSE 0
  /\ \A n \in Id : ob[n] = None /\ pr[n] # None /\ pr[n] # Gone =>
       pr[n].interface = "wl_callback"

\* The globals are those of the four interfaces that are there to be bound.
Advertised ==
  \A g \in DOMAIN globals :
    /\ globals[g].interface \in {"wl_compositor", "wl_shm", "wl_shell", "wl_seat"}
    /\ Versioned(globals[g])

\* What a connection's registry objects were told: all globals, and nothing else.
Tells(ob, tl) ==
  /\ tl \in [Id -> Seq(Name)]
  /\ \A n \in Id : \A k \in DOMAIN tl[n] : tl[n][k] \in DOMAIN globals
  /\ \A n \in Id : ob[n] # None /\ ob[n].interface = "wl_registry" =>
       /\ Len(tl[n]) = Len(globals)
       /\ \A g \in DOMAIN globals : \E k \in DOMAIN tl[n] : tl[n][k] = g

\* Nothing is left of a client that is gone.
Nobody(c) ==
  /\ objects[c] = Nothing(None)
  /\ callbacks[c] = Nothing({})
  /\ shell[c] = Nothing(None)
  /\ returning[c] = Nothing(0)

IInv ==
  /\ TypeOK
  /\ Advertised
  /\ \A c \in Client : Sound(objects[c], callbacks[c], shell[c])
  /\ \A c \in Client : Tells(objects[c], told[c])
  /\ \A c \in connected \cap behaved : Agree(objects[c], proxies[c], returning[c])
  /\ \A c \in Client \ connected : Nobody(c)
  /\ BehavedServed

----------------------------------------------------------------------------
(* Interfaces, versions and requests.                                      *)

\* Each interface has a version, and those of seats and keyboards are 10.
LEMMA Versions ==
  /\ \A i \in Interface : InterfaceVersion[i] \in Nat /\ InterfaceVersion[i] >= 1
  /\ InterfaceVersion["wl_seat"] = 10 /\ InterfaceVersion["wl_keyboard"] = 10
<1>1. DOMAIN InterfaceVersion = Interface /\ {"wl_seat", "wl_keyboard"} \subseteq Interface
  BY DEF InterfaceVersion, Interface
<1>2. \A i \in Interface : InterfaceVersion[i] \in {10, 6, 4, 3, 2, 1}
  BY DEF InterfaceVersion
<1>3. QED
  BY <1>1, <1>2 DEF InterfaceVersion

\* What is versioned, its interface has the version.
LEMMA VersionedFits ==
  ASSUME NEW object \in Object, Versioned(object)
  PROVE  0 < object.version /\ object.version <= InterfaceVersion[object.interface]
BY Versions DEF Versioned, Object

\* The requests that make an object, but for a keyboard, are not those of a seat or
\* a keyboard; nor are those with a handler that is todo!() or that frees others.
LEMMA Makers ==
  \A i \in {"wl_seat", "wl_keyboard"} :
    Requests[i] \cap {"sync", "get_registry", "bind", "create_surface", "create_region",
      "create_pool", "create_buffer", "get_shell_surface", "frame", "set_buffer_transform",
      "set_buffer_scale", "damage_buffer", "offset"} = {}
<1>1. {"wl_seat", "wl_keyboard"} \subseteq Interface
  BY DEF Interface
<1>2. /\ Requests["wl_seat"] = {"get_keyboard", "get_pointer", "get_touch", "release"}
      /\ Requests["wl_keyboard"] = {"release"}
  BY <1>1 DEF Requests
<1>3. QED
  BY <1>2

\* A callback has no requests.
LEMMA CallbacksMute == Requests["wl_callback"] = {} /\ "wl_callback" \in Interface
BY DEF Requests, Interface

\* An object that takes one of those requests has version 1.
LEMMA MakerVersion ==
  ASSUME NEW object \in Object, Versioned(object), NEW op,
         op \in {"sync", "get_registry", "create_surface", "create_region", "create_pool",
                 "create_buffer", "get_shell_surface", "frame", "set_buffer_transform",
                 "set_buffer_scale", "damage_buffer", "offset"},
         op \in Requests[object.interface]
  PROVE  object.version = 1
<1>1. object.interface \notin {"wl_seat", "wl_keyboard"}
  BY Makers
<1>2. QED
  BY <1>1 DEF Versioned

\* The objects of version 1 that are made.
LEMMA OfOne ==
  ASSUME NEW i \in Interface \ Missing
  PROVE  Of(i, 1) \in Object /\ Versioned(Of(i, 1))
BY DEF Of, Object, Versioned

----------------------------------------------------------------------------
(* One connection.                                                         *)

\* A free id is registered: the tables stay sound.
LEMMA Registers ==
  ASSUME NEW ob, NEW cb, NEW sh, Sound(ob, cb, sh), NEW n \in Id, ob[n] = None,
         NEW x \in Object, Versioned(x)
  PROVE  Sound([ob EXCEPT ![n] = x], cb, sh)
<1> DEFINE ob2 == [ob EXCEPT ![n] = x]
<1>1. ob2 \in [Id -> Object \cup {None}] /\ ob2[n] = x /\ \A m \in Id \ {n} : ob2[m] = ob[m]
  BY DEF Sound
<1>2. \A o \in Id : n \notin cb[o] /\ sh[o] # n
  BY IdAssumption DEF Sound
<1>3. x # None
  BY ObjectAssumption
<1>4. \A m \in Id : ob2[m] # None => Versioned(ob2[m])
  BY <1>1 DEF Sound
<1>5. \A o \in Id : \A m \in cb[o] : ob2[m] # None /\ ob2[m].interface = "wl_callback"
  BY <1>1, <1>2 DEF Sound
<1>6. \A o \in Id : sh[o] # None => ob2[sh[o]] # None /\ ob2[sh[o]].interface = "wl_shell_surface"
  BY <1>1, <1>2 DEF Sound
<1>7. QED
  BY <1>1, <1>4, <1>5, <1>6 DEF Sound

\* The objects, and the delete_id events on their way, when some ids are freed.
Freed(ob, ids) == [n \in Id |-> IF n \in ids THEN None ELSE ob[n]]
Counts(re, ids) == [n \in Id |-> IF n \in ids THEN re[n] + 1 ELSE re[n]]

\* Ids are freed that no surface refers to any more.
LEMMA Frees ==
  ASSUME NEW ob, NEW cb, NEW sh, Sound(ob, cb, sh), NEW ids \in SUBSET Id,
         NEW cb2 \in [Id -> SUBSET Id], NEW sh2 \in [Id -> Id \cup {None}],
         \A o \in Id : cb2[o] \subseteq cb[o] /\ cb2[o] \cap ids = {},
         \A o \in Id : sh2[o] = None \/ (sh2[o] = sh[o] /\ sh2[o] \notin ids)
  PROVE  Sound(Freed(ob, ids), cb2, sh2)
<1> DEFINE ob2 == [n \in Id |-> IF n \in ids THEN None ELSE ob[n]]
<1>1. ob2 \in [Id -> Object \cup {None}]
  BY DEF Sound
<1>2. \A n \in Id : ob2[n] # None => Versioned(ob2[n])
  BY DEF Sound
<1>3. \A o \in Id : \A n \in cb2[o] : ob2[n] # None /\ ob2[n].interface = "wl_callback"
  BY DEF Sound
<1>4. \A o, q \in Id : o # q => cb2[o] \cap cb2[q] = {}
  BY DEF Sound
<1>5. \A o \in Id : sh2[o] # None => ob2[sh2[o]] # None /\ ob2[sh2[o]].interface = "wl_shell_surface"
  BY DEF Sound
<1>6. \A o, q \in Id : o # q /\ sh2[o] # None => sh2[o] # sh2[q]
  BY DEF Sound
<1>7. QED
  BY <1>1, <1>2, <1>3, <1>4, <1>5, <1>6 DEF Freed, Sound

\* A client that agrees: what is registered it has, and an id that it has no use of
\* is free.
LEMMA AgreeFacts ==
  ASSUME NEW ob, NEW pr, NEW re, Agree(ob, pr, re), NEW n \in Id
  PROVE  /\ ob[n] # None => pr[n] = ob[n]
         /\ pr[n] = None => ob[n] = None
         /\ pr[n] # None /\ pr[n] # Gone /\ pr[n].interface # "wl_callback" => ob[n] = pr[n]
BY DEF Agree

\* The client and the server make the same object.
LEMMA AgreeMakes ==
  ASSUME NEW ob \in [Id -> Object \cup {None}], NEW pr, NEW re, Agree(ob, pr, re),
         NEW n \in Id, pr[n] = None, NEW x \in Object
  PROVE  Agree([ob EXCEPT ![n] = x], [pr EXCEPT ![n] = x], [m \in Id |-> IF m \in {} THEN re[m] + 1 ELSE re[m]])
<1> DEFINE ob2 == [ob EXCEPT ![n] = x]
           pr2 == [pr EXCEPT ![n] = x]
           re2 == [m \in Id |-> IF m \in {} THEN re[m] + 1 ELSE re[m]]
<1>1. /\ ob2[n] = x /\ pr2[n] = x /\ re2[n] = 0
      /\ \A m \in Id \ {n} : ob2[m] = ob[m] /\ pr2[m] = pr[m] /\ re2[m] = re[m]
  BY DEF Agree
<1>2. pr2 \in [Id -> Object \cup {None, Gone}] /\ re2 \in [Id -> Nat]
  BY DEF Agree
<1>3. x # None
  BY ObjectAssumption
<1>4. QED
  BY <1>1, <1>2, <1>3 DEF Agree

\* The client's new callback is answered at once.
LEMMA AgreeAnswered ==
  ASSUME NEW ob, NEW pr, NEW re, Agree(ob, pr, re),
         NEW n \in Id, pr[n] = None, NEW x \in Object, x.interface = "wl_callback"
  PROVE  Agree(ob, [pr EXCEPT ![n] = x], [m \in Id |-> IF m \in {n} THEN re[m] + 1 ELSE re[m]])
<1> DEFINE pr2 == [pr EXCEPT ![n] = x]
           re2 == [m \in Id |-> IF m \in {n} THEN re[m] + 1 ELSE re[m]]
<1>1. /\ pr2[n] = x /\ re[n] = 0 /\ re2[n] = 1 /\ ob[n] = None
      /\ \A m \in Id \ {n} : pr2[m] = pr[m] /\ re2[m] = re[m]
  BY DEF Agree
<1>2. pr2 \in [Id -> Object \cup {None, Gone}] /\ re2 \in [Id -> Nat]
  BY DEF Agree
<1>3. x # None
  BY ObjectAssumption
<1>4. QED
  BY <1>1, <1>2, <1>3 DEF Agree

\* Registered ids are freed: the client destroyed them, or they are callbacks.
LEMMA AgreeFrees ==
  ASSUME NEW ob, NEW pr, NEW re, Agree(ob, pr, re), NEW ids \in SUBSET Id,
         \A n \in ids : ob[n] # None,
         NEW pr2 \in [Id -> Object \cup {None, Gone}],
         \A n \in Id \ ids : pr2[n] = pr[n],
         \A n \in ids : pr2[n] = Gone \/ (pr2[n] = pr[n] /\ ob[n].interface = "wl_callback")
  PROVE  Agree(Freed(ob, ids), pr2, Counts(re, ids))
<1> DEFINE ob2 == [n \in Id |-> IF n \in ids THEN None ELSE ob[n]]
           re2 == [n \in Id |-> IF n \in ids THEN re[n] + 1 ELSE re[n]]
<1>1. \A n \in ids : ob2[n] = None /\ re2[n] = 1 /\ pr2[n] # None
  BY IdAssumption DEF Agree
<1>2. \A n \in ids : pr2[n] # Gone => pr2[n].interface = "wl_callback"
  BY DEF Agree
<1>3. \A n \in Id \ ids : ob2[n] = ob[n] /\ re2[n] = re[n] /\ pr2[n] = pr[n]
  OBVIOUS
<1>4. re2 \in [Id -> Nat]
  BY DEF Agree
<1>5. Freed(ob, ids) = ob2 /\ Counts(re, ids) = re2
  BY DEF Freed, Counts
<1> HIDE DEF ob2, re2
<1>6. /\ \A n \in Id : ob2[n] # None => pr2[n] = ob2[n] /\ re2[n] = 0
      /\ \A n \in Id : ob2[n] = None => re2[n] = IF pr2[n] # None THEN 1 ELSE 0
  BY <1>1, <1>3 DEF Agree
<1>7. \A n \in Id : ob2[n] = None /\ pr2[n] # None /\ pr2[n] # Gone =>
        pr2[n].interface = "wl_callback"
  BY <1>2, <1>3 DEF Agree
<1>8. Agree(ob2, pr2, re2)
  BY <1>4, <1>6, <1>7 DEF Agree
<1>9. QED
  BY <1>5, <1>8

\* Nothing is freed and nothing made.
LEMMA AgreeStays ==
  ASSUME NEW ob, NEW pr, NEW re, Agree(ob, pr, re)
  PROVE  Agree(ob, pr, [n \in Id |-> IF n \in {} THEN re[n] + 1 ELSE re[n]])
<1>1. [n \in Id |-> IF n \in {} THEN re[n] + 1 ELSE re[n]] = re
  BY DEF Agree
<1>2. QED
  BY <1>1

----------------------------------------------------------------------------
(* A request: what it makes of its own connection is all that it changes.   *)

\* What the registry has of client c after a request, and what the client makes of it.
Handled(c, ob, cb, sh, tl, proper, proxy, freed, failed) ==
  /\ objects' = [objects EXCEPT ![c] = ob]
  /\ callbacks' = [callbacks EXCEPT ![c] = cb]
  /\ shell' = [shell EXCEPT ![c] = sh]
  /\ told' = [told EXCEPT ![c] = tl]
  /\ Believes(c, proper, proxy, freed)
  /\ Errors(c, failed)
  /\ UNCHANGED <<serverVars, connected>>

\* The delete_id events on their way when some more ids are freed.
Returned(c, freed) == Counts(returning[c], freed)

\* The invariant is kept if that connection stays sound and a proper request keeps the
\* client in agreement and is no error.
LEMMA HandledStep ==
  ASSUME IInv, NEW c \in Client, c \in connected,
         NEW ob, NEW cb, NEW sh, NEW tl, NEW proper \in BOOLEAN, NEW proxy, NEW freed,
         NEW failed \in BOOLEAN, Handled(c, ob, cb, sh, tl, proper, proxy, freed, failed),
         Sound(ob, cb, sh), Tells(ob, tl),
         c \in behaved /\ proper => ~failed /\ Agree(ob, proxy, Returned(c, freed))
  PROVE  IInv'
<1> DEFINE re2 == [n \in Id |-> IF c \notin behaved' THEN 0
                                ELSE IF n \in freed THEN returning[c][n] + 1 ELSE returning[c][n]]
           pr2 == IF c \in behaved' THEN proxy ELSE Nothing(None)
<1>1. TypeOK
  BY DEF IInv
<1>2. /\ objects'[c] = ob /\ callbacks'[c] = cb /\ shell'[c] = sh /\ told'[c] = tl
      /\ \A d \in Client \ {c} : /\ objects'[d] = objects[d] /\ callbacks'[d] = callbacks[d]
                                 /\ shell'[d] = shell[d] /\ told'[d] = told[d]
  BY <1>1 DEF Handled, TypeOK
<1>3. proxies' = [proxies EXCEPT ![c] = pr2] /\ returning' = [returning EXCEPT ![c] = re2]
  BY DEF Handled, Believes
<1>4. /\ proxies'[c] = pr2 /\ returning'[c] = re2
      /\ \A d \in Client \ {c} : proxies'[d] = proxies[d] /\ returning'[d] = returning[d]
  BY <1>1, <1>3 DEF TypeOK
<1>5. /\ connected' = connected /\ globals' = globals /\ mainSeat' = mainSeat
      /\ knownSeats' = knownSeats
  BY DEF Handled, serverVars
<1>6. /\ behaved' \subseteq behaved /\ behaved \ {c} \subseteq behaved'
      /\ c \in behaved' => proper /\ c \in behaved
  BY DEF Handled, Believes
<1>7. errors' \subseteq errors \cup {c} /\ (c \in behaved' => errors' = errors)
  BY <1>6 DEF Handled, Errors
<1>8. c \in behaved' => Agree(ob, pr2, re2)
  <2>1. SUFFICES ASSUME c \in behaved' PROVE Agree(ob, pr2, re2)
    OBVIOUS
  <2>2. re2 = Returned(c, freed) /\ pr2 = proxy
    BY <2>1 DEF Returned, Counts
  <2>3. QED
    BY <1>6, <2>1, <2>2
<1>9. pr2 \in [Id -> Object \cup {None, Gone}] /\ re2 \in [Id -> Nat]
  <2>1. CASE c \in behaved'
    BY <1>8, <2>1 DEF Agree
  <2>2. CASE c \notin behaved'
    BY <2>2 DEF Nothing
  <2>3. QED
    BY <2>1, <2>2
<1>10. TypeOK'
  <2>1. /\ objects' \in [Client -> [Id -> Object \cup {None}]]
        /\ callbacks' \in [Client -> [Id -> SUBSET Id]]
        /\ shell' \in [Client -> [Id -> Id \cup {None}]]
    BY <1>1 DEF Handled, Sound, TypeOK
  <2>2. told' \in [Client -> [Id -> Seq(Name)]]
    BY <1>1 DEF Handled, Tells, TypeOK
  <2>3. /\ proxies' \in [Client -> [Id -> Object \cup {None, Gone}]]
        /\ returning' \in [Client -> [Id -> Nat]]
    BY <1>1, <1>3, <1>9 DEF TypeOK
  <2>4. behaved' \subseteq Client /\ errors' \subseteq Client
    BY <1>1, <1>6, <1>7 DEF TypeOK
  <2>5. QED
    BY <1>1, <1>5, <2>1, <2>2, <2>3, <2>4 DEF TypeOK
<1>11. Advertised'
  BY <1>5 DEF IInv, Advertised
<1>12. \A d \in Client : Sound(objects[d], callbacks[d], shell[d])'
  BY <1>2 DEF IInv
<1>13. \A d \in Client : Tells(objects'[d], told'[d])
  BY <1>2 DEF IInv
<1>14. \A d \in Client : Tells(objects[d], told[d])'
  BY <1>5, <1>13 DEF Tells
<1>15. \A d \in connected' \cap behaved' : Agree(objects[d], proxies[d], returning[d])'
  <2> SUFFICES ASSUME NEW d \in connected' \cap behaved'
               PROVE  Agree(objects'[d], proxies'[d], returning'[d])
    BY DEF Agree
  <2>1. d \in connected \cap behaved /\ d \in Client
    BY <1>1, <1>5, <1>6 DEF TypeOK
  <2>2. CASE d = c
    BY <1>2, <1>4, <1>8, <2>2
  <2>3. CASE d # c
    <3>1. Agree(objects[d], proxies[d], returning[d])
      BY <2>1 DEF IInv
    <3>2. QED
      BY <1>2, <1>4, <2>1, <2>3, <3>1
  <2>4. QED
    BY <2>2, <2>3
<1>16. \A d \in Client \ connected' : Nobody(d)'
  BY <1>2, <1>4, <1>5 DEF IInv, Nobody
<1>17. BehavedServed'
  BY <1>6, <1>7 DEF IInv, BehavedServed
<1>18. QED
  BY <1>10, <1>11, <1>12, <1>14, <1>15, <1>16, <1>17 DEF IInv

\* What the invariant says of the connection and the object of a request.
LEMMA ReceivedFacts ==
  ASSUME IInv, NEW c \in Client, NEW o \in Id, NEW op, Received(c, o, op)
  PROVE  /\ c \in connected
         /\ Sound(objects[c], callbacks[c], shell[c]) /\ Tells(objects[c], told[c])
         /\ objects[c] \in [Id -> Object \cup {None}]
         /\ objects[c][o] \in Object /\ Versioned(objects[c][o])
         /\ op \in Requests[objects[c][o].interface]
         /\ c \in behaved => /\ Agree(objects[c], proxies[c], returning[c])
                             /\ proxies[c][o] = objects[c][o]
<1>1. c \in connected /\ objects[c][o] # None /\ op \in Requests[objects[c][o].interface]
  BY DEF Received, Knows
<1>2. Sound(objects[c], callbacks[c], shell[c]) /\ Tells(objects[c], told[c])
  BY DEF IInv
<1>3. /\ objects[c] \in [Id -> Object \cup {None}]
      /\ objects[c][o] \in Object /\ Versioned(objects[c][o])
  BY <1>1, <1>2 DEF Sound
<1>4. c \in behaved => Agree(objects[c], proxies[c], returning[c])
  BY <1>1 DEF IInv
<1>5. c \in behaved => proxies[c][o] = objects[c][o]
  BY <1>1, <1>4, AgreeFacts
<1>6. QED
  BY <1>1, <1>2, <1>3, <1>4, <1>5

\* No registry object is made: nothing is to be told.
LEMMA TellsStays ==
  ASSUME NEW ob, NEW tl, Tells(ob, tl), NEW ob2,
         \A n \in Id : ob2[n] # None /\ ob2[n].interface = "wl_registry" => ob2[n] = ob[n]
  PROVE  Tells(ob2, tl)
BY DEF Tells

\* The objects of client c when x is registered as n, if it can be.
Made(c, n, x) == IF Registrable(c, n, x) THEN [objects[c] EXCEPT ![n] = x] ELSE objects[c]

\* Nor when an object is made that is no registry.
LEMMA MadeTells ==
  ASSUME NEW c, NEW n, NEW x, x.interface # "wl_registry", NEW tl, Tells(objects[c], tl),
         Registrable(c, n, x) =>
           /\ Made(c, n, x)[n] = x
           /\ \A m \in Id \ {n} : Made(c, n, x)[m] = objects[c][m]
  PROVE  Tells(Made(c, n, x), tl)
<1>1. CASE Registrable(c, n, x)
  <2>1. \A m \in Id : Made(c, n, x)[m] # None /\ Made(c, n, x)[m].interface = "wl_registry" =>
                        Made(c, n, x)[m] = objects[c][m]
    BY <1>1
  <2>2. QED
    BY <2>1, TellsStays
<1>2. CASE ~Registrable(c, n, x)
  BY <1>2 DEF Made
<1>3. QED
  BY <1>1, <1>2

\* Only the objects of client c change.
LEMMA MakesObjects ==
  ASSUME TypeOK, NEW c \in Client, NEW n, NEW x, NEW proper, NEW proxy,
         MakeObject(c, n, x, proper, proxy)
  PROVE  objects' = [objects EXCEPT ![c] = Made(c, n, x)]
BY DEF MakeObject, TypeOK, Made

\* What a request does that makes an object, or fails for its id.
LEMMA MakeFacts ==
  ASSUME IInv, NEW c \in Client, NEW o \in Id, NEW op, Received(c, o, op),
         NEW n, NEW x \in Object, Versioned(x), NEW y, NEW proper \in BOOLEAN,
         MakeObject(c, n, x, proper, [proxies[c] EXCEPT ![n] = y]),
         c \in behaved /\ proper => Fresh(c, n) /\ y = x
  PROVE  /\ objects' = [objects EXCEPT ![c] = Made(c, n, x)]
         /\ Registrable(c, n, x) =>
              /\ n \in Id /\ objects[c][n] = None
              /\ Made(c, n, x)[n] = x
              /\ \A m \in Id \ {n} : Made(c, n, x)[m] = objects[c][m]
         /\ Sound(Made(c, n, x), callbacks[c], shell[c])
         /\ c \in behaved /\ proper =>
              /\ Registrable(c, n, x)
              /\ Agree(Made(c, n, x), [proxies[c] EXCEPT ![n] = y], Returned(c, {}))
<1>1. TypeOK
  BY DEF IInv
<1>2. /\ Sound(objects[c], callbacks[c], shell[c])
      /\ objects[c] \in [Id -> Object \cup {None}]
      /\ c \in behaved => Agree(objects[c], proxies[c], returning[c])
  BY ReceivedFacts
<1>3. Registrable(c, n, x) => n \in Id /\ objects[c][n] = None
  BY DEF Registrable
<1>4. objects' = [objects EXCEPT ![c] = Made(c, n, x)]
  BY <1>1, MakesObjects
<1>5. Registrable(c, n, x) => /\ Made(c, n, x)[n] = x
                              /\ \A m \in Id \ {n} : Made(c, n, x)[m] = objects[c][m]
  BY <1>2, <1>3 DEF Made
<1>6. Sound(Made(c, n, x), callbacks[c], shell[c])
  <2>1. CASE Registrable(c, n, x)
    BY <1>2, <1>3, <2>1, Registers DEF Made
  <2>2. CASE ~Registrable(c, n, x)
    BY <1>2, <2>2 DEF Made
  <2>3. QED
    BY <2>1, <2>2
<1>7. ASSUME c \in behaved /\ proper
      PROVE  /\ Registrable(c, n, x)
             /\ Agree(Made(c, n, x), [proxies[c] EXCEPT ![n] = y], Returned(c, {}))
  <2>1. n \in Id /\ proxies[c][n] = None /\ y = x
    BY <1>7 DEF Fresh
  <2>2. objects[c][n] = None
    BY <1>2, <1>7, <2>1, AgreeFacts
  <2>3. Registrable(c, n, x)
    BY <2>1, <2>2, VersionedFits DEF Registrable
  <2>4. Agree([objects[c] EXCEPT ![n] = x], [proxies[c] EXCEPT ![n] = y], Returned(c, {}))
    BY <1>2, <1>7, <2>1, AgreeMakes DEF Returned, Counts
  <2>5. QED
    BY <2>3, <2>4 DEF Made
<1>8. QED
  BY <1>3, <1>4, <1>5, <1>6, <1>7

\* The object made is no registry: the tables but the objects are left alone.
LEMMA MakeStep ==
  ASSUME IInv, NEW c \in Client, NEW o \in Id, NEW op, Received(c, o, op),
         NEW n, NEW x \in Object, Versioned(x), x.interface # "wl_registry",
         NEW y, NEW proper \in BOOLEAN, NEW failed \in BOOLEAN,
         MakeObject(c, n, x, proper, [proxies[c] EXCEPT ![n] = y]),
         Errors(c, failed), UNCHANGED <<serverVars, connected, callbacks, shell, told>>,
         c \in behaved /\ proper => Fresh(c, n) /\ y = x,
         proper /\ Registrable(c, n, x) => ~failed
  PROVE  IInv'
<1> DEFINE proxy == [proxies[c] EXCEPT ![n] = y]
<1>1. c \in connected /\ TypeOK /\ Tells(objects[c], told[c])
  BY ReceivedFacts DEF IInv
<1>2. /\ callbacks' = [callbacks EXCEPT ![c] = callbacks[c]]
      /\ shell' = [shell EXCEPT ![c] = shell[c]] /\ told' = [told EXCEPT ![c] = told[c]]
  BY <1>1 DEF TypeOK
<1>3. Handled(c, Made(c, n, x), callbacks[c], shell[c], told[c], proper, proxy, {}, failed)
  <2>1. objects' = [objects EXCEPT ![c] = Made(c, n, x)]
    BY <1>1, MakesObjects
  <2>2. Believes(c, proper, proxy, {})
    BY DEF MakeObject
  <2>3. QED
    BY <1>2, <2>1, <2>2 DEF Handled
<1>4. Tells(Made(c, n, x), told[c])
  BY <1>1, MakeFacts, MadeTells
<1>5. QED
  BY <1>1, <1>3, <1>4, MakeFacts, HandledStep

----------------------------------------------------------------------------
(* The requests, one by one.                                               *)

\* A request that changes no table of the server's.
LEMMA LookStep ==
  ASSUME IInv, NEW c \in Client, NEW o \in Id, NEW op, Received(c, o, op),
         NEW proper \in BOOLEAN, NEW failed \in BOOLEAN, NEW proxy, NEW freed,
         UNCHANGED <<serverVars, connected, objects, callbacks, shell, told>>,
         Believes(c, proper, proxy, freed), Errors(c, failed),
         c \in behaved /\ proper => ~failed /\ Agree(objects[c], proxy, Returned(c, freed))
  PROVE  IInv'
<1>1. TypeOK
  BY DEF IInv
<1>2. /\ c \in connected
      /\ Sound(objects[c], callbacks[c], shell[c]) /\ Tells(objects[c], told[c])
  BY ReceivedFacts
<1>3. /\ objects = [objects EXCEPT ![c] = objects[c]]
      /\ callbacks = [callbacks EXCEPT ![c] = callbacks[c]]
      /\ shell = [shell EXCEPT ![c] = shell[c]] /\ told = [told EXCEPT ![c] = told[c]]
  BY <1>1 DEF TypeOK
<1>4. Handled(c, objects[c], callbacks[c], shell[c], told[c], proper, proxy, freed, failed)
  BY <1>3 DEF Handled
<1>5. QED
  BY <1>2, <1>4, HandledStep

LEMMA OtherStep ==
  ASSUME IInv, NEW c \in Client, NEW o \in Id, NEW op, NEW ok \in BOOLEAN, Other(c, o, op, ok)
  PROVE  IInv'
<1>1. /\ Received(c, o, op) /\ Believes(c, ok, proxies[c], {}) /\ Errors(c, ~ok)
      /\ UNCHANGED <<serverVars, connected, objects, callbacks, shell, told>>
  BY DEF Other
<1>2. c \in behaved => Agree(objects[c], proxies[c], Returned(c, {}))
  BY <1>1, ReceivedFacts, AgreeStays DEF Returned, Counts
<1>3. QED
  BY <1>1, <1>2, LookStep

LEMMA SyncStep ==
  ASSUME IInv, NEW c \in Client, NEW o \in Id, NEW n, Sync(c, o, n)
  PROVE  IInv'
<1> DEFINE x == Of("wl_callback", 1)
           made == Registrable(c, n, x)
           freed == IF made THEN {n} ELSE {}
           proxy == WithProxy(c, o, n, "wl_callback")
<1>1. /\ Received(c, o, "sync") /\ Believes(c, Fresh(c, n), proxy, freed) /\ Errors(c, ~made)
      /\ UNCHANGED <<serverVars, connected, objects, callbacks, shell, told>>
  BY DEF Sync
<1>2. ASSUME c \in behaved, Fresh(c, n)
      PROVE  made /\ Agree(objects[c], proxy, Returned(c, freed))
  <2>1. /\ objects[c][o] \in Object /\ Agree(objects[c], proxies[c], returning[c])
        /\ proxies[c][o] = objects[c][o]
    BY <1>1, <1>2, ReceivedFacts
  <2>2. n \in Id /\ proxies[c][n] = None /\ objects[c][n] = None
    BY <1>2, <2>1, AgreeFacts DEF Fresh
  <2>3. "wl_callback" \in Interface \ Missing
    BY DEF Interface, Missing
  <2>4. made
    BY <2>2, <2>3, OfOne, VersionedFits DEF Registrable
  <2>5. Of("wl_callback", proxies[c][o].version) \in Object
    BY <2>1, <2>3 DEF Of, Object
  <2>6. Of("wl_callback", proxies[c][o].version).interface = "wl_callback"
    BY DEF Of
  <2>7. Agree(objects[c], proxy, Returned(c, {n}))
    BY <2>1, <2>2, <2>5, <2>6, AgreeAnswered DEF Returned, Counts, WithProxy
  <2>8. QED
    BY <2>4, <2>7
<1>3. Fresh(c, n) \in BOOLEAN /\ (~made) \in BOOLEAN
  BY DEF Fresh, Registrable
<1>4. c \in behaved /\ Fresh(c, n) => ~~made /\ Agree(objects[c], proxy, Returned(c, freed))
  BY <1>2
<1>5. QED
  <2> HIDE DEF made, freed, proxy
  <2>1. QED
    BY <1>1, <1>3, <1>4, LookStep

LEMMA CreateBufferStep ==
  ASSUME IInv, NEW c \in Client, NEW o \in Id, NEW n, NEW ok \in BOOLEAN,
         CreateBuffer(c, o, n, ok)
  PROVE  IInv'
<1> DEFINE x == Of("wl_buffer", 1)
           y == Of("wl_buffer", proxies[c][o].version)
           proper == Fresh(c, n) /\ ok
           failed == ~Registrable(c, n, x) \/ ~ok
<1>1. /\ Received(c, o, "create_buffer")
      /\ MakeObject(c, n, x, proper, [proxies[c] EXCEPT ![n] = y]) /\ Errors(c, failed)
      /\ UNCHANGED <<serverVars, connected, callbacks, shell, told>>
  BY DEF CreateBuffer, WithProxy
<1>2. x \in Object /\ Versioned(x) /\ x.interface # "wl_registry"
  <2>1. "wl_buffer" \in Interface \ Missing
    BY DEF Interface, Missing
  <2>2. QED
    BY <2>1, OfOne DEF Of
<1>3. c \in behaved /\ proper => Fresh(c, n) /\ y = x
  BY <1>1, ReceivedFacts, MakerVersion
<1>4. proper \in BOOLEAN /\ failed \in BOOLEAN
  BY DEF Fresh, Registrable
<1>5. proper /\ Registrable(c, n, x) => ~failed
  OBVIOUS
<1>6. QED
  <2> HIDE DEF x, y, proper, failed
  <2>1. QED
    BY <1>1, <1>2, <1>3, <1>4, <1>5, MakeStep

LEMMA CreateStep ==
  ASSUME IInv, NEW c \in Client, NEW o \in Id, NEW op, NEW n, NEW ok \in BOOLEAN,
         Create(c, o, op, n, ok)
  PROVE  IInv'
<1> DEFINE i == Inheriting[op]
           x == Inherited(objects[c][o], i)
           y == Of(i, proxies[c][o].version)
           proper == Fresh(c, n) /\ ok
           failed == ~Registrable(c, n, x) \/ ~ok
<1>1. /\ Received(c, o, op) /\ op \in DOMAIN Inheriting
      /\ MakeObject(c, n, x, proper, [proxies[c] EXCEPT ![n] = y]) /\ Errors(c, failed)
      /\ UNCHANGED <<serverVars, connected, callbacks, shell, told>>
  BY DEF Create, WithProxy
<1>2. objects[c][o] \in Object /\ Versioned(objects[c][o]) /\ op \in Requests[objects[c][o].interface]
  BY <1>1, ReceivedFacts
<1>3. /\ i \in Interface \ Missing /\ i # "wl_registry"
      /\ op # "get_keyboard" => op \in {"create_surface", "create_region", "create_pool"}
      /\ op = "get_keyboard" => i = "wl_keyboard"
  <2>1. op \in {"create_surface", "create_region", "create_pool", "get_keyboard"}
    BY <1>1, DOMAIN Inheriting = {"create_surface", "create_region", "create_pool", "get_keyboard"}
       DEF Inheriting
  <2>2. i \in {"wl_surface", "wl_region", "wl_shm_pool", "wl_keyboard"} /\ (op = "get_keyboard" => i = "wl_keyboard")
    BY <2>1 DEF Inheriting
  <2>3. i \in Interface /\ i \notin Missing /\ i # "wl_registry"
    BY <2>2 DEF Interface, Missing
  <2>4. op # "get_keyboard" => op \in {"create_surface", "create_region", "create_pool"}
    BY <2>1
  <2>5. QED
    BY <2>2, <2>3, <2>4
<1>4. objects[c][o].version \in Nat /\ InterfaceVersion[i] \in Nat /\ InterfaceVersion[i] >= 1
  BY <1>2, <1>3, Versions DEF Object
<1>5. x = Of(i, objects[c][o].version) /\ Versioned(x)
  <2>1. CASE op # "get_keyboard"
    <3>1. objects[c][o].version = 1
      BY <1>2, <1>3, <2>1, MakerVersion
    <3>2. Least(objects[c][o].version, InterfaceVersion[i]) = 1
      BY <1>4, <3>1 DEF Least
    <3>3. x = Of(i, 1)
      BY <3>2 DEF Inherited
    <3>4. QED
      BY <1>3, <3>1, <3>3, OfOne
  <2>2. CASE op = "get_keyboard"
    <3>1. i = "wl_keyboard" /\ InterfaceVersion[i] = 10
      BY <1>3, <2>2, Versions
    <3>2. 1 <= objects[c][o].version /\ objects[c][o].version <= 10
      BY <1>2 DEF Versioned
    <3>3. Least(objects[c][o].version, InterfaceVersion[i]) = objects[c][o].version
      BY <1>4, <3>1, <3>2 DEF Least
    <3>4. x = Of(i, objects[c][o].version)
      BY <3>3 DEF Inherited
    <3>5. QED
      BY <1>3, <3>1, <3>2, <3>4 DEF Of, Versioned
  <2>3. QED
    BY <2>1, <2>2
<1>6. x \in Object /\ x.interface # "wl_registry"
  BY <1>3, <1>4, <1>5 DEF Of, Object
<1>7. c \in behaved /\ proper => Fresh(c, n) /\ y = x
  BY <1>1, <1>5, ReceivedFacts
<1>8. proper \in BOOLEAN /\ failed \in BOOLEAN
  BY DEF Fresh, Registrable
<1>9. proper /\ Registrable(c, n, x) => ~failed
  OBVIOUS
<1>10. QED
  <2> HIDE DEF i, x, y, proper, failed
  <2>1. QED
    BY <1>1, <1>5, <1>6, <1>7, <1>8, <1>9, MakeStep

\* The names of all globals, in a new registry object's order.
LEMMA AllNames ==
  ASSUME globals \in Seq(Object)
  PROVE  /\ [g \in DOMAIN globals |-> g] \in Seq(Name)
         /\ Len([g \in DOMAIN globals |-> g]) = Len(globals)
         /\ DOMAIN [g \in DOMAIN globals |-> g] = DOMAIN globals
<1>1. Len(globals) \in Nat /\ DOMAIN globals = 1 .. Len(globals)
  OBVIOUS
<1>2. \A g \in 1 .. Len(globals) : g \in Name
  BY <1>1 DEF Name
<1>3. [g \in 1 .. Len(globals) |-> g] \in Seq(Name)
  BY <1>1, <1>2
<1>4. QED
  BY <1>1, <1>3

LEMMA GetRegistryStep ==
  ASSUME IInv, NEW c \in Client, NEW o \in Id, NEW n, GetRegistry(c, o, n)
  PROVE  IInv'
<1> DEFINE x == Of("wl_registry", 1)
           y == Of("wl_registry", proxies[c][o].version)
           proxy == [proxies[c] EXCEPT ![n] = y]
           all == [g \in DOMAIN globals |-> g]
           tl == IF Registrable(c, n, x) THEN [told[c] EXCEPT ![n] = all] ELSE told[c]
<1>1. /\ Received(c, o, "get_registry")
      /\ MakeObject(c, n, x, Fresh(c, n), proxy)
      /\ told' = IF Registrable(c, n, x) THEN [told EXCEPT ![c][n] = all] ELSE told
      /\ Errors(c, ~Registrable(c, n, x))
      /\ UNCHANGED <<serverVars, connected, callbacks, shell>>
  BY DEF GetRegistry, WithProxy
<1>2. x \in Object /\ Versioned(x)
  <2>1. "wl_registry" \in Interface \ Missing
    BY DEF Interface, Missing
  <2>2. QED
    BY <2>1, OfOne
<1>3. Fresh(c, n) \in BOOLEAN /\ (~Registrable(c, n, x)) \in BOOLEAN
  BY DEF Fresh, Registrable
<1>4. c \in behaved /\ Fresh(c, n) => Fresh(c, n) /\ y = x
  BY <1>1, ReceivedFacts, MakerVersion
<1>5. /\ Registrable(c, n, x) =>
           /\ n \in Id /\ objects[c][n] = None
           /\ Made(c, n, x)[n] = x
           /\ \A m \in Id \ {n} : Made(c, n, x)[m] = objects[c][m]
      /\ Sound(Made(c, n, x), callbacks[c], shell[c])
      /\ c \in behaved /\ Fresh(c, n) =>
           /\ Registrable(c, n, x)
           /\ Agree(Made(c, n, x), proxy, Returned(c, {}))
  <2> HIDE DEF x, y
  <2>1. QED
    BY <1>1, <1>2, <1>3, <1>4, MakeFacts
<1>6. TypeOK /\ c \in connected /\ Tells(objects[c], told[c])
  BY <1>1, ReceivedFacts DEF IInv
<1>7. /\ callbacks' = [callbacks EXCEPT ![c] = callbacks[c]]
      /\ shell' = [shell EXCEPT ![c] = shell[c]] /\ told' = [told EXCEPT ![c] = tl]
  <2>1. told' = [told EXCEPT ![c] = tl]
    BY <1>1, <1>6 DEF TypeOK
  <2>2. QED
    BY <1>1, <1>6, <2>1 DEF TypeOK
<1>8. Tells(Made(c, n, x), tl)
  <2>1. CASE Registrable(c, n, x)
    <3>1. all \in Seq(Name) /\ Len(all) = Len(globals) /\ DOMAIN all = DOMAIN globals
      BY <1>6, AllNames DEF TypeOK
    <3>2. /\ tl \in [Id -> Seq(Name)] /\ tl[n] = all
          /\ \A m \in Id \ {n} : tl[m] = told[c][m]
      BY <1>5, <1>6, <2>1, <3>1 DEF Tells
    <3>3. \A m \in Id : \A k \in DOMAIN tl[m] : tl[m][k] \in DOMAIN globals
      BY <1>6, <3>1, <3>2 DEF Tells
    <3>4. \A g \in DOMAIN globals : g \in DOMAIN all /\ all[g] = g
      OBVIOUS
    <3>5. \A m \in Id \ {n} :
            Made(c, n, x)[m] # None /\ Made(c, n, x)[m].interface = "wl_registry" =>
              /\ Len(tl[m]) = Len(globals)
              /\ \A g \in DOMAIN globals : \E k \in DOMAIN tl[m] : tl[m][k] = g
      <4> SUFFICES ASSUME NEW m \in Id \ {n}, Made(c, n, x)[m] # None,
                          Made(c, n, x)[m].interface = "wl_registry"
                   PROVE  /\ Len(tl[m]) = Len(globals)
                          /\ \A g \in DOMAIN globals : \E k \in DOMAIN tl[m] : tl[m][k] = g
        OBVIOUS
      <4>1. tl[m] = told[c][m] /\ Made(c, n, x)[m] = objects[c][m] /\ m \in Id
        BY <1>5, <2>1, <3>2
      <4> HIDE DEF tl, x
      <4>2. objects[c][m] # None /\ objects[c][m].interface = "wl_registry"
        BY <4>1
      <4>3. QED
        BY <1>6, <4>1, <4>2 DEF Tells
    <3>6. \A m \in Id : m # n => m \in Id \ {n}
      OBVIOUS
    <3> HIDE DEF all, tl, x
    <3>7. QED
      BY <3>1, <3>2, <3>3, <3>4, <3>5, <3>6 DEF Tells
  <2>2. CASE ~Registrable(c, n, x)
    BY <1>6, <2>2 DEF Made
  <2>3. QED
    BY <2>1, <2>2
<1>9. objects' = [objects EXCEPT ![c] = Made(c, n, x)]
  BY <1>1, <1>6, MakesObjects
<1> HIDE DEF x, proxy, tl, all
<1>10. Handled(c, Made(c, n, x), callbacks[c], shell[c], tl, Fresh(c, n), proxy, {}, ~Registrable(c, n, x))
  BY <1>1, <1>7, <1>9 DEF Handled, MakeObject
<1>11. QED
  BY <1>3, <1>5, <1>6, <1>8, <1>10, HandledStep

\* A surface gets a callback, or a role, that no surface has.
LEMMA Asks ==
  ASSUME NEW ob, NEW cb, NEW sh, Sound(ob, cb, sh), NEW o \in Id, NEW n \in Id,
         \A p \in Id : n \notin cb[p], ob[n] # None, ob[n].interface = "wl_callback"
  PROVE  Sound(ob, [cb EXCEPT ![o] = cb[o] \cup {n}], sh)
<1> DEFINE cb2 == [cb EXCEPT ![o] = cb[o] \cup {n}]
<1>1. /\ cb2 \in [Id -> SUBSET Id] /\ cb2[o] = cb[o] \cup {n}
      /\ \A p \in Id \ {o} : cb2[p] = cb[p]
  BY DEF Sound
<1>2. \A p \in Id : \A m \in cb2[p] : ob[m] # None /\ ob[m].interface = "wl_callback"
  BY <1>1 DEF Sound
<1>3. \A p, q \in Id : p # q => cb2[p] \cap cb2[q] = {}
  BY <1>1 DEF Sound
<1> HIDE DEF cb2
<1>4. QED
  BY <1>1, <1>2, <1>3 DEF Sound

LEMMA Roles ==
  ASSUME NEW ob, NEW cb, NEW sh, Sound(ob, cb, sh), NEW s \in Id, NEW n \in Id,
         \A p \in Id : sh[p] # n, ob[n] # None, ob[n].interface = "wl_shell_surface"
  PROVE  Sound(ob, cb, [sh EXCEPT ![s] = n])
<1> DEFINE sh2 == [sh EXCEPT ![s] = n]
<1>1. /\ sh2 \in [Id -> Id \cup {None}] /\ sh2[s] = n
      /\ \A p \in Id \ {s} : sh2[p] = sh[p]
  BY DEF Sound
<1>2. \A p \in Id : sh2[p] # None => ob[sh2[p]] # None /\ ob[sh2[p]].interface = "wl_shell_surface"
  BY <1>1 DEF Sound
<1>3. \A p, q \in Id : p # q /\ sh2[p] # None => sh2[p] # sh2[q]
  BY <1>1 DEF Sound
<1> HIDE DEF sh2
<1>4. QED
  BY <1>1, <1>2, <1>3 DEF Sound

\* No surface refers to an id that is free.
LEMMA FreeIdUnused ==
  ASSUME NEW ob, NEW cb, NEW sh, Sound(ob, cb, sh), NEW n \in Id, ob[n] = None
  PROVE  \A p \in Id : n \notin cb[p] /\ sh[p] # n
BY IdAssumption DEF Sound

LEMMA FrameStep ==
  ASSUME IInv, NEW c \in Client, NEW o \in Id, NEW n, Frame(c, o, n)
  PROVE  IInv'
<1> DEFINE x == Of("wl_callback", 1)
           y == Of("wl_callback", proxies[c][o].version)
           proxy == [proxies[c] EXCEPT ![n] = y]
           cb == IF Registrable(c, n, x) THEN [callbacks[c] EXCEPT ![o] = callbacks[c][o] \cup {n}]
                 ELSE callbacks[c]
<1>1. /\ Received(c, o, "frame")
      /\ MakeObject(c, n, x, Fresh(c, n), proxy)
      /\ callbacks' = IF Registrable(c, n, x) THEN [callbacks EXCEPT ![c][o] = @ \cup {n}]
                      ELSE callbacks
      /\ Errors(c, ~Registrable(c, n, x))
      /\ UNCHANGED <<serverVars, connected, shell, told>>
  BY DEF Frame, WithProxy
<1>2. x \in Object /\ Versioned(x) /\ x.interface = "wl_callback"
  <2>1. "wl_callback" \in Interface \ Missing
    BY DEF Interface, Missing
  <2>2. QED
    BY <2>1, OfOne DEF Of
<1>3. Fresh(c, n) \in BOOLEAN /\ (~Registrable(c, n, x)) \in BOOLEAN
  BY DEF Fresh, Registrable
<1>4. c \in behaved /\ Fresh(c, n) => Fresh(c, n) /\ y = x
  BY <1>1, ReceivedFacts, MakerVersion
<1>5. /\ Registrable(c, n, x) =>
           /\ n \in Id /\ objects[c][n] = None
           /\ Made(c, n, x)[n] = x
           /\ \A m \in Id \ {n} : Made(c, n, x)[m] = objects[c][m]
      /\ Sound(Made(c, n, x), callbacks[c], shell[c])
      /\ c \in behaved /\ Fresh(c, n) =>
           /\ Registrable(c, n, x)
           /\ Agree(Made(c, n, x), proxy, Returned(c, {}))
  <2> HIDE DEF x, y
  <2>1. QED
    BY <1>1, <1>2, <1>3, <1>4, MakeFacts
<1>6. /\ TypeOK /\ c \in connected /\ Tells(objects[c], told[c])
      /\ Sound(objects[c], callbacks[c], shell[c])
  BY <1>1, ReceivedFacts DEF IInv
<1>7. /\ callbacks' = [callbacks EXCEPT ![c] = cb]
      /\ shell' = [shell EXCEPT ![c] = shell[c]] /\ told' = [told EXCEPT ![c] = told[c]]
  <2>1. callbacks' = [callbacks EXCEPT ![c] = cb]
    BY <1>1, <1>6 DEF TypeOK
  <2>2. QED
    BY <1>1, <1>6, <2>1 DEF TypeOK
<1>8. Sound(Made(c, n, x), cb, shell[c])
  <2>1. CASE Registrable(c, n, x)
    <3>1. \A p \in Id : n \notin callbacks[c][p]
      BY <1>5, <1>6, <2>1, FreeIdUnused
    <3>2. Made(c, n, x)[n] # None /\ Made(c, n, x)[n].interface = "wl_callback"
      BY <1>2, <1>5, <2>1, ObjectAssumption
    <3>3. Sound(Made(c, n, x), [callbacks[c] EXCEPT ![o] = callbacks[c][o] \cup {n}], shell[c])
      BY <1>5, <2>1, <3>1, <3>2, Asks
    <3>4. QED
      BY <2>1, <3>3
  <2>2. CASE ~Registrable(c, n, x)
    BY <1>5, <2>2
  <2>3. QED
    BY <2>1, <2>2
<1>9. Tells(Made(c, n, x), told[c])
  <2>1. x.interface # "wl_registry"
    BY <1>2
  <2>2. QED
    BY <1>5, <1>6, <2>1, MadeTells
<1>10. objects' = [objects EXCEPT ![c] = Made(c, n, x)]
  BY <1>1, <1>6, MakesObjects
<1> HIDE DEF x, proxy, cb
<1>11. Handled(c, Made(c, n, x), cb, shell[c], told[c], Fresh(c, n), proxy, {}, ~Registrable(c, n, x))
  BY <1>1, <1>7, <1>10 DEF Handled, MakeObject
<1>12. QED
  BY <1>3, <1>5, <1>6, <1>8, <1>9, <1>11, HandledStep

LEMMA BindStep ==
  ASSUME IInv, NEW c \in Client, NEW o \in Id, NEW n, NEW g, NEW i, NEW v \in Nat,
         Bind(c, o, n, g, i, v)
  PROVE  IInv'
<1> DEFINE x == Of(i, v)
           right == g \in DOMAIN globals /\ i = globals[g].interface /\ 0 < v /\ v <= globals[g].version
           proper == ProperBind(c, o, n, g, i, v)
           proxy == [proxies[c] EXCEPT ![n] = x]
           failed == g \in DOMAIN globals /\ ~(right /\ Registrable(c, n, x))
<1>1. /\ Received(c, o, "bind")
      /\ objects' = IF right /\ Registrable(c, n, x) THEN [objects EXCEPT ![c][n] = x] ELSE objects
      /\ Believes(c, proper, proxy, {})
      /\ Errors(c, failed)
      /\ UNCHANGED <<serverVars, connected, callbacks, shell, told>>
  BY DEF Bind
<1>2. proper \in BOOLEAN /\ failed \in BOOLEAN
  BY DEF ProperBind, Fresh, Registrable
<1>3. proper => Fresh(c, n) /\ right
  <2>1. Tells(objects[c], told[c])
    BY DEF IInv
  <2>2. QED
    BY <2>1 DEF ProperBind, Tells
<1>4. CASE right
  <2>1. globals[g] \in Object /\ Versioned(globals[g])
    BY <1>4 DEF IInv, TypeOK, Advertised
  <2>2. i \in {"wl_compositor", "wl_shm", "wl_shell", "wl_seat"}
    BY <1>4 DEF IInv, Advertised
  <2>3. x \in Object /\ x.interface # "wl_registry"
    BY <1>4, <2>1, <2>2 DEF Of, Object
  <2>4. Versioned(x)
    BY <1>4, <2>1 DEF Of, Versioned, Object
  <2>5. MakeObject(c, n, x, proper, proxy)
    BY <1>1, <1>4 DEF MakeObject
  <2>6. proper /\ Registrable(c, n, x) => ~failed
    BY <1>4
  <2>7. c \in behaved /\ proper => Fresh(c, n) /\ x = x
    BY <1>3
  <2> HIDE DEF x, right, proper, failed
  <2>8. QED
    BY <1>1, <1>2, <2>3, <2>4, <2>5, <2>6, <2>7, MakeStep
<1>5. CASE ~right
  <2>1. objects' = objects /\ ~proper
    BY <1>1, <1>3, <1>5
  <2> HIDE DEF x, right, proper, failed, proxy
  <2>2. QED
    BY <1>1, <1>2, <2>1, LookStep
<1>6. QED
  BY <1>4, <1>5

\* Ids of client c that no surface refers to once cb and sh are what they have.
Unused(c, ids, cb, sh) ==
  /\ ids \in SUBSET Id
  /\ \A n \in ids : objects[c][n] # None
  /\ cb \in [Id -> SUBSET Id] /\ sh \in [Id -> Id \cup {None}]
  /\ \A p \in Id : cb[p] \subseteq callbacks[c][p] /\ cb[p] \cap ids = {}
  /\ \A p \in Id : sh[p] = None \/ (sh[p] = shell[c][p] /\ sh[p] \notin ids)

\* Of those ids the client has destroyed the objects, but for callbacks.
GivenUp(c, ids, proxy) ==
  /\ proxy \in [Id -> Object \cup {None, Gone}]
  /\ \A n \in Id \ ids : proxy[n] = proxies[c][n]
  /\ \A n \in ids : \/ proxy[n] = Gone
                     \/ /\ proxy[n] = proxies[c][n]
                        /\ objects[c][n].interface = "wl_callback"

\* Such ids are freed.
LEMMA FreeStep ==
  ASSUME IInv, NEW c \in Client, NEW o \in Id, NEW op, Received(c, o, op),
         NEW ids, NEW cb, NEW sh, Unused(c, ids, cb, sh),
         NEW proper \in BOOLEAN, NEW failed \in BOOLEAN, NEW proxy,
         objects' = Without(c, ids),
         callbacks' = [callbacks EXCEPT ![c] = cb],
         shell' = [shell EXCEPT ![c] = sh],
         Believes(c, proper, proxy, ids), Errors(c, failed),
         UNCHANGED <<serverVars, connected, told>>,
         proper => ~failed,
         c \in behaved => GivenUp(c, ids, proxy)
  PROVE  IInv'
<1> DEFINE ob == Freed(objects[c], ids)
<1>1. /\ TypeOK /\ c \in connected /\ Tells(objects[c], told[c])
      /\ Sound(objects[c], callbacks[c], shell[c])
      /\ c \in behaved => Agree(objects[c], proxies[c], returning[c])
  BY ReceivedFacts DEF IInv
<1>2. Sound(ob, cb, sh)
  BY <1>1, Frees DEF Unused
<1>3. c \in behaved => Agree(ob, proxy, Returned(c, ids))
  BY <1>1, AgreeFrees DEF Returned, Unused, GivenUp
<1>4. Tells(ob, told[c])
  BY <1>1, TellsStays DEF Freed, Unused
<1>5. objects' = [objects EXCEPT ![c] = ob] /\ told' = [told EXCEPT ![c] = told[c]]
  BY <1>1 DEF Without, Freed, TypeOK
<1> HIDE DEF ob
<1>6. Handled(c, ob, cb, sh, told[c], proper, proxy, ids, failed)
  BY <1>5 DEF Handled
<1>7. QED
  BY <1>1, <1>2, <1>3, <1>4, <1>6, HandledStep

LEMMA DestroyStep ==
  ASSUME IInv, NEW c \in Client, NEW o \in Id, NEW op, Destroy(c, o, op)
  PROVE  IInv'
<1>1. /\ Received(c, o, op)
      /\ objects[c][o].interface \in
           {"wl_shm", "wl_shm_pool", "wl_buffer", "wl_region", "wl_seat", "wl_keyboard"}
      /\ objects' = Without(c, {o})
      /\ Believes(c, TRUE, WithoutProxies(c, {o}), {o})
      /\ UNCHANGED <<serverVars, connected, callbacks, shell, told>> /\ errors' = errors
  BY DEF Destroy
<1>2. /\ TypeOK /\ c \in connected /\ objects[c][o] # None
      /\ Sound(objects[c], callbacks[c], shell[c])
      /\ c \in behaved => Agree(objects[c], proxies[c], returning[c])
  BY <1>1, ReceivedFacts, ObjectAssumption DEF IInv
<1>3. callbacks' = [callbacks EXCEPT ![c] = callbacks[c]] /\ shell' = [shell EXCEPT ![c] = shell[c]]
  BY <1>1, <1>2 DEF TypeOK
<1>4. \A p \in Id : callbacks[c][p] \cap {o} = {} /\ (shell[c][p] = None \/ shell[c][p] \notin {o})
  BY <1>1, <1>2 DEF Sound
<1>5. c \in behaved =>
        /\ WithoutProxies(c, {o}) \in [Id -> Object \cup {None, Gone}]
        /\ \A n \in Id \ {o} : WithoutProxies(c, {o})[n] = proxies[c][n]
        /\ WithoutProxies(c, {o})[o] = Gone
  BY <1>2 DEF WithoutProxies, Agree
<1>6. Errors(c, FALSE)
  BY <1>1 DEF Errors
<1>7. callbacks[c] \in [Id -> SUBSET Id] /\ shell[c] \in [Id -> Id \cup {None}]
  BY <1>2 DEF Sound
<1>8. Unused(c, {o}, callbacks[c], shell[c])
  BY <1>2, <1>4, <1>7 DEF Unused
<1>9. c \in behaved => GivenUp(c, {o}, WithoutProxies(c, {o}))
  BY <1>5 DEF GivenUp
<1>10. QED
  BY <1>1, <1>3, <1>6, <1>8, <1>9, FreeStep

\* The callbacks of a surface are registered, and no other surface's.
LEMMA WaitingFacts ==
  ASSUME NEW c, NEW o \in Id, Sound(objects[c], callbacks[c], shell[c])
  PROVE  /\ Waiting(c, o) \subseteq Id
         /\ \A n \in Waiting(c, o) :
              objects[c][n] # None /\ objects[c][n].interface = "wl_callback"
         /\ \A p \in Id \ {o} : callbacks[c][p] \cap Waiting(c, o) = {}
BY DEF Waiting, Sound

LEMMA CommitStep ==
  ASSUME IInv, NEW c \in Client, NEW o \in Id, NEW ok \in BOOLEAN, Commit(c, o, ok)
  PROVE  IInv'
<1> DEFINE done == IF ok THEN Waiting(c, o) ELSE {}
           cb == [callbacks[c] EXCEPT ![o] = {}]
<1>1. /\ Received(c, o, "commit") /\ callbacks' = [callbacks EXCEPT ![c][o] = {}]
      /\ objects' = Without(c, done) /\ Believes(c, ok, proxies[c], done) /\ Errors(c, ~ok)
      /\ UNCHANGED <<serverVars, connected, shell, told>>
  BY DEF Commit
<1>2. /\ TypeOK /\ c \in connected /\ Sound(objects[c], callbacks[c], shell[c])
      /\ c \in behaved => Agree(objects[c], proxies[c], returning[c])
  BY <1>1, ReceivedFacts DEF IInv
<1>3. callbacks' = [callbacks EXCEPT ![c] = cb] /\ shell' = [shell EXCEPT ![c] = shell[c]]
  BY <1>1, <1>2 DEF TypeOK
<1>4. /\ done \in SUBSET Id
      /\ \A n \in done : objects[c][n] # None /\ objects[c][n].interface = "wl_callback"
      /\ \A p \in Id \ {o} : callbacks[c][p] \cap done = {}
  BY <1>2, WaitingFacts
<1>5. callbacks[c] \in [Id -> SUBSET Id] /\ shell[c] \in [Id -> Id \cup {None}]
  BY <1>2 DEF Sound
<1>6. cb \in [Id -> SUBSET Id] /\ \A p \in Id : cb[p] \subseteq callbacks[c][p] /\ cb[p] \cap done = {}
  BY <1>4, <1>5
<1>7. \A p \in Id : shell[c][p] = None \/ shell[c][p] \notin done
  BY <1>2, <1>4 DEF Sound
<1>8. c \in behaved => proxies[c] \in [Id -> Object \cup {None, Gone}]
  BY <1>2 DEF Agree
<1> HIDE DEF done, cb
<1>9. Unused(c, done, cb, shell[c])
  BY <1>4, <1>5, <1>6, <1>7 DEF Unused
<1>10. c \in behaved => GivenUp(c, done, proxies[c])
  BY <1>4, <1>8 DEF GivenUp
<1>11. QED
  BY <1>1, <1>3, <1>9, <1>10, FreeStep

LEMMA DestroySurfaceStep ==
  ASSUME IInv, NEW c \in Client, NEW o \in Id, DestroySurface(c, o)
  PROVE  IInv'
<1> DEFINE role == {n \in Id : n = shell[c][o] /\ objects[c][n] # None}
           gone == Waiting(c, o) \cup role \cup {o}
           cb == [callbacks[c] EXCEPT ![o] = {}]
           sh == [shell[c] EXCEPT ![o] = None]
           proxy == WithoutProxies(c, {o, shell[c][o]})
<1>1. /\ Received(c, o, "destroy") /\ objects[c][o].interface = "wl_surface"
      /\ objects' = Without(c, gone) /\ Believes(c, TRUE, proxy, gone)
      /\ callbacks' = [callbacks EXCEPT ![c][o] = {}] /\ shell' = [shell EXCEPT ![c][o] = None]
      /\ UNCHANGED <<serverVars, connected, told>> /\ errors' = errors
  BY DEF DestroySurface
<1>2. /\ TypeOK /\ c \in connected /\ objects[c][o] # None
      /\ Sound(objects[c], callbacks[c], shell[c])
      /\ c \in behaved => Agree(objects[c], proxies[c], returning[c])
  BY <1>1, ReceivedFacts, ObjectAssumption DEF IInv
<1>3. callbacks' = [callbacks EXCEPT ![c] = cb] /\ shell' = [shell EXCEPT ![c] = sh]
  BY <1>1, <1>2 DEF TypeOK
<1>4. /\ Waiting(c, o) \subseteq Id
      /\ \A n \in Waiting(c, o) : objects[c][n] # None /\ objects[c][n].interface = "wl_callback"
      /\ \A p \in Id \ {o} : callbacks[c][p] \cap Waiting(c, o) = {}
  BY <1>2, WaitingFacts
<1>5. callbacks[c] \in [Id -> SUBSET Id] /\ shell[c] \in [Id -> Id \cup {None}]
  BY <1>2 DEF Sound
<1>6. \A n \in role : /\ n = shell[c][o] /\ n \in Id /\ objects[c][n] # None
                      /\ objects[c][n].interface = "wl_shell_surface"
  BY <1>2, IdAssumption DEF Sound
<1>7. \A n \in Id : n = shell[c][o] => n \in role
  BY <1>2, IdAssumption DEF Sound
<1>8. gone \in SUBSET Id /\ \A n \in gone : objects[c][n] # None
  BY <1>2, <1>4, <1>6
<1>9. /\ cb \in [Id -> SUBSET Id] /\ sh \in [Id -> Id \cup {None}]
      /\ cb[o] = {} /\ sh[o] = None
      /\ \A p \in Id \ {o} : cb[p] = callbacks[c][p] /\ sh[p] = shell[c][p]
  BY <1>5
<1>10. \A p \in Id : cb[p] \subseteq callbacks[c][p] /\ cb[p] \cap gone = {}
  <2>1. \A p \in Id : \A n \in callbacks[c][p] : objects[c][n].interface = "wl_callback"
    BY <1>2 DEF Sound
  <2>2. \A p \in Id : callbacks[c][p] \cap (role \cup {o}) = {}
    <3> HIDE DEF role
    <3>1. QED
      BY <1>1, <1>6, <2>1
  <2> HIDE DEF role, cb
  <2>3. QED
    BY <1>4, <1>9, <2>2
<1>11. \A p \in Id : sh[p] = None \/ (sh[p] = shell[c][p] /\ sh[p] \notin gone)
  <2> SUFFICES ASSUME NEW p \in Id \ {o}, shell[c][p] # None PROVE shell[c][p] \notin gone
    <3> HIDE DEF sh, gone
    <3>1. QED
      BY <1>9
  <2>1. shell[c][p] \in Id /\ objects[c][shell[c][p]].interface = "wl_shell_surface"
    BY <1>2 DEF Sound
  <2>2. shell[c][p] # shell[c][o]
    BY <1>2 DEF Sound
  <2> HIDE DEF role
  <2>3. QED
    BY <1>1, <1>4, <1>6, <2>1, <2>2
<1>12. c \in behaved =>
         /\ proxy \in [Id -> Object \cup {None, Gone}]
         /\ \A n \in Id \ gone : proxy[n] = proxies[c][n]
         /\ \A n \in gone : \/ proxy[n] = Gone
                            \/ /\ proxy[n] = proxies[c][n]
                               /\ objects[c][n].interface = "wl_callback"
  <2> SUFFICES ASSUME c \in behaved
               PROVE  /\ proxy \in [Id -> Object \cup {None, Gone}]
                      /\ \A n \in Id \ gone : proxy[n] = proxies[c][n]
                      /\ \A n \in gone : \/ proxy[n] = Gone
                                         \/ /\ proxy[n] = proxies[c][n]
                                            /\ objects[c][n].interface = "wl_callback"
    OBVIOUS
  <2>1. \A n \in Id : proxy[n] = IF n \in {o, shell[c][o]} THEN Gone ELSE proxies[c][n]
    BY DEF WithoutProxies
  <2>2. proxy \in [Id -> Object \cup {None, Gone}]
    BY <1>2 DEF WithoutProxies, Agree
  <2> HIDE DEF proxy, role
  <2>3. \A n \in Id \ gone : proxy[n] = proxies[c][n]
    BY <1>7, <2>1
  <2>4. \A n \in gone : \/ proxy[n] = Gone
                        \/ /\ proxy[n] = proxies[c][n]
                           /\ objects[c][n].interface = "wl_callback"
    BY <1>4, <1>6, <2>1
  <2>5. QED
    BY <2>2, <2>3, <2>4
<1>13. Errors(c, FALSE)
  BY <1>1 DEF Errors
<1> HIDE DEF gone, cb, sh, proxy
<1>14. Unused(c, gone, cb, sh)
  BY <1>8, <1>9, <1>10, <1>11 DEF Unused
<1>15. c \in behaved => GivenUp(c, gone, proxy)
  BY <1>12 DEF GivenUp
<1>16. QED
  BY <1>1, <1>3, <1>13, <1>14, <1>15, FreeStep

LEMMA GetShellSurfaceStep ==
  ASSUME IInv, NEW c \in Client, NEW o \in Id, NEW n, NEW s \in Id, GetShellSurface(c, o, n, s)
  PROVE  IInv'
<1> DEFINE x == Of("wl_shell_surface", 1)
           y == Of("wl_shell_surface", proxies[c][o].version)
           proxy == [proxies[c] EXCEPT ![n] = y]
           made == IsSurface(objects[c][s]) /\ Registrable(c, n, x)
           paired == made /\ shell[c][s] = None
           proper == Fresh(c, n) /\ IsSurface(proxies[c][s]) /\ shell[c][s] = None
           sh == IF paired THEN [shell[c] EXCEPT ![s] = n] ELSE shell[c]
<1>1. /\ Received(c, o, "get_shell_surface")
      /\ objects' = IF made THEN [objects EXCEPT ![c][n] = x] ELSE objects
      /\ shell' = IF paired THEN [shell EXCEPT ![c][s] = n] ELSE shell
      /\ Believes(c, proper, proxy, {}) /\ Errors(c, ~paired)
      /\ UNCHANGED <<serverVars, connected, callbacks, told>>
  BY DEF GetShellSurface, WithProxy
<1>2. x \in Object /\ Versioned(x) /\ x.interface = "wl_shell_surface"
  <2>1. "wl_shell_surface" \in Interface \ Missing
    BY DEF Interface, Missing
  <2>2. QED
    BY <2>1, OfOne DEF Of
<1>3. proper \in BOOLEAN /\ (~paired) \in BOOLEAN
  BY DEF Fresh, Registrable, IsSurface
<1>4. c \in behaved /\ proper => Fresh(c, n) /\ y = x
  BY <1>1, ReceivedFacts, MakerVersion
<1>5. /\ TypeOK /\ c \in connected /\ Tells(objects[c], told[c])
      /\ Sound(objects[c], callbacks[c], shell[c])
      /\ c \in behaved => Agree(objects[c], proxies[c], returning[c])
  BY <1>1, ReceivedFacts DEF IInv
<1>6. CASE IsSurface(objects[c][s])
  <2>1. MakeObject(c, n, x, proper, proxy)
    BY <1>1, <1>6 DEF MakeObject
  <2>2. /\ Registrable(c, n, x) =>
             /\ n \in Id /\ objects[c][n] = None
             /\ Made(c, n, x)[n] = x
             /\ \A m \in Id \ {n} : Made(c, n, x)[m] = objects[c][m]
        /\ Sound(Made(c, n, x), callbacks[c], shell[c])
        /\ c \in behaved /\ proper =>
             /\ Registrable(c, n, x)
             /\ Agree(Made(c, n, x), proxy, Returned(c, {}))
    <3>1. Received(c, o, "get_shell_surface") /\ proper \in BOOLEAN /\ x \in Object /\ Versioned(x)
      BY <1>1, <1>2, <1>3
    <3>2. PICK fit \in BOOLEAN : fit = proper
      BY <3>1
    <3> HIDE DEF x, y, proper, paired, made, sh
    <3>3. MakeObject(c, n, x, fit, proxy) /\ (c \in behaved /\ fit => Fresh(c, n) /\ y = x)
      BY <1>4, <2>1, <3>2
    <3>4. Sound(Made(c, n, x), callbacks[c], shell[c])
      BY <1>5, <3>1, Registers DEF Made, Registrable
    <3>5. ASSUME c \in behaved, fit
          PROVE  Registrable(c, n, x) /\ Agree(Made(c, n, x), proxy, Returned(c, {}))
      BY <3>1, <3>3, <3>5, MakeFacts
    <3>6. Registrable(c, n, x) =>
             /\ n \in Id /\ objects[c][n] = None
             /\ Made(c, n, x)[n] = x
             /\ \A m \in Id \ {n} : Made(c, n, x)[m] = objects[c][m]
      BY <3>1, <3>3, MakeFacts
    <3>7. QED
      BY <3>2, <3>4, <3>5, <3>6
  <2>3. /\ callbacks' = [callbacks EXCEPT ![c] = callbacks[c]]
        /\ shell' = [shell EXCEPT ![c] = sh] /\ told' = [told EXCEPT ![c] = told[c]]
    <3>1. shell' = [shell EXCEPT ![c] = sh]
      BY <1>1, <1>5 DEF TypeOK
    <3>2. QED
      BY <1>1, <1>5, <3>1 DEF TypeOK
  <2>4. Sound(Made(c, n, x), callbacks[c], sh)
    <3>1. CASE paired
      <4>1. \A p \in Id : shell[c][p] # n
        BY <1>5, <2>2, <3>1, FreeIdUnused
      <4>2. Made(c, n, x)[n] # None /\ Made(c, n, x)[n].interface = "wl_shell_surface"
        BY <1>2, <2>2, <3>1, ObjectAssumption
      <4>3. Sound(Made(c, n, x), callbacks[c], [shell[c] EXCEPT ![s] = n])
        BY <2>2, <3>1, <4>1, <4>2, Roles
      <4>4. QED
        BY <3>1, <4>3
    <3>2. CASE ~paired
      BY <2>2, <3>2
    <3>3. QED
      BY <3>1, <3>2
  <2>5. Tells(Made(c, n, x), told[c])
    <3>1. x.interface # "wl_registry"
      BY <1>2
    <3>2. QED
      BY <1>5, <2>2, <3>1, MadeTells
  <2>6. objects' = [objects EXCEPT ![c] = Made(c, n, x)]
    BY <1>5, <2>1, MakesObjects
  <2>7. c \in behaved /\ proper => ~~paired
    BY <1>6, <2>2
  <2> HIDE DEF x, proxy, sh, proper, paired
  <2>8. Handled(c, Made(c, n, x), callbacks[c], sh, told[c], proper, proxy, {}, ~paired)
    BY <1>1, <2>3, <2>6 DEF Handled
  <2>9. QED
    BY <1>3, <1>5, <2>2, <2>4, <2>5, <2>7, <2>8, HandledStep
<1>7. CASE ~IsSurface(objects[c][s])
  <2>1. objects' = objects /\ shell' = shell
    BY <1>1, <1>7
  <2>2. c \in behaved => ~IsSurface(proxies[c][s])
    BY <1>5, <1>7, AgreeFacts DEF IsSurface
  <2>3. c \in behaved => ~proper
    BY <2>2
  <2> HIDE DEF x, proxy, sh, proper, paired
  <2>4. QED
    BY <1>1, <1>3, <2>1, <2>3, LookStep
<1>8. QED
  BY <1>6, <1>7

----------------------------------------------------------------------------
(* Connections that come and go, the seat, and the invariant.               *)

\* Only the connection of client c changes, and nothing that is global.
LEMMA ConnectionStep ==
  ASSUME IInv, NEW c \in Client, NEW ob, NEW cb, NEW sh, NEW tl,
         NEW pr \in [Id -> Object \cup {None, Gone}], NEW re \in [Id -> Nat],
         objects' = [objects EXCEPT ![c] = ob], callbacks' = [callbacks EXCEPT ![c] = cb],
         shell' = [shell EXCEPT ![c] = sh], told' = [told EXCEPT ![c] = tl],
         proxies' = [proxies EXCEPT ![c] = pr], returning' = [returning EXCEPT ![c] = re],
         UNCHANGED serverVars,
         Sound(ob, cb, sh), Tells(ob, tl),
         connected' \subseteq connected \cup {c}, connected \subseteq connected' \cup {c},
         behaved' \subseteq behaved \cup {c}, errors' \subseteq errors \cup {c},
         c \in connected' /\ c \in behaved' => Agree(ob, pr, re),
         c \notin connected' =>
           ob = Nothing(None) /\ cb = Nothing({}) /\ sh = Nothing(None) /\ re = Nothing(0),
         ~(c \in behaved' /\ c \in errors')
  PROVE  IInv'
<1>1. TypeOK
  BY DEF IInv
<1>2. /\ objects'[c] = ob /\ callbacks'[c] = cb /\ shell'[c] = sh /\ told'[c] = tl
      /\ proxies'[c] = pr /\ returning'[c] = re
      /\ \A d \in Client \ {c} : /\ objects'[d] = objects[d] /\ callbacks'[d] = callbacks[d]
                                 /\ shell'[d] = shell[d] /\ told'[d] = told[d]
                                 /\ proxies'[d] = proxies[d] /\ returning'[d] = returning[d]
  BY <1>1 DEF TypeOK
<1>3. globals' = globals /\ mainSeat' = mainSeat /\ knownSeats' = knownSeats
  BY DEF serverVars
<1>4. TypeOK'
  <2>1. /\ objects' \in [Client -> [Id -> Object \cup {None}]]
        /\ callbacks' \in [Client -> [Id -> SUBSET Id]]
        /\ shell' \in [Client -> [Id -> Id \cup {None}]]
    BY <1>1 DEF Sound, TypeOK
  <2>2. told' \in [Client -> [Id -> Seq(Name)]]
    BY <1>1 DEF Tells, TypeOK
  <2>3. /\ proxies' \in [Client -> [Id -> Object \cup {None, Gone}]]
        /\ returning' \in [Client -> [Id -> Nat]]
    BY <1>1 DEF TypeOK
  <2>4. connected' \subseteq Client /\ behaved' \subseteq Client /\ errors' \subseteq Client
    BY <1>1 DEF TypeOK
  <2>5. QED
    BY <1>1, <1>3, <2>1, <2>2, <2>3, <2>4 DEF TypeOK
<1>5. Advertised'
  BY <1>3 DEF IInv, Advertised
<1>6. \A d \in Client : Sound(objects[d], callbacks[d], shell[d])'
  BY <1>2 DEF IInv
<1>7. \A d \in Client : Tells(objects'[d], told'[d])
  BY <1>2 DEF IInv
<1>8. \A d \in Client : Tells(objects[d], told[d])'
  BY <1>3, <1>7 DEF Tells
<1>9. \A d \in connected' \cap behaved' : Agree(objects[d], proxies[d], returning[d])'
  <2> SUFFICES ASSUME NEW d \in connected' \cap behaved'
               PROVE  Agree(objects'[d], proxies'[d], returning'[d])
    OBVIOUS
  <2>1. CASE d = c
    BY <1>2, <2>1
  <2>2. CASE d # c
    <3>1. d \in Client \ {c} /\ d \in connected \cap behaved
      BY <1>1, <2>2 DEF TypeOK
    <3>2. QED
      BY <1>2, <3>1 DEF IInv
  <2>3. QED
    BY <2>1, <2>2
<1>10. \A d \in Client \ connected' : Nobody(d)'
  BY <1>2 DEF IInv, Nobody
<1>11. BehavedServed'
  BY DEF IInv, BehavedServed
<1>12. QED
  BY <1>4, <1>5, <1>6, <1>8, <1>9, <1>10, <1>11 DEF IInv

\* Tables with nothing in them.
LEMMA NothingSound ==
  /\ Sound(Nothing(None), Nothing({}), Nothing(None))
  /\ Tells(Nothing(None), Nothing(<<>>))
  /\ Nothing(None) \in [Id -> Object \cup {None, Gone}] /\ Nothing(0) \in [Id -> Nat]
<1>1. \A x : \A n \in Id : Nothing(x)[n] = x
  BY DEF Nothing
<1>2. /\ Nothing(None) \in [Id -> Object \cup {None, Gone}] /\ Nothing(0) \in [Id -> Nat]
      /\ Nothing(None) \in [Id -> Object \cup {None}] /\ Nothing({}) \in [Id -> SUBSET Id]
      /\ Nothing(None) \in [Id -> Id \cup {None}]
  BY DEF Nothing
<1>3. Sound(Nothing(None), Nothing({}), Nothing(None))
  BY <1>1, <1>2 DEF Sound
<1>4. Nothing(<<>>) \in [Id -> Seq(Name)] /\ DOMAIN <<>> = {}
  <2>1. <<>> \in Seq(Name)
    OBVIOUS
  <2>2. QED
    BY <2>1 DEF Nothing
<1>5. Tells(Nothing(None), Nothing(<<>>))
  BY <1>1, <1>4 DEF Tells
<1>6. QED
  BY <1>2, <1>3, <1>5

LEMMA DroppedStep ==
  ASSUME IInv, NEW c \in Client, Dropped(c), UNCHANGED serverVars,
         behaved' \subseteq behaved, errors' \subseteq errors \cup {c},
         ~(c \in behaved' /\ c \in errors')
  PROVE  IInv'
<1>1. /\ connected' = connected \ {c}
      /\ objects' = [objects EXCEPT ![c] = Nothing(None)]
      /\ callbacks' = [callbacks EXCEPT ![c] = Nothing({})]
      /\ shell' = [shell EXCEPT ![c] = Nothing(None)]
      /\ told' = [told EXCEPT ![c] = Nothing(<<>>)]
      /\ proxies' = [proxies EXCEPT ![c] = Nothing(None)]
      /\ returning' = [returning EXCEPT ![c] = Nothing(0)]
  BY DEF Dropped
<1>2. /\ connected' \subseteq connected \cup {c} /\ connected \subseteq connected' \cup {c}
      /\ c \notin connected' /\ behaved' \subseteq behaved \cup {c}
  BY <1>1
<1>3. QED
  BY <1>1, <1>2, NothingSound, ConnectionStep

LEMMA DisconnectStep ==
  ASSUME IInv, NEW c \in Client, Disconnect(c)
  PROVE  IInv'
BY DroppedStep DEF Disconnect, IInv, BehavedServed

\* A client that behaves is not refused: the object that it believes to know the
\* request is registered, for no callback knows one.
LEMMA RefuseStep ==
  ASSUME IInv, NEW c \in Client, NEW o \in Id, NEW op, Refuse(c, o, op)
  PROVE  IInv'
<1>1. /\ c \in connected /\ ~Knows(objects[c][o], op) /\ errors' = errors \cup {c}
      /\ behaved' = IF Knows(proxies[c][o], op) THEN behaved ELSE behaved \ {c}
      /\ Dropped(c) /\ UNCHANGED serverVars
  BY DEF Refuse
<1>2. ASSUME c \in behaved, Knows(proxies[c][o], op)
      PROVE  FALSE
  <2>1. Agree(objects[c], proxies[c], returning[c])
    BY <1>1, <1>2 DEF IInv
  <2>2. /\ proxies[c][o] # None /\ proxies[c][o] # Gone
        /\ op \in Requests[proxies[c][o].interface]
    BY <1>2 DEF Knows
  <2>3. proxies[c][o].interface # "wl_callback"
    BY <2>2, CallbacksMute
  <2>4. objects[c][o] = proxies[c][o]
    BY <2>1, <2>2, <2>3, AgreeFacts
  <2>5. QED
    BY <1>1, <1>2, <2>4
<1>3. c \notin behaved'
  BY <1>1, <1>2
<1>4. behaved' \subseteq behaved
  BY <1>1
<1>5. QED
  BY <1>1, <1>3, <1>4, DroppedStep

LEMMA ConnectStep ==
  ASSUME IInv, NEW c \in Client, Connect(c)
  PROVE  IInv'
<1>1. /\ c \notin connected /\ connected' = connected \cup {c}
      /\ objects' = [objects EXCEPT ![c] = NewObjects]
      /\ proxies' = [proxies EXCEPT ![c] = NewObjects]
      /\ behaved' = behaved \cup {c} /\ errors' = errors \ {c}
      /\ UNCHANGED <<serverVars, callbacks, shell, told, returning>>
  BY DEF Connect
<1>2. /\ TypeOK /\ Nobody(c) /\ Tells(objects[c], told[c])
  BY <1>1 DEF IInv
<1>3. /\ callbacks' = [callbacks EXCEPT ![c] = Nothing({})]
      /\ shell' = [shell EXCEPT ![c] = Nothing(None)]
      /\ told' = [told EXCEPT ![c] = told[c]]
      /\ returning' = [returning EXCEPT ![c] = Nothing(0)]
  BY <1>1, <1>2 DEF TypeOK, Nobody
<1>4. Of("wl_display", 1) \in Object /\ Versioned(Of("wl_display", 1)) /\ Of("wl_display", 1).interface = "wl_display"
  <2>1. "wl_display" \in Interface \ Missing
    BY DEF Interface, Missing
  <2>2. QED
    BY <2>1, OfOne DEF Of
<1>5. /\ NewObjects \in [Id -> Object \cup {None}] /\ NewObjects[Display] = Of("wl_display", 1)
      /\ \A n \in Id \ {Display} : NewObjects[n] = None
  BY <1>4, IdAssumption DEF NewObjects
<1>6. Sound(NewObjects, Nothing({}), Nothing(None))
  <2>1. NewObjects = [Nothing(None) EXCEPT ![Display] = Of("wl_display", 1)]
    BY DEF NewObjects, Nothing
  <2>2. Nothing(None)[Display] = None
    BY IdAssumption DEF Nothing
  <2>3. QED
    BY <1>4, <2>1, <2>2, IdAssumption, NothingSound, Registers
<1>7. Tells(NewObjects, told[c])
  <2>1. \A n \in Id : NewObjects[n] # None => NewObjects[n].interface # "wl_registry"
    BY <1>4, <1>5
  <2>2. QED
    BY <1>2, <2>1, TellsStays
<1>8. Agree(NewObjects, NewObjects, Nothing(0))
  BY <1>5 DEF Agree, Nothing
<1>9. NewObjects \in [Id -> Object \cup {None, Gone}] /\ Nothing(0) \in [Id -> Nat]
  BY <1>8 DEF Agree
<1>10. /\ connected' \subseteq connected \cup {c} /\ connected \subseteq connected' \cup {c}
       /\ c \in connected' /\ behaved' \subseteq behaved \cup {c}
       /\ errors' \subseteq errors \cup {c} /\ c \notin errors'
  BY <1>1
<1>11. UNCHANGED serverVars
  BY <1>1
<1>12. QED
  BY <1>1, <1>3, <1>6, <1>7, <1>8, <1>9, <1>10, <1>11, ConnectionStep

LEMMA TakeDeleteIdStep ==
  ASSUME IInv, NEW c \in Client, NEW n \in Id, TakeDeleteId(c, n)
  PROVE  IInv'
<1> DEFINE pr == [proxies[c] EXCEPT ![n] = None]
           re == [returning[c] EXCEPT ![n] = returning[c][n] - 1]
<1>1. /\ returning[c][n] > 0
      /\ returning' = [returning EXCEPT ![c][n] = @ - 1]
      /\ proxies' = [proxies EXCEPT ![c][n] = None]
      /\ UNCHANGED <<serverVars, connected, objects, callbacks, shell, told, errors, behaved>>
  BY DEF TakeDeleteId
<1>2. /\ TypeOK /\ Sound(objects[c], callbacks[c], shell[c]) /\ Tells(objects[c], told[c])
      /\ c \in connected
  BY <1>1 DEF IInv, Nobody, Nothing
<1>3. /\ objects' = [objects EXCEPT ![c] = objects[c]]
      /\ callbacks' = [callbacks EXCEPT ![c] = callbacks[c]]
      /\ shell' = [shell EXCEPT ![c] = shell[c]] /\ told' = [told EXCEPT ![c] = told[c]]
      /\ proxies' = [proxies EXCEPT ![c] = pr] /\ returning' = [returning EXCEPT ![c] = re]
  BY <1>1, <1>2 DEF TypeOK
<1>4. /\ proxies[c] \in [Id -> Object \cup {None, Gone}] /\ returning[c] \in [Id -> Nat]
      /\ returning[c][n] \in Nat
  BY <1>2 DEF TypeOK
<1>5. /\ pr \in [Id -> Object \cup {None, Gone}] /\ re \in [Id -> Nat]
      /\ pr[n] = None /\ re[n] = returning[c][n] - 1
      /\ \A m \in Id \ {n} : pr[m] = proxies[c][m] /\ re[m] = returning[c][m]
  BY <1>1, <1>4
<1> HIDE DEF pr, re
<1>6. ASSUME c \in behaved
      PROVE  Agree(objects[c], pr, re)
  <2>1. Agree(objects[c], proxies[c], returning[c])
    BY <1>2, <1>6 DEF IInv
  <2>2. objects[c][n] = None /\ returning[c][n] = 1
    BY <1>1, <2>1 DEF Agree
  <2>3. QED
    BY <1>5, <2>1, <2>2 DEF Agree
<1>7. ~(c \in behaved' /\ c \in errors')
  BY <1>1 DEF IInv, BehavedServed
<1>8. /\ connected' \subseteq connected \cup {c} /\ connected \subseteq connected' \cup {c}
      /\ c \in connected' /\ behaved' = behaved /\ errors' = errors /\ UNCHANGED serverVars
  BY <1>1, <1>2
<1>9. QED
  BY <1>2, <1>3, <1>5, <1>6, <1>7, <1>8, ConnectionStep

\* One more global is told to the registry objects of a connection.
Heard(ob, tl) ==
  [n \in Id |-> IF ob[n] # None /\ ob[n].interface = "wl_registry"
                THEN Append(tl[n], Len(globals) + 1) ELSE tl[n]]

LEMMA ToldMore ==
  ASSUME globals \in Seq(Object), NEW x \in Object, NEW ob, NEW tl, Tells(ob, tl), NEW tl2,
         tl2 = Heard(ob, tl)
  PROVE  /\ tl2 \in [Id -> Seq(Name)]
         /\ \A n \in Id : \A k \in DOMAIN tl2[n] : tl2[n][k] \in DOMAIN Append(globals, x)
         /\ \A n \in Id : ob[n] # None /\ ob[n].interface = "wl_registry" =>
              /\ Len(tl2[n]) = Len(Append(globals, x))
              /\ \A g \in DOMAIN Append(globals, x) : \E k \in DOMAIN tl2[n] : tl2[n][k] = g
<1> DEFINE top == Len(globals) + 1
<1>1. /\ Len(globals) \in Nat /\ DOMAIN globals = 1 .. Len(globals) /\ top \in Name
      /\ Len(Append(globals, x)) = top /\ DOMAIN Append(globals, x) = 1 .. top
  BY DEF Name
<1>2. \A n \in Id : tl[n] \in Seq(Name) /\ (\A k \in DOMAIN tl[n] : tl[n][k] \in 1 .. Len(globals))
  BY <1>1 DEF Tells
<1>3. \A n \in Id :
        IF ob[n] # None /\ ob[n].interface = "wl_registry"
        THEN tl2[n] = Append(tl[n], top) ELSE tl2[n] = tl[n]
  BY DEF Heard
<1>4. ASSUME NEW n \in Id, ob[n] # None, ob[n].interface = "wl_registry"
      PROVE  /\ tl2[n] \in Seq(Name)
             /\ \A k \in DOMAIN tl2[n] : tl2[n][k] \in 1 .. top
             /\ Len(tl2[n]) = top
             /\ \A g \in 1 .. top : \E k \in DOMAIN tl2[n] : tl2[n][k] = g
  <2>1. tl2[n] = Append(tl[n], top) /\ tl[n] \in Seq(Name) /\ Len(tl[n]) = Len(globals)
    BY <1>2, <1>3, <1>4 DEF Tells
  <2>2. \A g \in 1 .. Len(globals) : \E k \in DOMAIN tl[n] : tl[n][k] = g
    BY <1>1, <1>4 DEF Tells
  <2> HIDE DEF top
  <2>3. /\ tl2[n] \in Seq(Name) /\ DOMAIN tl2[n] = 1 .. (Len(globals) + 1)
        /\ Len(tl2[n]) = Len(globals) + 1
        /\ tl2[n][Len(globals) + 1] = top
        /\ \A k \in 1 .. Len(globals) : tl2[n][k] = tl[n][k]
        /\ DOMAIN tl[n] = 1 .. Len(globals)
    BY <1>1, <2>1
  <2>4. Len(globals) \in Nat /\ top = Len(globals) + 1
    BY <1>1 DEF top
  <2>5. \A k \in DOMAIN tl2[n] : tl2[n][k] \in 1 .. top
    BY <1>2, <2>3, <2>4
  <2>6. \A g \in 1 .. top : \E k \in DOMAIN tl2[n] : tl2[n][k] = g
    <3> SUFFICES ASSUME NEW g \in 1 .. top PROVE \E k \in DOMAIN tl2[n] : tl2[n][k] = g
      OBVIOUS
    <3>1. CASE g = top
      BY <2>3, <2>4, <3>1
    <3>2. CASE g # top
      <4>1. g \in 1 .. Len(globals)
        BY <2>4, <3>2
      <4>2. PICK k \in 1 .. Len(globals) : tl[n][k] = g
        BY <2>2, <2>3, <4>1
      <4>3. k \in DOMAIN tl2[n]
        BY <2>3, <2>4
      <4>4. tl2[n][k] = g
        BY <2>3, <4>2
      <4>5. QED
        BY <4>3, <4>4
    <3>3. QED
      BY <3>1, <3>2
  <2>7. QED
    BY <2>3, <2>4, <2>5, <2>6
<1>5. ASSUME NEW n \in Id, ~(ob[n] # None /\ ob[n].interface = "wl_registry")
      PROVE  tl2[n] \in Seq(Name) /\ \A k \in DOMAIN tl2[n] : tl2[n][k] \in 1 .. top
  <2>1. tl2[n] = tl[n] /\ 1 .. Len(globals) \subseteq 1 .. top
    BY <1>1, <1>3, <1>5
  <2> HIDE DEF top
  <2>2. QED
    BY <1>2, <2>1
<1>6. \A n \in Id : tl2[n] \in Seq(Name) /\ (\A k \in DOMAIN tl2[n] : tl2[n][k] \in 1 .. top)
  BY <1>4, <1>5
<1>7. tl2 \in [Id -> Seq(Name)]
  BY <1>6 DEF Heard
<1> HIDE DEF top
<1>8. QED
  BY <1>1, <1>4, <1>6, <1>7

LEMMA ActivateMainSeatStep ==
  ASSUME IInv, NEW name \in SeatName, ActivateMainSeat(name)
  PROVE  IInv'
<1> DEFINE x == Of("wl_seat", InterfaceVersion["wl_seat"])
<1>1. /\ mainSeat' = TRUE /\ knownSeats' = knownSeats \cup {name}
      /\ globals' = IF name \in knownSeats THEN globals ELSE Append(globals, x)
      /\ told' = [c \in Client |-> [n \in Id |->
                    IF c \in connected /\ n \in RegistryObjects(c) /\ name \notin knownSeats
                    THEN Append(told[c][n], Len(globals')) ELSE told[c][n]]]
      /\ UNCHANGED <<connected, objects, callbacks, shell, errors, proxies, returning, behaved>>
  BY DEF ActivateMainSeat
<1>2. TypeOK /\ globals \in Seq(Object) /\ \A c \in Client : Tells(objects[c], told[c])
  BY DEF IInv, TypeOK
<1>3. x \in Object /\ Versioned(x) /\ x.interface = "wl_seat"
  <2>1. "wl_seat" \in Interface \ Missing
    BY DEF Interface, Missing
  <2>2. QED
    BY <2>1, Versions DEF Of, Object, Versioned
<1> HIDE DEF x
<1>4. globals' \in Seq(Object) /\ Advertised'
  <2>1. CASE name \in knownSeats
    BY <1>1, <1>2, <2>1 DEF IInv, Advertised
  <2>2. CASE name \notin knownSeats
    <3>1. globals' = Append(globals, x) /\ globals' \in Seq(Object)
      BY <1>1, <1>2, <1>3, <2>2
    <3>2. \A g \in DOMAIN globals' : (g \in DOMAIN globals /\ globals'[g] = globals[g]) \/ globals'[g] = x
      BY <1>2, <1>3, <3>1
    <3>3. QED
      BY <1>3, <3>1, <3>2 DEF IInv, Advertised
  <2>3. QED
    BY <2>1, <2>2
<1>5. ASSUME NEW c \in Client
      PROVE  /\ told'[c] \in [Id -> Seq(Name)]
             /\ \A n \in Id : \A k \in DOMAIN told'[c][n] : told'[c][n][k] \in DOMAIN globals'
             /\ \A n \in Id : objects[c][n] # None /\ objects[c][n].interface = "wl_registry" =>
                  /\ Len(told'[c][n]) = Len(globals')
                  /\ \A g \in DOMAIN globals' :
                       \E k \in DOMAIN told'[c][n] : told'[c][n][k] = g
  <2>1. Tells(objects[c], told[c]) /\ told[c] \in [Id -> Seq(Name)]
    BY <1>2 DEF Tells
  <2>2. CASE name \in knownSeats
    <3>1. told'[c] = told[c] /\ globals' = globals
      BY <1>1, <2>1, <2>2
    <3>2. QED
      BY <2>1, <3>1 DEF Tells
  <2>3. CASE name \notin knownSeats
    <3>1. \A n \in Id : c \in connected /\ n \in RegistryObjects(c) <=>
                          objects[c][n] # None /\ objects[c][n].interface = "wl_registry"
      BY DEF RegistryObjects, IInv, Nobody, Nothing
    <3>2. globals' = Append(globals, x) /\ Len(globals') = Len(globals) + 1
      BY <1>1, <1>2, <1>3, <2>3
    <3>3. told'[c] = Heard(objects[c], told[c])
      BY <1>1, <2>3, <3>1, <3>2 DEF Heard
    <3>4. PICK tl : tl = told'[c]
      OBVIOUS
    <3>5. /\ tl \in [Id -> Seq(Name)]
          /\ \A n \in Id : \A k \in DOMAIN tl[n] : tl[n][k] \in DOMAIN Append(globals, x)
          /\ \A n \in Id : objects[c][n] # None /\ objects[c][n].interface = "wl_registry" =>
               /\ Len(tl[n]) = Len(Append(globals, x))
               /\ \A g \in DOMAIN Append(globals, x) : \E k \in DOMAIN tl[n] : tl[n][k] = g
      BY <1>2, <1>3, <2>1, <3>3, <3>4, ToldMore
    <3>6. QED
      BY <3>2, <3>4, <3>5
  <2>4. QED
    BY <2>2, <2>3
<1>6. TypeOK'
  <2>1. told' = [c \in Client |-> told'[c]]
    BY <1>1
  <2>2. told' \in [Client -> [Id -> Seq(Name)]]
    BY <1>5, <2>1
  <2>3. QED
    BY <1>1, <1>2, <1>4, <2>2 DEF TypeOK
<1>7. /\ \A c \in Client : Sound(objects[c], callbacks[c], shell[c])'
      /\ \A c \in connected' \cap behaved' : Agree(objects[c], proxies[c], returning[c])'
      /\ \A c \in Client \ connected' : Nobody(c)'
      /\ BehavedServed'
  BY <1>1 DEF IInv, Nobody, BehavedServed
<1>8. \A c \in Client : Tells(objects[c], told[c])'
  BY <1>1, <1>5 DEF Tells
<1>9. QED
  BY <1>4, <1>6, <1>7, <1>8 DEF IInv

LEMMA InitIInv == Init => IInv
<1> SUFFICES ASSUME Init PROVE IInv
  OBVIOUS
<1>1. /\ objects = [c \in Client |-> Nothing(None)] /\ callbacks = [c \in Client |-> Nothing({})]
      /\ shell = [c \in Client |-> Nothing(None)] /\ told = [c \in Client |-> Nothing(<<>>)]
      /\ proxies = [c \in Client |-> Nothing(None)] /\ returning = [c \in Client |-> Nothing(0)]
      /\ connected = {} /\ errors = {} /\ behaved = {} /\ mainSeat = FALSE /\ knownSeats = {}
      /\ globals = <<Of("wl_compositor", 1), Of("wl_shm", 1), Of("wl_shell", 1)>>
  BY DEF Init
<1>2. /\ \A c \in Client : Sound(objects[c], callbacks[c], shell[c]) /\ Nobody(c)
      /\ \A c \in Client : Tells(objects[c], told[c])
  BY <1>1, NothingSound DEF Nobody
<1>3. \A i \in {"wl_compositor", "wl_shm", "wl_shell"} :
        Of(i, 1) \in Object /\ Versioned(Of(i, 1)) /\ Of(i, 1).interface = i
  <2>1. \A i \in {"wl_compositor", "wl_shm", "wl_shell"} : i \in Interface \ Missing
    BY DEF Interface, Missing
  <2>2. QED
    BY <2>1, OfOne DEF Of
<1>4. globals \in Seq(Object) /\ Advertised
  <2> HIDE DEF Init
  <2>1. globals \in Seq(Object) /\ DOMAIN globals = {1, 2, 3}
    BY <1>1, <1>3
  <2>2. /\ globals[1] = Of("wl_compositor", 1) /\ globals[2] = Of("wl_shm", 1)
        /\ globals[3] = Of("wl_shell", 1)
    BY <1>1
  <2>3. QED
    BY <1>3, <2>1, <2>2 DEF Advertised
<1>5. TypeOK
  <2>1. /\ objects \in [Client -> [Id -> Object \cup {None}]]
        /\ callbacks \in [Client -> [Id -> SUBSET Id]]
        /\ shell \in [Client -> [Id -> Id \cup {None}]]
    BY <1>1, NothingSound DEF Sound
  <2>2. told \in [Client -> [Id -> Seq(Name)]]
    BY <1>1, NothingSound DEF Tells
  <2>3. /\ proxies \in [Client -> [Id -> Object \cup {None, Gone}]]
        /\ returning \in [Client -> [Id -> Nat]]
    BY <1>1, NothingSound
  <2>4. QED
    BY <1>1, <1>4, <2>1, <2>2, <2>3 DEF TypeOK
<1>6. QED
  BY <1>1, <1>2, <1>4, <1>5 DEF IInv, BehavedServed

LEMMA HandleStep ==
  ASSUME IInv, NEW c \in Client, NEW o \in Id, Handle(c, o)
  PROVE  IInv'
<1>1. ASSUME NEW op \in Op, Refuse(c, o, op) PROVE IInv'
  BY <1>1, RefuseStep
<1>2. ASSUME NEW op \in Op, Destroy(c, o, op) PROVE IInv'
  BY <1>2, DestroyStep
<1>3. ASSUME NEW n \in NewId, Sync(c, o, n) PROVE IInv'
  BY <1>3, SyncStep
<1>4. ASSUME NEW n \in NewId, GetRegistry(c, o, n) PROVE IInv'
  BY <1>4, GetRegistryStep
<1>5. ASSUME NEW n \in NewId, Frame(c, o, n) PROVE IInv'
  BY <1>5, FrameStep
<1>6. ASSUME NEW n \in NewId, NEW g \in 1 .. Len(globals) + 1, NEW v \in Version,
             NEW k \in DOMAIN globals, Bind(c, o, n, g, globals[k].interface, v)
      PROVE  IInv'
  BY <1>6, VersionAssumption, BindStep
<1>7. ASSUME NEW n \in NewId, NEW op \in DOMAIN Inheriting, NEW ok \in BOOLEAN,
             Create(c, o, op, n, ok)
      PROVE  IInv'
  BY <1>7, CreateStep
<1>8. ASSUME NEW n \in NewId, NEW ok \in BOOLEAN, CreateBuffer(c, o, n, ok) PROVE IInv'
  BY <1>8, CreateBufferStep
<1>9. ASSUME NEW n \in NewId, NEW s \in Id, GetShellSurface(c, o, n, s) PROVE IInv'
  BY <1>9, GetShellSurfaceStep
<1>10. ASSUME NEW ok \in BOOLEAN, Commit(c, o, ok) PROVE IInv'
  BY <1>10, CommitStep
<1>11. CASE DestroySurface(c, o)
  BY <1>11, DestroySurfaceStep
<1>12. ASSUME NEW op \in Op, NEW ok \in BOOLEAN, Other(c, o, op, ok) PROVE IInv'
  BY <1>12, OtherStep
<1>13. QED
  BY <1>1, <1>2, <1>3, <1>4, <1>5, <1>6, <1>7, <1>8, <1>9, <1>10, <1>11, <1>12 DEF Handle

LEMMA NextIInv == IInv /\ [Next]_vars => IInv'
<1> SUFFICES ASSUME IInv, [Next]_vars PROVE IInv'
  OBVIOUS
<1>1. ASSUME NEW c \in Client, Connect(c) PROVE IInv'
  BY <1>1, ConnectStep
<1>2. ASSUME NEW c \in Client, Disconnect(c) PROVE IInv'
  BY <1>2, DisconnectStep
<1>3. ASSUME NEW c \in Client, NEW n \in Id, TakeDeleteId(c, n) PROVE IInv'
  BY <1>3, TakeDeleteIdStep
<1>4. ASSUME NEW c \in Client, NEW o \in Id, Handle(c, o) PROVE IInv'
  BY <1>4, HandleStep
<1>5. ASSUME NEW name \in SeatName, ActivateMainSeat(name) PROVE IInv'
  BY <1>5, ActivateMainSeatStep
<1>6. CASE UNCHANGED vars
  BY <1>6 DEF vars, serverVars, IInv, TypeOK, Advertised, Tells, Nobody, BehavedServed
<1>7. QED
  BY <1>1, <1>2, <1>3, <1>4, <1>5, <1>6 DEF Next

LEMMA Invariant == Spec => []IInv
<1>1. QED
  BY InitIInv, NextIInv, PTL DEF Spec

----------------------------------------------------------------------------
(* The promises.                                                           *)

\* The tables of the registry, the display's and the client's have their types.
THEOREM TypeCorrect == Spec => []TypeOK
<1>1. IInv => TypeOK
  BY DEF IInv
<1>2. QED
  BY <1>1, Invariant, PTL

\* Whatever clients bind, request and destroy, no request that the generated
\* handle_request passes on has a handler that is todo!(): no object is of an
\* interface without handlers, and the requests of surfaces that have none need a
\* version that no surface gets from a compositor global of version 1.
THEOREM NeverReachesUnimplemented == Spec => []NeverUnimplemented
<1>1. IInv => NeverUnimplemented
  <2> SUFFICES ASSUME IInv, NEW c \in connected, NEW o \in Id, NEW op \in Op,
                      Knows(objects[c][o], op)
               PROVE  ~Todo(objects[c][o].interface, op)
    BY DEF NeverUnimplemented
  <2>1. c \in Client
    BY DEF IInv, TypeOK
  <2>2. /\ objects[c][o] \in Object /\ Versioned(objects[c][o])
        /\ op \in Requests[objects[c][o].interface]
    BY <2>1, ReceivedFacts DEF Received
  <2>3. objects[c][o].interface \notin Missing
    BY <2>2 DEF Versioned
  <2>4. CASE op \in {"set_buffer_transform", "set_buffer_scale", "damage_buffer", "offset"}
    <3>1. objects[c][o].version = 1
      BY <2>2, <2>4, MakerVersion
    <3>2. Since(objects[c][o].interface, op) > 1
      BY <2>4 DEF Since
    <3>3. objects[c][o].version >= Since(objects[c][o].interface, op)
      BY DEF Knows
    <3>4. Since(objects[c][o].interface, op) \in Nat
      BY <2>4 DEF Since
    <3>5. QED
      BY <3>1, <3>2, <3>3, <3>4
  <2>5. QED
    BY <2>3, <2>4 DEF Todo
<1>2. QED
  BY <1>1, Invariant, PTL

\* Every registry object of every connection was told of every global once, whether
\* get_registry or the activation of the main seat came first.
THEOREM AlwaysToldOnce == Spec => []ToldOnce
<1>1. IInv => ToldOnce
  <2> SUFFICES ASSUME IInv, NEW c \in connected, NEW n \in RegistryObjects(c)
               PROVE  /\ Len(told[c][n]) = Len(globals)
                      /\ \A g \in DOMAIN globals : \E k \in DOMAIN told[c][n] : told[c][n][k] = g
    BY DEF ToldOnce
  <2>1. c \in Client /\ Tells(objects[c], told[c])
    BY DEF IInv, TypeOK
  <2>2. QED
    BY <2>1 DEF RegistryObjects, Tells
<1>2. QED
  BY <1>1, Invariant, PTL

\* A client that behaves and the registry agree on every id, and one delete_id is on
\* its way for each id that the client has not been given back.
THEOREM IdsAlwaysAgree == Spec => []IdsAgree
<1>1. IInv => IdsAgree
  BY DEF IInv, TypeOK, Agree, IdsAgree
<1>2. QED
  BY <1>1, Invariant, PTL

\* A client that behaves is never sent wl_display.error.
THEOREM BehavedAlwaysServed == Spec => []BehavedServed
<1>1. IInv => BehavedServed
  BY DEF IInv
<1>2. QED
  BY <1>1, Invariant, PTL
===============================================================================
