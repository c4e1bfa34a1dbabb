--------------------------- MODULE SurfacesProofs ---------------------------
(***************************************************************************)
(* The registry, the surfaces and the shell surfaces agree, a callback     *)
(* waits once, the updates reach the screen in the order of the commits    *)
(* and a removed client leaves nothing, for every set of keys, every use   *)
(* of them and every length of the queue.                                  *)
(***************************************************************************)
EXTENDS Surfaces, FiniteSetTheorems, WellFoundedInduction, TLAPS

\* The types of all variables but the queue and the frame on screen.
Types ==
  /\ connected \subseteq Client
  /\ objects \in [Key -> Interface]
  /\ DOMAIN surfaces \subseteq Key /\ \A s \in DOMAIN surfaces : surfaces[s] \in Surface
  /\ DOMAIN shells \subseteq Key /\ \A h \in DOMAIN shells : shells[h] \in Key

\* A shell surface and its surface belong to one client, so that both go with it.
SameClient == \A h \in DOMAIN shells : shells[h][1] = h[1]

IInv == Types /\ SameClient /\ RolesPaired /\ CallbacksOnce

----------------------------------------------------------------------------
(* Functions, callback lists and surfaces.                                 *)

\* A function with one more key, and without some.
LEMMA FunctionUpdates ==
  ASSUME NEW f, NEW k, NEW v, NEW S
  PROVE  /\ DOMAIN With(f, k, v) = DOMAIN f \cup {k} /\ With(f, k, v)[k] = v
         /\ \A j \in DOMAIN f \ {k} : With(f, k, v)[j] = f[j]
         /\ DOMAIN Without(f, S) = DOMAIN f \ S
         /\ \A j \in DOMAIN f \ S : Without(f, S)[j] = f[j]
BY DEF With, Without

\* The elements of a sequence that is extended, and of an empty one.
LEMMA Elements ==
  ASSUME NEW S, NEW q \in Seq(S), NEW x \in S
  PROVE  /\ ToSet(q) \subseteq S /\ ToSet(<<>>) = {} /\ IsInjective(<<>>)
         /\ Append(q, x) \in Seq(S)
         /\ ToSet(Append(q, x)) = ToSet(q) \cup {x}
         /\ IsInjective(q) /\ x \notin ToSet(q) => IsInjective(Append(q, x))
<1> DEFINE r == Append(q, x)
<1>1. /\ r \in Seq(S) /\ DOMAIN r = 1..Len(q) + 1 /\ DOMAIN q = 1..Len(q) /\ Len(q) \in Nat
      /\ r[Len(q) + 1] = x /\ \A i \in DOMAIN q : q[i] = r[i] /\ q[i] \in S
  OBVIOUS
<1>2. \A y : y \in ToSet(r) <=> y \in ToSet(q) \/ y = x
  <2>1. \A i \in DOMAIN r : i \in DOMAIN q \/ i = Len(q) + 1
    BY <1>1
  <2>2. Len(q) + 1 \in DOMAIN r /\ \A i \in DOMAIN q : i \in DOMAIN r
    BY <1>1
  <2>3. QED
    BY <1>1, <2>1, <2>2 DEF ToSet
<1>3. ASSUME IsInjective(q), x \notin ToSet(q) PROVE IsInjective(r)
  <2> SUFFICES ASSUME NEW i \in DOMAIN r, NEW j \in DOMAIN r, r[i] = r[j] PROVE i = j
    BY DEF IsInjective
  <2>1. \A n \in DOMAIN q : r[n] # x
    BY <1>1, <1>3 DEF ToSet
  <2>2. CASE i \in DOMAIN q /\ j \in DOMAIN q
    BY <1>1, <1>3, <2>2 DEF IsInjective
  <2>3. CASE i \notin DOMAIN q \/ j \notin DOMAIN q
    BY <1>1, <2>1, <2>3
  <2>4. QED
    BY <2>2, <2>3
<1>4. ToSet(q) \subseteq S
  BY <1>1 DEF ToSet
<1>5. ToSet(<<>>) = {} /\ IsInjective(<<>>)
  BY DEF ToSet, IsInjective
<1>6. QED
  BY <1>1, <1>2, <1>3, <1>4, <1>5

\* The fields of a surface.
LEMMA SurfaceFields ==
  ASSUME NEW x \in Surface
  PROVE  /\ x.role \in Key \cup {NoKey} /\ x.callbacks \in Seq(Key)
         /\ x.attached \in Key \cup {NoKey, Unchanged} /\ x.current \in Key \cup {NoKey}
BY DEF Surface

\* A new surface.
LEMMA NewSurfaceFields ==
  NewSurface \in Surface /\ NewSurface.role = NoKey /\ NewSurface.callbacks = <<>>
BY DEF NewSurface, Surface, Mode

\* What the requests change of a surface: role, mode, buffer and callbacks apart.
LEMMA SurfaceChanges ==
  ASSUME NEW x \in Surface
  PROVE  /\ \A k \in Key : LET y == [x EXCEPT !.role = k]
                           IN y \in Surface /\ y.role = k /\ y.callbacks = x.callbacks
         /\ \A m \in Mode : LET y == [x EXCEPT !.mode = m]
                            IN y \in Surface /\ y.role = x.role /\ y.callbacks = x.callbacks
         /\ \A b \in Key \cup {NoKey} :
              LET y == [x EXCEPT !.attached = b]
              IN y \in Surface /\ y.role = x.role /\ y.callbacks = x.callbacks
         /\ \A k \in Key : LET y == [x EXCEPT !.callbacks = Append(@, k)]
                           IN y \in Surface /\ y.role = x.role
                                /\ y.callbacks = Append(x.callbacks, k)
         /\ Committed(x) \in Surface /\ Committed(x).role = x.role
         /\ Committed(x).callbacks = <<>>
<1>1. \A k \in Key : LET y == [x EXCEPT !.role = k]
                     IN y \in Surface /\ y.role = k /\ y.callbacks = x.callbacks
  BY DEF Surface
<1>2. \A m \in Mode : LET y == [x EXCEPT !.mode = m]
                      IN y \in Surface /\ y.role = x.role /\ y.callbacks = x.callbacks
  BY DEF Surface
<1>3. \A b \in Key \cup {NoKey} :
        LET y == [x EXCEPT !.attached = b]
        IN y \in Surface /\ y.role = x.role /\ y.callbacks = x.callbacks
  BY DEF Surface
<1>4. ASSUME NEW k \in Key
      PROVE  LET y == [x EXCEPT !.callbacks = Append(@, k)]
             IN y \in Surface /\ y.role = x.role /\ y.callbacks = Append(x.callbacks, k)
  <2>1. Append(x.callbacks, k) \in Seq(Key)
    BY SurfaceFields
  <2>2. QED
    BY <2>1 DEF Surface
<1>5. Committed(x) \in Surface /\ Committed(x).role = x.role /\ Committed(x).callbacks = <<>>
  <2> DEFINE c == IF x.attached = Unchanged THEN x.current ELSE x.attached
  <2>1. <<>> \in Seq(Key) /\ c \in Key \cup {NoKey}
    BY SurfaceFields
  <2>2. Committed(x) = [x EXCEPT !.current = c, !.attached = Unchanged, !.callbacks = <<>>]
    BY DEF Committed
  <2>3. QED
    BY <2>1, <2>2 DEF Surface
<1>6. QED
  BY <1>1, <1>2, <1>3, <1>4, <1>5

----------------------------------------------------------------------------
(* Steps that leave the roles, or the callbacks, as they are.              *)

\* The pairs stay when no surface, role or shell surface comes or goes.
LEMMA RolesKept ==
  ASSUME IInv, DOMAIN surfaces' = DOMAIN surfaces,
         \A t \in DOMAIN surfaces : surfaces'[t].role = surfaces[t].role,
         shells' = shells,
         \A k \in Key : objects'[k] = "wl_surface" <=> objects[k] = "wl_surface",
         \A h \in DOMAIN shells : objects'[h] = objects[h]
  PROVE  RolesPaired' /\ SameClient'
BY DEF IInv, RolesPaired, SameClient

\* Callbacks stay as they are, or go, on each surface.
LEMMA CallbacksKept ==
  ASSUME IInv,
         \A t \in DOMAIN surfaces' :
           \/ surfaces'[t].callbacks = <<>>
           \/ /\ t \in DOMAIN surfaces /\ surfaces'[t].callbacks = surfaces[t].callbacks
              /\ \A k \in ToSet(surfaces[t].callbacks) : objects'[k] = objects[k]
  PROVE  CallbacksOnce'
<1>1. ToSet(<<>>) = {} /\ IsInjective(<<>>)
  BY DEF ToSet, IsInjective
<1>2. ASSUME NEW t \in DOMAIN surfaces'
      PROVE  /\ IsInjective(surfaces'[t].callbacks)
             /\ \A k \in ToSet(surfaces'[t].callbacks) : objects'[k] = "wl_callback" /\ k[1] = t[1]
  BY <1>1 DEF IInv, CallbacksOnce
<1>3. ASSUME NEW s \in DOMAIN surfaces', NEW t \in DOMAIN surfaces', s # t
      PROVE  ToSet(surfaces'[s].callbacks) \cap ToSet(surfaces'[t].callbacks) = {}
  <2>1. \/ ToSet(surfaces'[s].callbacks) = {} \/ ToSet(surfaces'[t].callbacks) = {}
        \/ /\ s \in DOMAIN surfaces /\ surfaces'[s].callbacks = surfaces[s].callbacks
           /\ t \in DOMAIN surfaces /\ surfaces'[t].callbacks = surfaces[t].callbacks
    BY <1>1
  <2>2. QED
    BY <1>3, <2>1 DEF IInv, CallbacksOnce
<1>4. QED
  BY <1>2, <1>3 DEF CallbacksOnce

\* A request meets the client's own objects; it changes none of the connections.
LEMMA RequestFacts ==
  ASSUME IInv, NEW k, NEW interface, Request(k, interface)
  PROVE  k \in Key /\ k[1] = batch /\ objects[k] = interface /\ connected' = connected
BY DEF Request, Owned

\* A wl_surface object has its surface.
LEMMA SurfaceExists ==
  ASSUME IInv, NEW s, Request(s, "wl_surface")
  PROVE  s \in DOMAIN surfaces /\ surfaces[s] \in Surface
BY RequestFacts DEF IInv, Types, RolesPaired

\* A registered object takes a free id.
LEMMA RegisterFacts ==
  ASSUME IInv, NEW k, NEW interface \in Interface, Register(k, interface)
  PROVE  /\ k \in Key /\ k[1] = batch /\ objects[k] = "none" /\ connected' = connected
         /\ objects' \in [Key -> Interface]
         /\ \A j \in Key : objects'[j] = IF j = k THEN interface ELSE objects[j]
BY RequestFacts DEF Register, IInv, Types

\* The objects after some are freed.
LEMMA FreedFacts ==
  ASSUME IInv, NEW F, Freed(F)
  PROVE  /\ objects' \in [Key -> Interface]
         /\ \A j \in Key : objects'[j] = IF j \in F THEN "none" ELSE objects[j]
BY DEF Freed, IInv, Types, Interface

\* The callbacks of a surface are callback objects: no surface and no shell surface.
LEMMA CallbackObjects ==
  ASSUME IInv, NEW s \in DOMAIN surfaces, NEW k \in ToSet(surfaces[s].callbacks)
  PROVE  k \in Key /\ objects[k] = "wl_callback" /\ k \notin DOMAIN shells \cup DOMAIN surfaces
<1>1. surfaces[s].callbacks \in Seq(Key)
  BY SurfaceFields DEF IInv, Types
<1>2. k \in Key
  BY <1>1 DEF ToSet
<1>3. QED
  BY <1>2 DEF IInv, CallbacksOnce, RolesPaired

\* A surface in which neither the role nor a callback changes.
LEMMA SurfaceStored ==
  ASSUME IInv, NEW s \in DOMAIN surfaces, NEW x \in Surface,
         x.role = surfaces[s].role, x.callbacks = surfaces[s].callbacks,
         surfaces' = [surfaces EXCEPT ![s] = x],
         UNCHANGED <<connected, objects, shells>>
  PROVE  IInv'
<1>1. Types'
  BY DEF IInv, Types
<1>2. RolesPaired' /\ SameClient'
  BY RolesKept
<1>3. CallbacksOnce'
  BY CallbacksKept
<1>4. QED
  BY <1>1, <1>2, <1>3 DEF IInv

----------------------------------------------------------------------------
(* The requests, one by one.                                               *)

LEMMA CreateSurfaceStep ==
  ASSUME IInv, NEW k \in Key, CreateSurface(k) PROVE IInv'
<1>1. Register(k, "wl_surface") /\ surfaces' = With(surfaces, k, NewSurface) /\ shells' = shells
  BY DEF CreateSurface
<1>2. /\ objects[k] = "none" /\ connected' = connected /\ objects' \in [Key -> Interface]
      /\ \A j \in Key : objects'[j] = IF j = k THEN "wl_surface" ELSE objects[j]
  BY <1>1, RegisterFacts DEF Interface
<1>3. k \notin DOMAIN surfaces /\ k \notin DOMAIN shells
  BY <1>2 DEF IInv, RolesPaired
<1>4. /\ DOMAIN surfaces' = DOMAIN surfaces \cup {k} /\ surfaces'[k] = NewSurface
      /\ \A s \in DOMAIN surfaces : surfaces'[s] = surfaces[s]
  BY <1>1, <1>3 DEF With
<1>5. Types'
  BY <1>1, <1>2, <1>4, NewSurfaceFields DEF IInv, Types
<1>6. RolesPaired' /\ SameClient'
  <2>1. DOMAIN surfaces' = {j \in Key : objects'[j] = "wl_surface"}
    BY <1>2, <1>4 DEF IInv, RolesPaired
  <2>2. \A h \in DOMAIN shells : h \in Key /\ h # k
    BY <1>3 DEF IInv, Types
  <2>3. \A h \in DOMAIN shells : shells[h] \in DOMAIN surfaces
    BY DEF IInv, RolesPaired
  <2>4. QED
    BY <1>1, <1>2, <1>4, <2>1, <2>2, <2>3, NewSurfaceFields DEF IInv, RolesPaired, SameClient
<1>7. CallbacksOnce'
  <2>1. \A s \in DOMAIN surfaces : \A j \in ToSet(surfaces[s].callbacks) : j \in Key /\ j # k
    BY <1>2, CallbackObjects
  <2>2. QED
    BY <1>2, <1>4, <2>1, NewSurfaceFields, CallbacksKept
<1>8. QED
  BY <1>5, <1>6, <1>7 DEF IInv

LEMMA BufferStep ==
  ASSUME IInv, NEW k \in Key, CreateBuffer(k) \/ DestroyBuffer(k) PROVE IInv'
<1>1. /\ connected' = connected /\ surfaces' = surfaces /\ shells' = shells
      /\ objects' \in [Key -> Interface] /\ objects[k] \in {"none", "wl_buffer"}
      /\ objects'[k] \in {"none", "wl_buffer"} /\ \A j \in Key \ {k} : objects'[j] = objects[j]
  <2>1. CASE CreateBuffer(k)
    BY <2>1, RegisterFacts DEF CreateBuffer, Interface
  <2>2. CASE DestroyBuffer(k)
    BY <2>2, RequestFacts, FreedFacts DEF DestroyBuffer
  <2>3. QED
    BY <2>1, <2>2
<1>2. Types'
  BY <1>1 DEF IInv, Types
<1>3. RolesPaired' /\ SameClient'
  <2>1. \A h \in DOMAIN shells : h \in Key /\ h # k
    BY <1>1 DEF IInv, Types, RolesPaired
  <2>2. QED
    BY <1>1, <2>1, RolesKept
<1>4. CallbacksOnce'
  <2>1. \A s \in DOMAIN surfaces : \A j \in ToSet(surfaces[s].callbacks) : j \in Key /\ j # k
    BY <1>1, CallbackObjects
  <2>2. QED
    BY <1>1, <2>1, CallbacksKept
<1>5. QED
  BY <1>2, <1>3, <1>4 DEF IInv

LEMMA SetModeStep ==
  ASSUME IInv, NEW k \in Key, NEW mode \in Mode, SetMode(k, mode) PROVE IInv'
<1> DEFINE s == shells[k]
<1>1. s \in DOMAIN surfaces /\ surfaces[s] \in Surface
  BY DEF SetMode, IInv, Types, RolesPaired
<1>2. /\ surfaces' = [surfaces EXCEPT ![s] = [surfaces[s] EXCEPT !.mode = mode]]
      /\ UNCHANGED <<connected, objects, shells>>
  BY <1>1 DEF SetMode, Request
<1> DEFINE x == [surfaces[s] EXCEPT !.mode = mode]
<1>3. x \in Surface /\ x.role = surfaces[s].role /\ x.callbacks = surfaces[s].callbacks
  BY <1>1, SurfaceChanges
<1> HIDE DEF x
<1>4. QED
  BY <1>1, <1>2, <1>3, SurfaceStored DEF x

LEMMA AttachStep ==
  ASSUME IInv, NEW s \in Key, NEW b \in Key \cup {NoKey}, Attach(s, b) PROVE IInv'
<1>1. s \in DOMAIN surfaces /\ surfaces[s] \in Surface
  BY SurfaceExists DEF Attach
<1>2. /\ surfaces' = [surfaces EXCEPT ![s] = [surfaces[s] EXCEPT !.attached = b]]
      /\ UNCHANGED <<connected, objects, shells>>
  BY <1>1 DEF Attach, Request
<1>3. QED
  BY <1>1, <1>2, SurfaceChanges, SurfaceStored

\* A surface that already has a role is left as it is; the object stays registered.
LEMMA GetShellSurfaceStep ==
  ASSUME IInv, NEW k \in Key, NEW s \in Key, GetShellSurface(k, s) PROVE IInv'
<1>1. Register(k, "wl_shell_surface") /\ Request(s, "wl_surface")
  BY DEF GetShellSurface
<1>2. /\ objects[k] = "none" /\ k[1] = batch /\ connected' = connected
      /\ objects' \in [Key -> Interface]
      /\ \A j \in Key : objects'[j] = IF j = k THEN "wl_shell_surface" ELSE objects[j]
  BY <1>1, RegisterFacts DEF Interface
<1>3. s \in DOMAIN surfaces /\ surfaces[s] \in Surface /\ s[1] = batch /\ s # k
  BY <1>1, <1>2, SurfaceExists, RequestFacts
<1>4. k \notin DOMAIN surfaces \cup DOMAIN shells
  BY <1>2 DEF IInv, RolesPaired
<1>5. \A t \in DOMAIN surfaces : \A j \in ToSet(surfaces[t].callbacks) :
        j \in Key /\ objects'[j] = objects[j]
  BY <1>2, CallbackObjects
<1>6. CASE surfaces[s].role # NoKey
  <2>1. surfaces' = surfaces /\ shells' = shells
    BY <1>6 DEF GetShellSurface
  <2>2. Types'
    BY <1>2, <2>1 DEF IInv, Types
  <2>3. RolesPaired' /\ SameClient'
    <3>1. \A h \in DOMAIN shells : h \in Key /\ h # k
      BY <1>4 DEF IInv, Types
    <3>2. QED
      BY <1>2, <2>1, <3>1, RolesKept
  <2>4. CallbacksOnce'
    BY <1>5, <2>1, CallbacksKept
  <2>5. QED
    BY <2>2, <2>3, <2>4 DEF IInv
<1>7. CASE surfaces[s].role = NoKey
  <2> DEFINE x == [surfaces[s] EXCEPT !.role = k]
  <2>1. surfaces' = [surfaces EXCEPT ![s] = x] /\ shells' = With(shells, k, s)
    BY <1>7 DEF GetShellSurface
  <2>2. x \in Surface /\ x.role = k /\ x.callbacks = surfaces[s].callbacks
    BY <1>3, SurfaceChanges
  <2> HIDE DEF x
  <2>3. /\ DOMAIN shells' = DOMAIN shells \cup {k} /\ shells'[k] = s
        /\ \A h \in DOMAIN shells : shells'[h] = shells[h]
    BY <1>4, <2>1 DEF With
  <2>4. /\ DOMAIN surfaces' = DOMAIN surfaces /\ surfaces'[s] = x
        /\ \A t \in DOMAIN surfaces \ {s} : surfaces'[t] = surfaces[t]
    BY <1>3, <2>1
  <2>5. Types'
    BY <1>2, <2>2, <2>3, <2>4 DEF IInv, Types
  <2>6. RolesPaired'
    <3>1. DOMAIN surfaces' = {j \in Key : objects'[j] = "wl_surface"}
      BY <1>2, <2>4 DEF IInv, RolesPaired
    <3>2. \A h \in DOMAIN shells : shells[h] \in DOMAIN surfaces \ {s}
      BY <1>7, NoKeyAssumption DEF IInv, Types, RolesPaired
    <3>3. ASSUME NEW h \in DOMAIN shells'
          PROVE  /\ objects'[h] = "wl_shell_surface" /\ shells'[h] \in DOMAIN surfaces'
                 /\ surfaces'[shells'[h]].role = h
      <4>1. CASE h = k
        BY <1>2, <1>3, <2>2, <2>3, <2>4, <4>1
      <4>2. CASE h \in DOMAIN shells
        <5>1. h # k /\ h \in Key
          BY <1>4, <4>2 DEF IInv, Types
        <5>2. QED
          BY <1>2, <2>3, <2>4, <3>2, <4>2, <5>1 DEF IInv, RolesPaired
      <4>3. QED
        BY <2>3, <4>1, <4>2
    <3>4. ASSUME NEW t \in DOMAIN surfaces', surfaces'[t].role # NoKey
          PROVE  surfaces'[t].role \in DOMAIN shells' /\ shells'[surfaces'[t].role] = t
      BY <2>2, <2>3, <2>4, <3>4 DEF IInv, RolesPaired
    <3>5. QED
      BY <3>1, <3>3, <3>4 DEF RolesPaired
  <2>7. SameClient'
    BY <1>2, <1>3, <2>3 DEF IInv, SameClient
  <2>8. CallbacksOnce'
    BY <1>5, <2>2, <2>4, CallbacksKept
  <2>9. QED
    BY <2>5, <2>6, <2>7, <2>8 DEF IInv
<1>8. QED
  BY <1>6, <1>7

LEMMA FrameStep ==
  ASSUME IInv, NEW s \in Key, NEW k \in Key, Frame(s, k) PROVE IInv'
<1> DEFINE x == [surfaces[s] EXCEPT !.callbacks = Append(@, k)]
<1>1. Register(k, "wl_callback") /\ Request(s, "wl_surface")
  BY DEF Frame
<1>2. /\ objects[k] = "none" /\ k[1] = batch /\ connected' = connected
      /\ objects' \in [Key -> Interface]
      /\ \A j \in Key : objects'[j] = IF j = k THEN "wl_callback" ELSE objects[j]
  BY <1>1, RegisterFacts DEF Interface
<1>3. s \in DOMAIN surfaces /\ surfaces[s] \in Surface /\ s[1] = batch
  BY <1>1, SurfaceExists, RequestFacts
<1>4. /\ surfaces' = [surfaces EXCEPT ![s] = x] /\ shells' = shells
      /\ x \in Surface /\ x.role = surfaces[s].role
      /\ x.callbacks = Append(surfaces[s].callbacks, k)
  BY <1>3, SurfaceChanges DEF Frame
<1> HIDE DEF x
<1>5. /\ DOMAIN surfaces' = DOMAIN surfaces /\ surfaces'[s] = x
      /\ \A t \in DOMAIN surfaces \ {s} : surfaces'[t] = surfaces[t]
  BY <1>3, <1>4
<1>6. Types'
  BY <1>2, <1>4, <1>5 DEF IInv, Types
<1>7. RolesPaired' /\ SameClient'
  <2>1. \A h \in DOMAIN shells : h \in Key /\ h # k
    BY <1>2 DEF IInv, Types, RolesPaired
  <2>2. \A t \in DOMAIN surfaces : surfaces'[t].role = surfaces[t].role
    BY <1>4, <1>5
  <2>3. QED
    BY <1>2, <1>4, <1>5, <2>1, <2>2, RolesKept
<1>8. CallbacksOnce'
  <2>1. \A t \in DOMAIN surfaces : \A j \in ToSet(surfaces[t].callbacks) :
          j \in Key /\ j # k /\ objects'[j] = "wl_callback"
    BY <1>2, CallbackObjects
  <2>2. IsInjective(surfaces[s].callbacks) /\ k \notin ToSet(surfaces[s].callbacks)
    BY <1>3, <2>1 DEF IInv, CallbacksOnce
  <2>3. ToSet(x.callbacks) = ToSet(surfaces[s].callbacks) \cup {k} /\ IsInjective(x.callbacks)
    BY <1>3, <1>4, <2>2, SurfaceFields, Elements
  <2>4. ASSUME NEW t \in DOMAIN surfaces'
        PROVE  /\ IsInjective(surfaces'[t].callbacks)
               /\ \A j \in ToSet(surfaces'[t].callbacks) : objects'[j] = "wl_callback" /\ j[1] = t[1]
    BY <1>2, <1>3, <1>5, <2>1, <2>3 DEF IInv, CallbacksOnce
  <2>5. ASSUME NEW t \in DOMAIN surfaces', NEW u \in DOMAIN surfaces', t # u
        PROVE  ToSet(surfaces'[t].callbacks) \cap ToSet(surfaces'[u].callbacks) = {}
    <3>1. ToSet(surfaces[t].callbacks) \cap ToSet(surfaces[u].callbacks) = {}
      BY <1>5, <2>5 DEF IInv, CallbacksOnce
    <3>2. \A v \in {t, u} : ToSet(surfaces'[v].callbacks) =
            ToSet(surfaces[v].callbacks) \cup (IF v = s THEN {k} ELSE {})
      BY <1>5, <2>3, <2>5
    <3>3. k \notin ToSet(surfaces[t].callbacks) \cup ToSet(surfaces[u].callbacks)
      BY <1>5, <2>1, <2>5
    <3>4. QED
      BY <2>5, <3>1, <3>2, <3>3
  <2>6. QED
    BY <2>4, <2>5 DEF CallbacksOnce
<1>9. QED
  BY <1>6, <1>7, <1>8 DEF IInv

\* The callbacks are freed as they leave the surface, or leave it and stay registered.
LEMMA CommitStep ==
  ASSUME IInv, NEW s \in Key, Commit(s) PROVE IInv'
<1> DEFINE x == Committed(surfaces[s])
           F == ToSet(surfaces[s].callbacks)
<1>1. s \in DOMAIN surfaces /\ surfaces[s] \in Surface
  BY SurfaceExists DEF Commit
<1>2. /\ surfaces' = [surfaces EXCEPT ![s] = x] /\ shells' = shells /\ connected' = connected
      /\ objects' = objects \/ Freed(F)
  BY <1>1 DEF Commit, Request
<1>3. x \in Surface /\ x.role = surfaces[s].role /\ x.callbacks = <<>>
  BY <1>1, SurfaceChanges
<1> HIDE DEF x, F
<1>4. /\ DOMAIN surfaces' = DOMAIN surfaces /\ surfaces'[s] = x
      /\ \A t \in DOMAIN surfaces \ {s} : surfaces'[t] = surfaces[t]
  BY <1>1, <1>2
<1>5. /\ objects' \in [Key -> Interface]
      /\ \A j \in Key \ F : objects'[j] = objects[j]
      /\ \A j \in F : objects'[j] = objects[j] \/ objects'[j] = "none"
  <2>1. F \subseteq Key
    BY <1>1, CallbackObjects DEF F
  <2>2. QED
    BY <1>2, <2>1, FreedFacts DEF IInv, Types
<1>6. \A j \in F : objects[j] = "wl_callback" /\ j \notin DOMAIN shells
  BY <1>1, CallbackObjects DEF F
<1>7. Types'
  BY <1>2, <1>3, <1>4, <1>5 DEF IInv, Types
<1>8. RolesPaired' /\ SameClient'
  <2>1. \A j \in Key : objects'[j] = "wl_surface" <=> objects[j] = "wl_surface"
    BY <1>5, <1>6
  <2>2. \A h \in DOMAIN shells : objects'[h] = objects[h]
    BY <1>5, <1>6 DEF IInv, Types
  <2>3. \A t \in DOMAIN surfaces : surfaces'[t].role = surfaces[t].role
    BY <1>3, <1>4
  <2>4. QED
    BY <1>2, <1>4, <2>1, <2>2, <2>3, RolesKept
<1>9. CallbacksOnce'
  <2>1. \A t \in DOMAIN surfaces \ {s} : \A j \in ToSet(surfaces[t].callbacks) : j \in Key \ F
    BY <1>1, CallbackObjects DEF IInv, CallbacksOnce, F
  <2>2. QED
    BY <1>3, <1>4, <1>5, <2>1, CallbacksKept
<1>10. QED
  BY <1>7, <1>8, <1>9 DEF IInv

\* The surface goes with its callbacks and its shell surface, which no other names.
LEMMA DestroySurfaceStep ==
  ASSUME IInv, NEW s \in Key, DestroySurface(s) PROVE IInv'
<1> DEFINE r == surfaces[s].role
           F == ToSet(surfaces[s].callbacks) \cup {r, s}
<1>1. s \in DOMAIN surfaces /\ surfaces[s] \in Surface /\ objects[s] = "wl_surface"
  BY SurfaceExists, RequestFacts DEF DestroySurface
<1>2. /\ connected' = connected /\ surfaces' = Without(surfaces, {s})
      /\ shells' = Without(shells, {r}) /\ Freed(F)
  BY DEF DestroySurface, Request
<1>3. /\ DOMAIN surfaces' = DOMAIN surfaces \ {s}
      /\ \A t \in DOMAIN surfaces \ {s} : surfaces'[t] = surfaces[t]
      /\ DOMAIN shells' = DOMAIN shells \ {r}
      /\ \A h \in DOMAIN shells \ {r} : shells'[h] = shells[h]
  BY <1>2 DEF Without
<1>4. \A j \in ToSet(surfaces[s].callbacks) :
        objects[j] = "wl_callback" /\ j \notin DOMAIN shells \cup DOMAIN surfaces
  BY <1>1, CallbackObjects
<1>5. /\ r \in DOMAIN shells => objects[r] = "wl_shell_surface"
      /\ r \in Key => r \in DOMAIN shells /\ shells[r] = s
      /\ \A t \in DOMAIN surfaces \ {s} : r \in Key => surfaces[t].role # r
  BY <1>1, NoKeyAssumption DEF IInv, RolesPaired
<1>6. /\ objects' \in [Key -> Interface]
      /\ \A j \in Key : objects'[j] = IF j \in F THEN "none" ELSE objects[j]
  BY <1>2, FreedFacts
<1>7. Types'
  BY <1>2, <1>3, <1>6 DEF IInv, Types
<1>8. RolesPaired'
  <2>1. ASSUME NEW j \in Key
        PROVE  objects'[j] = "wl_surface" <=> objects[j] = "wl_surface" /\ j # s
    BY <1>1, <1>4, <1>5, <1>6
  <2>2. DOMAIN surfaces' = {j \in Key : objects'[j] = "wl_surface"}
    BY <1>3, <2>1 DEF IInv, RolesPaired
  <2>3. ASSUME NEW h \in DOMAIN shells'
        PROVE  /\ objects'[h] = "wl_shell_surface" /\ shells'[h] \in DOMAIN surfaces'
               /\ surfaces'[shells'[h]].role = h
    <3>1. h \in Key /\ h \in DOMAIN shells /\ h # r /\ h # s
      BY <1>1, <1>3 DEF IInv, Types, RolesPaired
    <3>2. shells[h] \in DOMAIN surfaces \ {s}
      BY <3>1 DEF IInv, RolesPaired
    <3>3. h \notin F
      BY <1>4, <3>1
    <3>4. QED
      BY <1>3, <1>6, <3>1, <3>2, <3>3 DEF IInv, RolesPaired
  <2>4. ASSUME NEW t \in DOMAIN surfaces', surfaces'[t].role # NoKey
        PROVE  surfaces'[t].role \in DOMAIN shells' /\ shells'[surfaces'[t].role] = t
    <3>1. t \in DOMAIN surfaces \ {s} /\ surfaces'[t] = surfaces[t]
      BY <1>3
    <3>2. surfaces[t].role \in DOMAIN shells /\ shells[surfaces[t].role] = t
      BY <2>4, <3>1 DEF IInv, RolesPaired
    <3>3. surfaces[t].role # r
      BY <1>5, <3>1, <3>2 DEF IInv, Types
    <3>4. QED
      BY <1>3, <3>1, <3>2, <3>3
  <2>5. QED
    BY <2>2, <2>3, <2>4 DEF RolesPaired
<1>9. SameClient'
  BY <1>3 DEF IInv, SameClient
<1>10. CallbacksOnce'
  <2>1. ASSUME NEW t \in DOMAIN surfaces \ {s}, NEW j \in ToSet(surfaces[t].callbacks)
        PROVE  j \in Key \ F
    <3>1. j \in Key /\ objects[j] = "wl_callback" /\ j \notin DOMAIN shells
      BY CallbackObjects
    <3>2. j \notin ToSet(surfaces[s].callbacks)
      BY <1>1 DEF IInv, CallbacksOnce
    <3>3. j # s /\ j # r
      BY <1>1, <1>5, <3>1
    <3>4. QED
      BY <3>1, <3>2, <3>3
  <2>2. QED
    BY <1>3, <1>6, <2>1, CallbacksKept
<1>11. QED
  BY <1>7, <1>8, <1>9, <1>10 DEF IInv

----------------------------------------------------------------------------
(* The removal of a client, and the theorems.                              *)

\* What is the client's goes, and nothing that remains refers to it.
LEMMA RemoveClientStep ==
  ASSUME IInv, NEW c, RemoveClient(c) PROVE IInv'
<1>1. /\ connected' = connected \ {c} /\ Freed(Owned(c))
      /\ surfaces' = Without(surfaces, Owned(c)) /\ shells' = Without(shells, Owned(c))
  BY DEF RemoveClient
<1>2. /\ DOMAIN surfaces' = DOMAIN surfaces \ Owned(c)
      /\ \A t \in DOMAIN surfaces' : surfaces'[t] = surfaces[t]
      /\ DOMAIN shells' = DOMAIN shells \ Owned(c)
      /\ \A h \in DOMAIN shells' : shells'[h] = shells[h]
  BY <1>1 DEF Without
<1>3. /\ objects' \in [Key -> Interface]
      /\ \A j \in Key : objects'[j] = IF j \in Owned(c) THEN "none" ELSE objects[j]
  BY <1>1, FreedFacts
<1>4. \A h \in DOMAIN shells : h \in Owned(c) <=> shells[h] \in Owned(c)
  BY DEF IInv, Types, SameClient, Owned
<1>5. Types'
  BY <1>1, <1>2, <1>3 DEF IInv, Types
<1>6. RolesPaired'
  <2>1. ASSUME NEW j \in Key
        PROVE  objects'[j] = "wl_surface" <=> objects[j] = "wl_surface" /\ j \notin Owned(c)
    BY <1>3
  <2>2. DOMAIN surfaces' = {j \in Key : objects'[j] = "wl_surface"}
    BY <1>2, <2>1 DEF IInv, RolesPaired
  <2>3. ASSUME NEW h \in DOMAIN shells'
        PROVE  /\ objects'[h] = "wl_shell_surface" /\ shells'[h] \in DOMAIN surfaces'
               /\ surfaces'[shells'[h]].role = h
    BY <1>2, <1>3, <1>4 DEF IInv, Types, RolesPaired
  <2>4. ASSUME NEW t \in DOMAIN surfaces', surfaces'[t].role # NoKey
        PROVE  surfaces'[t].role \in DOMAIN shells' /\ shells'[surfaces'[t].role] = t
    BY <1>2, <1>4, <2>4 DEF IInv, RolesPaired
  <2>5. QED
    BY <2>2, <2>3, <2>4 DEF RolesPaired
<1>7. SameClient'
  BY <1>2 DEF IInv, SameClient
<1>8. CallbacksOnce'
  <2>1. ASSUME NEW t \in DOMAIN surfaces', NEW j \in ToSet(surfaces[t].callbacks)
        PROVE  j \in Key \ Owned(c)
    <3>1. t \in Key /\ t[1] # c
      BY <1>2 DEF IInv, Types, Owned
    <3>2. j \in Key /\ j[1] = t[1]
      BY <1>2, CallbackObjects DEF IInv, CallbacksOnce
    <3>3. QED
      BY <3>1, <3>2 DEF Owned
  <2>2. QED
    BY <1>2, <1>3, <2>1, CallbacksKept
<1>9. QED
  BY <1>5, <1>6, <1>7, <1>8 DEF IInv

\* The initial state has no object and no surface.
LEMMA InitIInv == Init => IInv
BY DEF Init, IInv, Types, SameClient, RolesPaired, CallbacksOnce, Interface

\* Every step keeps the invariant.
LEMMA NextIInv == IInv /\ [Next]_vars => IInv'
<1> SUFFICES ASSUME IInv, [Next]_vars PROVE IInv'
  OBVIOUS
<1>1. CASE UNCHANGED <<connected, objects, surfaces, shells>>
  <2>1. Types'
    BY <1>1 DEF IInv, Types
  <2>2. SameClient' /\ RolesPaired'
    BY <1>1 DEF IInv, SameClient, RolesPaired
  <2>3. CallbacksOnce'
    BY <1>1 DEF IInv, CallbacksOnce
  <2>4. QED
    BY <2>1, <2>2, <2>3 DEF IInv
<1>2. CASE Requests
  <2>1. ASSUME NEW k \in Key, CreateSurface(k) \/ CreateBuffer(k) \/ DestroyBuffer(k)
        PROVE  IInv'
    BY <2>1, CreateSurfaceStep, BufferStep
  <2>2. ASSUME NEW k \in Key, NEW s \in Key, GetShellSurface(k, s) PROVE IInv'
    BY <2>2, GetShellSurfaceStep
  <2>3. ASSUME NEW k \in Key, NEW mode \in Mode \ {"none"}, SetMode(k, mode) PROVE IInv'
    BY <2>3, SetModeStep
  <2>4. ASSUME NEW s \in Key, NEW b \in Key \cup {NoKey}, Attach(s, b) PROVE IInv'
    BY <2>4, AttachStep
  <2>5. ASSUME NEW s \in Key, NEW k \in Key, Frame(s, k) PROVE IInv'
    BY <2>5, FrameStep
  <2>6. ASSUME NEW s \in Key, Commit(s) \/ DestroySurface(s) PROVE IInv'
    BY <2>6, CommitStep, DestroySurfaceStep
  <2>7. QED
    BY <1>2, <2>1, <2>2, <2>3, <2>4, <2>5, <2>6 DEF Requests
<1>3. CASE (\E c \in Client : StartBatch(c)) \/ EndBatch \/ SubmitUpdate \/ Submitted
  BY <1>1, <1>3 DEF StartBatch, EndBatch, SubmitUpdate, Submitted
<1>4. CASE FailBatch \/ \E c \in Client : FlushFails(c)
  BY <1>4, RemoveClientStep DEF FailBatch, FlushFails
<1>5. QED
  BY <1>1, <1>2, <1>3, <1>4 DEF Next, vars

LEMMA Invariant == Spec => []IInv
<1>1. QED
  BY InitIInv, NextIInv, PTL DEF Spec

----------------------------------------------------------------------------
(* The queue of updates, and what a client that is gone has left.          *)

\* Nothing is left of a client that is not connected, its updates apart.
GoneLeavesNothing ==
  \A k \in Key : k[1] \notin connected =>
    /\ objects[k] = "none" /\ k \notin backed
    /\ k \notin DOMAIN surfaces \cup DOMAIN shells /\ scene # k

\* The updates are those of the batch, whose client is connected.
QueueOfBatch ==
  /\ updates \in Seq(Update)
  /\ \A i \in DOMAIN updates : updates[i].surface[1] = batch
  /\ phase = "idle" => updates = <<>>

Batches ==
  /\ phase \in {"idle", "reading", "submitting"}
  /\ batch \in connected \cup {NoClient} /\ (batch = NoClient <=> phase = "idle")
  /\ backed \subseteq Key
  /\ scene \in Key \cup {NoKey}

Queue == Batches /\ QueueOfBatch /\ GoneLeavesNothing

\* A client is a client of a key; no client is none.
LEMMA Clients ==
  ASSUME Types, Queue
  PROVE  /\ NoClient \notin Client /\ NoClient \notin connected
         /\ phase # "idle" => batch \in connected
BY NoClientAssumption DEF Types, Queue, Batches, Client

\* An update of the batch's client at the end of the queue.
LEMMA PushStep ==
  ASSUME QueueOfBatch, NEW kind \in {"frame", "unmapped"}, NEW s \in Key, s[1] = batch,
         Push(kind, s)
  PROVE  /\ updates' \in Seq(Update)
         /\ \A i \in DOMAIN updates' : updates'[i].surface[1] = batch
         /\ Len(updates') = Len(updates) + 1
         /\ updates'[Len(updates) + 1] = [kind |-> kind, surface |-> s]
         /\ \A i \in DOMAIN updates : updates'[i] = updates[i]
<1> DEFINE u == [kind |-> kind, surface |-> s]
<1>1. u \in Update /\ u.surface = s
  BY DEF Update
<1>2. updates' = Append(updates, u) /\ updates \in Seq(Update)
  BY DEF Push, QueueOfBatch
<1> HIDE DEF u
<1>3. /\ updates' \in Seq(Update) /\ Len(updates') = Len(updates) + 1 /\ Len(updates) \in Nat
      /\ DOMAIN updates' = 1..Len(updates) + 1 /\ DOMAIN updates = 1..Len(updates)
      /\ updates'[Len(updates) + 1] = u /\ \A i \in DOMAIN updates : updates'[i] = updates[i]
  BY <1>1, <1>2
<1>4. \A i \in DOMAIN updates' : i \in DOMAIN updates \/ i = Len(updates) + 1
  BY <1>3
<1>5. QED
  BY <1>1, <1>3, <1>4 DEF QueueOfBatch, u

\* What a request leaves as it is: the connections, the screen and what belongs to
\* other clients; what it queues is its client's.
OwnRequest ==
  /\ UNCHANGED <<connected, phase, batch, scene>> /\ phase = "reading"
  /\ updates' \in Seq(Update)
  /\ \A i \in DOMAIN updates' : updates'[i].surface[1] = batch
  /\ \/ UNCHANGED updates
     \/ \E kind \in {"frame", "unmapped"}, s \in Key : s[1] = batch /\ Push(kind, s)
  /\ backed' \subseteq Key
  /\ \A k \in Key : k[1] # batch => objects'[k] = objects[k] /\ (k \in backed' => k \in backed)

\* A request that queues nothing, and touches one object at most.
LEMMA RequestOfOne ==
  ASSUME IInv, Queue, NEW k \in Key, k[1] = batch, phase = "reading",
         UNCHANGED <<connected, phase, batch, scene, updates>>,
         \A j \in Key \ {k} : objects'[j] = objects[j],
         backed' \in {backed, backed \cup {k}, backed \ {k}}
  PROVE  OwnRequest
BY DEF Queue, Batches, QueueOfBatch, OwnRequest

\* A request that may queue an update, and frees objects of its client.
LEMMA RequestOfSurface ==
  ASSUME IInv, Queue, NEW s \in Key, s[1] = batch, phase = "reading",
         UNCHANGED <<connected, phase, batch, scene, backed>>,
         \/ UNCHANGED updates
         \/ \E kind \in {"frame", "unmapped"} : Push(kind, s),
         NEW F, objects' = objects \/ Freed(F), \A j \in F \cap Key : j[1] = batch
  PROVE  OwnRequest
<1>1. /\ updates' \in Seq(Update)
      /\ \A i \in DOMAIN updates' : updates'[i].surface[1] = batch
  <2>1. CASE UNCHANGED updates
    BY <2>1 DEF Queue, QueueOfBatch
  <2>2. ASSUME NEW kind \in {"frame", "unmapped"}, Push(kind, s)
        PROVE  /\ updates' \in Seq(Update)
               /\ \A i \in DOMAIN updates' : updates'[i].surface[1] = batch
    BY <2>2, PushStep DEF Queue
  <2>3. QED
    BY <2>1, <2>2
<1>2. \A k \in Key : k[1] # batch => objects'[k] = objects[k]
  BY FreedFacts
<1>3. QED
  BY <1>1, <1>2 DEF Queue, Batches, OwnRequest

LEMMA RequestQueue ==
  ASSUME IInv, Queue, Requests
  PROVE  OwnRequest
<1>1. ASSUME NEW k, NEW interface, Request(k, interface)
      PROVE  k \in Key /\ k[1] = batch /\ UNCHANGED <<connected, phase, batch, scene>> /\ phase = "reading"
  BY <1>1 DEF Request, Owned
<1>2. ASSUME NEW k, NEW interface, Register(k, interface)
      PROVE  /\ k \in Key /\ k[1] = batch /\ UNCHANGED <<connected, phase, batch, scene>>
             /\ phase = "reading" /\ \A j \in Key \ {k} : objects'[j] = objects[j]
  BY <1>1, <1>2 DEF Register, IInv, Types
<1>3. ASSUME NEW k \in Key, CreateSurface(k) PROVE OwnRequest
  BY <1>2, <1>3, RequestOfOne DEF CreateSurface
<1>4. ASSUME NEW k \in Key, CreateBuffer(k) PROVE OwnRequest
  BY <1>2, <1>4, RequestOfOne DEF CreateBuffer
<1>5. ASSUME NEW k \in Key, DestroyBuffer(k) PROVE OwnRequest
  <2>1. \A j \in Key \ {k} : objects'[j] = objects[j]
    BY <1>5, FreedFacts DEF DestroyBuffer
  <2>2. QED
    BY <1>1, <1>5, <2>1, RequestOfOne DEF DestroyBuffer
<1>6. ASSUME NEW k \in Key, NEW s \in Key, GetShellSurface(k, s) PROVE OwnRequest
  BY <1>2, <1>6, RequestOfOne DEF GetShellSurface
<1>7. ASSUME NEW k \in Key, NEW mode \in Mode \ {"none"}, SetMode(k, mode) PROVE OwnRequest
  BY <1>1, <1>7, RequestOfOne DEF SetMode
<1>8. ASSUME NEW s \in Key, NEW b \in Key \cup {NoKey}, Attach(s, b) PROVE OwnRequest
  BY <1>1, <1>8, RequestOfOne DEF Attach
<1>9. ASSUME NEW s \in Key, NEW k \in Key, Frame(s, k) PROVE OwnRequest
  BY <1>2, <1>9, RequestOfOne DEF Frame
<1>10. ASSUME NEW s \in Key, Commit(s) PROVE OwnRequest
  <2>1. Request(s, "wl_surface") /\ backed' = backed
    BY <1>10 DEF Commit
  <2>2. s \in DOMAIN surfaces /\ s[1] = batch
    BY <2>1, SurfaceExists, RequestFacts
  <2>3. \A j \in ToSet(surfaces[s].callbacks) : j[1] = batch
    BY <2>2 DEF IInv, CallbacksOnce
  <2>4. objects' = objects \/ Freed(ToSet(surfaces[s].callbacks))
    BY <1>10 DEF Commit
  <2>5. UNCHANGED updates \/ \E kind \in {"frame", "unmapped"} : Push(kind, s)
    BY <1>10 DEF Commit
  <2>6. QED
    BY <1>1, <2>1, <2>2, <2>3, <2>4, <2>5, RequestOfSurface
<1>11. ASSUME NEW s \in Key, DestroySurface(s) PROVE OwnRequest
  <2> DEFINE F == ToSet(surfaces[s].callbacks) \cup {surfaces[s].role, s}
  <2>1. Request(s, "wl_surface") /\ backed' = backed /\ Freed(F)
    BY <1>11 DEF DestroySurface
  <2>2. s \in DOMAIN surfaces /\ s[1] = batch
    BY <2>1, SurfaceExists, RequestFacts
  <2>3. \A j \in ToSet(surfaces[s].callbacks) : j[1] = batch
    BY <2>2 DEF IInv, CallbacksOnce
  <2>4. surfaces[s].role \in Key => surfaces[s].role[1] = batch
    BY <2>2, NoKeyAssumption DEF IInv, RolesPaired, SameClient
  <2>5. \A j \in F \cap Key : j[1] = batch
    BY <2>2, <2>3, <2>4
  <2>6. UNCHANGED updates \/ \E kind \in {"frame", "unmapped"} : Push(kind, s)
    BY <1>11 DEF DestroySurface
  <2> HIDE DEF F
  <2>7. QED
    BY <1>1, <2>1, <2>2, <2>5, <2>6, RequestOfSurface
<1>12. QED
  BY <1>3, <1>4, <1>5, <1>6, <1>7, <1>8, <1>9, <1>10, <1>11 DEF Requests

\* All updates are the client's that goes, or there are none.
LEMMA NoneLeft ==
  ASSUME QueueOfBatch, Types, NEW c, phase = "idle" \/ c = batch
  PROVE  OthersUpdates(c) = <<>>
<1> DEFINE kept == {i \in DOMAIN updates : updates[i].surface \notin Owned(c)}
           Orders(f) == \A i, j \in DOMAIN f : i < j => f[i] < f[j]
           order == CHOOSE f \in [1..Cardinality(kept) -> kept] : Orders(f)
<1>1. \A i \in DOMAIN updates : updates[i].surface \in Key
  <2>1. \A i \in DOMAIN updates : updates[i] \in Update
    BY DEF QueueOfBatch
  <2>2. QED
    BY <2>1 DEF Update
<1>2. kept = {}
  <2>1. CASE phase = "idle"
    BY <2>1 DEF QueueOfBatch
  <2>2. CASE c = batch
    BY <1>1, <2>2 DEF QueueOfBatch, Owned
  <2>3. QED
    BY <2>1, <2>2
<1>3. 1..Cardinality(kept) = {}
  <2>1. Cardinality(kept) = 0
    BY <1>2, FS_EmptySet
  <2>2. QED
    BY <2>1
<1>4. \E f \in [1..Cardinality(kept) -> kept] : Orders(f)
  <2> DEFINE g == [i \in 1..Cardinality(kept) |-> i]
  <2>1. g \in [1..Cardinality(kept) -> kept]
    BY <1>3
  <2>2. Orders(g)
    BY <1>3
  <2>3. QED
    BY <2>1, <2>2
<1>5. order \in [1..Cardinality(kept) -> kept]
  BY <1>4
<1>6. DOMAIN order = {}
  BY <1>3, <1>5
<1>7. OthersUpdates(c) = [n \in DOMAIN order |-> updates[order[n]]]
  BY DEF OthersUpdates
<1> HIDE DEF order
<1>8. QED
  BY <1>6, <1>7

\* A client is removed, its whole queue with it.
LEMMA RemoveClientQueue ==
  ASSUME IInv, IInv', Queue, NEW c, RemoveClient(c), phase = "idle" \/ c = batch
  PROVE  Queue'
<1>1. /\ connected' = connected \ {c} /\ Freed(Owned(c)) /\ backed' = backed \ Owned(c)
      /\ updates' = <<>> /\ scene' = IF scene \in Owned(c) THEN NoKey ELSE scene
      /\ phase' = "idle" /\ batch' = NoClient
  BY NoneLeft DEF RemoveClient, Queue, IInv
<1>2. Batches'
  BY <1>1 DEF Queue, Batches
<1>3. QueueOfBatch'
  BY <1>1 DEF QueueOfBatch
<1>4. GoneLeavesNothing'
  <2> SUFFICES ASSUME NEW k \in Key, k[1] \notin connected'
               PROVE  /\ objects'[k] = "none" /\ k \notin backed'
                      /\ k \notin DOMAIN surfaces' \cup DOMAIN shells' /\ scene' # k
    BY DEF GoneLeavesNothing
  <2>1. k \in Owned(c) \/ k[1] \notin connected
    BY <1>1 DEF Owned
  <2>2. objects'[k] = IF k \in Owned(c) THEN "none" ELSE objects[k]
    BY <1>1, FreedFacts
  <2>3. objects'[k] = "none" /\ k \notin backed' /\ scene' # k
    BY <1>1, <2>1, <2>2, NoKeyAssumption DEF Queue, GoneLeavesNothing
  <2>4. QED
    BY <2>3 DEF IInv, RolesPaired
<1>5. QED
  BY <1>2, <1>3, <1>4 DEF Queue

\* The first update is taken out of the queue.
LEMMA SubmitFacts ==
  ASSUME Queue, SubmitUpdate
  PROVE  /\ updates # <<>> /\ phase = "submitting" /\ Head(updates) \in Update
         /\ Head(updates).surface \in Key /\ Head(updates).surface[1] = batch
         /\ updates' = Tail(updates) /\ updates' \in Seq(Update)
         /\ \A i \in DOMAIN updates' : i + 1 \in DOMAIN updates /\ updates'[i] = updates[i + 1]
         /\ scene' = IF Head(updates).kind = "frame" THEN Head(updates).surface
                     ELSE Unmap(Head(updates).surface)
<1>1. updates # <<>> /\ updates \in Seq(Update) /\ updates' = Tail(updates) /\ phase = "submitting"
  BY DEF SubmitUpdate, Queue, QueueOfBatch
<1>2. /\ Head(updates) = updates[1] /\ 1 \in DOMAIN updates
      /\ Head(updates) \in Update /\ updates' \in Seq(Update)
  BY <1>1
<1>3. \A i \in DOMAIN updates' : i + 1 \in DOMAIN updates /\ updates'[i] = updates[i + 1]
  BY <1>1
<1>4. Head(updates).surface \in Key /\ Head(updates).surface[1] = batch
  BY <1>2 DEF Queue, QueueOfBatch, Update
<1>5. scene' = IF Head(updates).kind = "frame" THEN Head(updates).surface
               ELSE Unmap(Head(updates).surface)
  BY DEF SubmitUpdate
<1>6. QED
  BY <1>1, <1>2, <1>3, <1>4, <1>5

\* Every step keeps the queue the batch's.
LEMMA NextQueue == IInv /\ Queue /\ [Next]_vars => Queue'
<1> SUFFICES ASSUME IInv, Queue, [Next]_vars PROVE Queue'
  OBVIOUS
<1>1. CASE UNCHANGED vars
  BY <1>1 DEF vars, Queue, Batches, QueueOfBatch, GoneLeavesNothing
<1>2. ASSUME NEW c \in Client, StartBatch(c) PROVE Queue'
  <2>1. Batches'
    BY <1>2, Clients DEF StartBatch, Queue, Batches, IInv
  <2>2. QueueOfBatch'
    BY <1>2 DEF StartBatch, Queue, QueueOfBatch
  <2>3. GoneLeavesNothing'
    BY <1>2 DEF StartBatch, Queue, GoneLeavesNothing
  <2>4. QED
    BY <2>1, <2>2, <2>3 DEF Queue
<1>3. CASE Requests
  <2>1. OwnRequest /\ IInv'
    BY <1>3, RequestQueue, NextIInv DEF Next
  <2>2. Batches' /\ QueueOfBatch'
    BY <2>1 DEF Queue, Batches, QueueOfBatch, OwnRequest
  <2>3. GoneLeavesNothing'
    <3> SUFFICES ASSUME NEW k \in Key, k[1] \notin connected'
                 PROVE  /\ objects'[k] = "none" /\ k \notin backed'
                        /\ k \notin DOMAIN surfaces' \cup DOMAIN shells' /\ scene' # k
      BY DEF GoneLeavesNothing
    <3>1. k[1] # batch /\ k[1] \notin connected
      BY <2>1, Clients DEF OwnRequest, IInv
    <3>2. objects'[k] = "none" /\ k \notin backed' /\ scene' # k
      BY <2>1, <3>1 DEF OwnRequest, Queue, GoneLeavesNothing
    <3>3. QED
      BY <2>1, <3>2 DEF IInv, RolesPaired
  <2>4. QED
    BY <2>2, <2>3 DEF Queue
<1>4. CASE EndBatch
  <2>1. Batches' /\ QueueOfBatch'
    BY <1>4 DEF EndBatch, Queue, Batches, QueueOfBatch
  <2>2. GoneLeavesNothing'
    BY <1>4 DEF EndBatch, Queue, GoneLeavesNothing
  <2>3. QED
    BY <2>1, <2>2 DEF Queue
<1>5. CASE SubmitUpdate
  <2>1. UNCHANGED <<connected, phase, batch, objects, backed, surfaces, shells>>
    BY <1>5 DEF SubmitUpdate
  <2>2. scene' \in {Head(updates).surface, NoKey, scene}
    BY <1>5, SubmitFacts DEF Unmap
  <2>3. batch \in connected
    BY <1>5, SubmitFacts, Clients DEF IInv
  <2>4. Batches'
    BY <1>5, <2>1, <2>2, SubmitFacts DEF Queue, Batches
  <2>5. QueueOfBatch'
    BY <1>5, <2>1, SubmitFacts DEF Queue, QueueOfBatch
  <2>6. GoneLeavesNothing'
    BY <1>5, <2>1, <2>2, <2>3, SubmitFacts, NoKeyAssumption DEF Queue, GoneLeavesNothing
  <2>7. QED
    BY <2>4, <2>5, <2>6 DEF Queue
<1>6. CASE Submitted
  <2>1. Batches' /\ QueueOfBatch'
    BY <1>6 DEF Submitted, Queue, Batches, QueueOfBatch
  <2>2. GoneLeavesNothing'
    BY <1>6 DEF Submitted, Queue, GoneLeavesNothing
  <2>3. QED
    BY <2>1, <2>2 DEF Queue
<1>7. CASE FailBatch
  BY <1>7, NextIInv, RemoveClientQueue DEF FailBatch, Next
<1>8. ASSUME NEW c \in Client, FlushFails(c) PROVE Queue'
  BY <1>8, NextIInv, RemoveClientQueue DEF FlushFails, Next
<1>9. QED
  BY <1>1, <1>2, <1>3, <1>4, <1>5, <1>6, <1>7, <1>8 DEF Next

\* At first all clients are connected, and nothing is queued.
LEMMA InitQueue == Init => Queue
<1> SUFFICES ASSUME Init PROVE Queue
  OBVIOUS
<1>1. Batches
  BY NoClientAssumption DEF Init, Batches, Client
<1>2. QueueOfBatch
  BY DEF Init, QueueOfBatch
<1>3. GoneLeavesNothing
  BY DEF Init, GoneLeavesNothing, Client
<1>4. QED
  BY <1>1, <1>2, <1>3 DEF Queue

LEMMA QueueInvariant == Spec => [](IInv /\ Queue)
<1>1. QED
  BY InitIInv, NextIInv, InitQueue, NextQueue, PTL DEF Spec

----------------------------------------------------------------------------
(* What the queue leaves on screen.                                        *)

\* A set of numbers with a bound has a highest.
LEMMA Highest ==
  ASSUME NEW n \in Nat, NEW S \in SUBSET (1..n), S # {}
  PROVE  Max(S) \in S /\ \A m \in S : m <= Max(S)
<1> DEFINE Below == {n - m : m \in S}
<1>1. Below \subseteq Nat /\ Below # {}
  <2>1. \A m \in S : n - m \in Nat
    OBVIOUS
  <2>2. QED
    BY <2>1
<1>2. PICK d \in Below : \A e \in Below : <<e, d>> \notin OpToRel(<, Nat)
  BY <1>1, NatLessThanWellFounded, WFMin
<1>3. PICK top \in S : d = n - top
  BY <1>2
<1>4. \A m \in S : top >= m
  <2> SUFFICES ASSUME NEW m \in S PROVE top >= m
    OBVIOUS
  <2>1. ~(n - m < d)
    BY <1>1, <1>2 DEF OpToRel
  <2>2. top \in Int /\ m \in Int
    BY <1>3
  <2>3. QED
    BY <1>3, <2>1, <2>2
<1>5. Max(S) \in S /\ \A m \in S : Max(S) >= m
  BY <1>3, <1>4 DEF Max
<1>6. QED
  BY <1>5

\* No frame comes after place n, where a frame is unless n is 0.
LastFrame(queue, n) ==
  /\ n \in Nat /\ (n # 0 => n \in DOMAIN queue /\ queue[n].kind = "frame")
  /\ \A i \in DOMAIN queue : i > n => queue[i].kind = "unmapped"

\* The surface is unmapped after place n.
UnmappedAfter(queue, n, s) ==
  \E i \in DOMAIN queue : i > n /\ queue[i].kind = "unmapped" /\ queue[i].surface = s

\* The surface of the last frame, or the one on screen.
LastSurface(queue, screen, n) == IF n = 0 THEN screen ELSE queue[n].surface

\* Every queue has its last frame, and leaves its surface unless it is unmapped later.
LEMMA OutcomeOfLast ==
  ASSUME NEW queue \in Seq(Update), NEW screen
  PROVE  /\ \E n \in Nat : LastFrame(queue, n)
         /\ \A n \in Nat : LastFrame(queue, n) =>
              Outcome(queue, screen) =
                LET s == LastSurface(queue, screen, n)
                IN IF UnmappedAfter(queue, n, s) THEN NoKey ELSE s
<1> DEFINE Frames == {i \in DOMAIN queue : queue[i].kind = "frame"}
           top == IF Frames = {} THEN 0 ELSE Max(Frames)
<1>1. DOMAIN queue = 1..Len(queue) /\ Len(queue) \in Nat /\ Frames \subseteq 1..Len(queue)
  OBVIOUS
<1>2. \A i \in DOMAIN queue : queue[i].kind \in {"frame", "unmapped"}
  <2>1. \A i \in DOMAIN queue : queue[i] \in Update
    OBVIOUS
  <2>2. QED
    BY <2>1 DEF Update
<1>3. Frames # {} => Max(Frames) \in Frames /\ \A m \in Frames : m <= Max(Frames)
  BY <1>1, Highest
<1>4. LastFrame(queue, top)
  <2>1. CASE Frames = {}
    BY <1>2, <2>1 DEF LastFrame
  <2>2. CASE Frames # {}
    <3>1. top \in Frames /\ \A m \in Frames : m <= top
      BY <1>3, <2>2
    <3>2. top \in Nat /\ top \in DOMAIN queue /\ queue[top].kind = "frame"
      BY <1>1, <3>1
    <3> HIDE DEF top
    <3>3. ASSUME NEW i \in DOMAIN queue, i > top PROVE queue[i].kind = "unmapped"
      <4>1. i \in Nat /\ i \notin Frames
        BY <1>1, <3>1, <3>2, <3>3
      <4>2. QED
        BY <1>2, <4>1
    <3>4. QED
      BY <3>2, <3>3 DEF LastFrame
  <2>3. QED
    BY <2>1, <2>2
<1>5. Outcome(queue, screen) =
        LET s == LastSurface(queue, screen, top)
        IN IF UnmappedAfter(queue, top, s) THEN NoKey ELSE s
  <2>1. top = 0 <=> Frames = {}
    BY <1>1, <1>3
  <2>2. LastSurface(queue, screen, top) =
          IF Frames = {} THEN screen ELSE queue[Max(Frames)].surface
    BY <2>1 DEF LastSurface
  <2>3. QED
    BY <2>2 DEF Outcome, UnmappedAfter
<1>6. top \in Nat
  BY <1>4 DEF LastFrame
<1> HIDE DEF top, Frames
<1>7. ASSUME NEW n \in Nat, LastFrame(queue, n) PROVE n = top
  <2>1. CASE n < top
    BY <1>1, <1>4, <1>6, <1>7, <2>1 DEF LastFrame
  <2>2. CASE top < n
    BY <1>1, <1>4, <1>6, <1>7, <2>2 DEF LastFrame
  <2>3. QED
    BY <1>6, <2>1, <2>2
<1>8. QED
  BY <1>4, <1>5, <1>6, <1>7

\* Submitting the first update leaves the outcome as it was.
LEMMA OutcomeOfRest ==
  ASSUME NEW queue \in Seq(Update), queue # <<>>, NEW screen, NEW next,
         next = IF Head(queue).kind = "frame" THEN Head(queue).surface
                ELSE IF screen = Head(queue).surface THEN NoKey ELSE screen,
         \A i \in DOMAIN queue : queue[i].surface # NoKey
  PROVE  Outcome(Tail(queue), next) = Outcome(queue, screen)
<1> DEFINE rest == Tail(queue)
           size == Len(queue)
<1>1. /\ rest \in Seq(Update) /\ size \in Nat \ {0} /\ DOMAIN queue = 1..size
      /\ DOMAIN rest = 1..(size - 1) /\ \A i \in 1..(size - 1) : rest[i] = queue[i + 1]
      /\ Head(queue) = queue[1]
  OBVIOUS
<1>2. PICK n \in Nat : LastFrame(queue, n)
  BY OutcomeOfLast
<1> DEFINE s == LastSurface(queue, screen, n)
<1>3. Outcome(queue, screen) = IF UnmappedAfter(queue, n, s) THEN NoKey ELSE s
  BY <1>2, OutcomeOfLast
<1> HIDE DEF rest, size
<1>4. CASE n = 0
  <2>1. queue[1].kind = "unmapped" /\ LastFrame(rest, 0)
    BY <1>1, <1>2, <1>4 DEF LastFrame
  <2>2. Outcome(rest, next) = IF UnmappedAfter(rest, 0, next) THEN NoKey ELSE next
    BY <1>1, <2>1, OutcomeOfLast DEF LastSurface
  <2>3. s = screen
    BY <1>4 DEF LastSurface
  <2>4. CASE screen = queue[1].surface
    <3>1. UnmappedAfter(queue, 0, screen)
      BY <1>1, <2>1, <2>4 DEF UnmappedAfter
    <3>2. next = NoKey
      BY <1>1, <2>1, <2>4
    <3>3. QED
      BY <1>3, <1>4, <2>2, <2>3, <3>1, <3>2 DEF rest
  <2>5. CASE screen # queue[1].surface
    <3>1. next = screen
      BY <1>1, <2>1, <2>5
    <3>2. UnmappedAfter(queue, 0, screen) <=> UnmappedAfter(rest, 0, screen)
      <4>1. ASSUME NEW i \in DOMAIN queue, queue[i].surface = screen
            PROVE  i - 1 \in DOMAIN rest /\ i - 1 > 0 /\ rest[i - 1] = queue[i]
        BY <1>1, <2>5, <4>1
      <4>2. ASSUME NEW i \in DOMAIN rest
            PROVE  i + 1 \in DOMAIN queue /\ i + 1 > 0 /\ rest[i] = queue[i + 1]
        BY <1>1
      <4>3. QED
        BY <4>1, <4>2 DEF UnmappedAfter
    <3>3. QED
      BY <1>3, <1>4, <2>2, <2>3, <3>1, <3>2 DEF rest
  <2>6. QED
    BY <2>4, <2>5
<1>5. CASE n # 0
  <2>1. n \in 1..size /\ queue[n].kind = "frame" /\ s = queue[n].surface
    BY <1>1, <1>2, <1>5 DEF LastFrame, LastSurface
  <2>2. LastFrame(rest, n - 1)
    <3>1. n - 1 \in Nat /\ (n - 1 # 0 => n - 1 \in DOMAIN rest /\ rest[n - 1].kind = "frame")
      BY <1>1, <2>1
    <3>2. ASSUME NEW i \in DOMAIN rest, i > n - 1 PROVE rest[i].kind = "unmapped"
      <4>1. i + 1 \in DOMAIN queue /\ i + 1 > n /\ rest[i] = queue[i + 1]
        BY <1>1, <2>1, <3>2
      <4>2. QED
        BY <1>2, <4>1 DEF LastFrame
    <3>3. QED
      BY <3>1, <3>2 DEF LastFrame
  <2>3. LastSurface(rest, next, n - 1) = s
    BY <1>1, <2>1 DEF LastSurface
  <2>4. UnmappedAfter(queue, n, s) <=> UnmappedAfter(rest, n - 1, s)
    <3>1. ASSUME NEW i \in DOMAIN queue, i > n
          PROVE  i - 1 \in DOMAIN rest /\ i - 1 > n - 1 /\ rest[i - 1] = queue[i]
      BY <1>1, <2>1, <3>1
    <3>2. ASSUME NEW i \in DOMAIN rest, i > n - 1
          PROVE  i + 1 \in DOMAIN queue /\ i + 1 > n /\ rest[i] = queue[i + 1]
      BY <1>1, <2>1, <3>2
    <3>3. QED
      BY <3>1, <3>2 DEF UnmappedAfter
  <2>5. n - 1 \in Nat
    BY <2>1
  <2>6. Outcome(rest, next) = IF UnmappedAfter(rest, n - 1, s) THEN NoKey ELSE s
    BY <1>1, <2>2, <2>3, <2>5, OutcomeOfLast
  <2>7. QED
    BY <1>3, <2>4, <2>6 DEF rest
<1>6. QED
  BY <1>4, <1>5

\* What an update at the end of the queue makes of the outcome.
LEMMA OutcomeOfPush ==
  ASSUME QueueOfBatch, NEW kind \in {"frame", "unmapped"}, NEW s \in Key, s[1] = batch,
         Push(kind, s), scene' = scene
  PROVE  Shown' = IF kind = "frame" THEN s ELSE IF Shown = s THEN NoKey ELSE Shown
<1> DEFINE queue == updates
           next == updates'
           size == Len(updates)
<1>1. /\ queue \in Seq(Update) /\ next \in Seq(Update)
      /\ DOMAIN queue = 1..size /\ DOMAIN next = 1..(size + 1) /\ size \in Nat
      /\ next[size + 1].kind = kind /\ next[size + 1].surface = s
      /\ \A i \in 1..size : next[i] = queue[i]
  <2>1. queue \in Seq(Update)
    BY DEF QueueOfBatch
  <2>2. next \in Seq(Update) /\ Len(next) = size + 1
    BY PushStep
  <2>3. next[size + 1] = [kind |-> kind, surface |-> s] /\ \A i \in DOMAIN queue : next[i] = queue[i]
    BY PushStep
  <2>4. QED
    BY <2>1, <2>2, <2>3
<1>2. Shown = Outcome(queue, scene) /\ Shown' = Outcome(next, scene)
  BY DEF Shown
<1> HIDE DEF queue, next, size
<1>3. CASE kind = "frame"
  <2>1. LastFrame(next, size + 1)
    BY <1>1, <1>3 DEF LastFrame
  <2>2. ~UnmappedAfter(next, size + 1, s)
    BY <1>1 DEF UnmappedAfter
  <2>3. LastSurface(next, scene, size + 1) = s /\ size + 1 \in Nat
    BY <1>1 DEF LastSurface
  <2>4. QED
    BY <1>1, <1>2, <1>3, <2>1, <2>2, <2>3, OutcomeOfLast
<1>4. CASE kind = "unmapped"
  <2>1. PICK n \in Nat : LastFrame(queue, n)
    BY <1>1, OutcomeOfLast
  <2> DEFINE t == LastSurface(queue, scene, n)
  <2>2. n \in 0..size
    BY <1>1, <2>1 DEF LastFrame
  <2>3. LastFrame(next, n)
    <3>1. n # 0 => n \in DOMAIN next /\ next[n].kind = "frame"
      BY <1>1, <2>1, <2>2 DEF LastFrame
    <3>2. ASSUME NEW i \in DOMAIN next, i > n PROVE next[i].kind = "unmapped"
      <4>1. i \in 1..size \/ i = size + 1
        BY <1>1
      <4>2. QED
        BY <1>1, <1>4, <2>1, <3>2, <4>1 DEF LastFrame
    <3>3. QED
      BY <3>1, <3>2 DEF LastFrame
  <2>4. LastSurface(next, scene, n) = t
    BY <1>1, <2>2 DEF LastSurface
  <2>5. UnmappedAfter(next, n, t) <=> UnmappedAfter(queue, n, t) \/ t = s
    <3>1. ASSUME NEW i \in DOMAIN queue PROVE i \in DOMAIN next /\ next[i] = queue[i]
      BY <1>1
    <3>2. ASSUME NEW i \in DOMAIN next PROVE i \in DOMAIN queue \/ i = size + 1
      BY <1>1
    <3>3. size + 1 \in DOMAIN next /\ size + 1 > n
      BY <1>1, <2>2
    <3>4. QED
      BY <1>1, <1>4, <3>1, <3>2, <3>3 DEF UnmappedAfter
  <2>6. /\ Shown = IF UnmappedAfter(queue, n, t) THEN NoKey ELSE t
        /\ Shown' = IF UnmappedAfter(next, n, t) THEN NoKey ELSE t
    BY <1>1, <1>2, <2>1, <2>3, <2>4, OutcomeOfLast
  <2>7. s # NoKey
    BY NoKeyAssumption
  <2> HIDE DEF t
  <2>8. QED
    BY <1>4, <2>5, <2>6, <2>7
<1>5. QED
  BY <1>3, <1>4

LEMMA SubmitKeepsOutcome == ASSUME Queue, SubmitUpdate PROVE Shown' = Shown
<1>1. \A i \in DOMAIN updates : updates[i].surface # NoKey
  <2>1. \A i \in DOMAIN updates : updates[i] \in Update
    BY DEF Queue, QueueOfBatch
  <2>2. QED
    BY <2>1, NoKeyAssumption DEF Update
<1>2. Outcome(Tail(updates), scene') = Outcome(updates, scene)
  BY <1>1, SubmitFacts, OutcomeOfRest DEF Unmap, Queue, QueueOfBatch
<1>3. QED
  BY <1>2, SubmitFacts DEF Shown

\* A field of one surface that is not its content.
LEMMA ContentOfOther ==
  ASSUME Types, NEW s \in DOMAIN surfaces, NEW x,
         surfaces' = [surfaces EXCEPT ![s] = x], x.current = surfaces[s].current
  PROVE  \A t \in DOMAIN surfaces : surfaces'[t].current = surfaces[t].current
OBVIOUS

\* Only a commit changes the content of a surface that stays.
LEMMA ContentKept ==
  ASSUME IInv, Next, \A k \in Key : ~Commit(k)
  PROVE  \A t \in DOMAIN surfaces \cap DOMAIN surfaces' : surfaces'[t].current = surfaces[t].current
<1> DEFINE Kept == \A t \in DOMAIN surfaces \cap DOMAIN surfaces' :
                     surfaces'[t].current = surfaces[t].current
<1> SUFFICES Kept
  OBVIOUS
<1>1. CASE surfaces' = surfaces
  BY <1>1
<1>2. ASSUME NEW S, surfaces' = Without(surfaces, S) PROVE Kept
  BY <1>2 DEF Without
<1>3. ASSUME NEW k \in Key, CreateSurface(k) PROVE Kept
  <2>1. Register(k, "wl_surface") /\ surfaces' = With(surfaces, k, NewSurface)
    BY <1>3 DEF CreateSurface
  <2>2. k \notin DOMAIN surfaces
    BY <2>1, RegisterFacts DEF Interface, IInv, RolesPaired
  <2>3. QED
    BY <2>1, <2>2 DEF With
<1>4. ASSUME NEW k \in Key, NEW s \in Key, GetShellSurface(k, s) PROVE Kept
  <2>1. s \in DOMAIN surfaces /\ surfaces[s] \in Surface
    BY <1>4, SurfaceExists DEF GetShellSurface
  <2>2. surfaces' = surfaces \/ surfaces' = [surfaces EXCEPT ![s] = [surfaces[s] EXCEPT !.role = k]]
    BY <1>4, <2>1 DEF GetShellSurface
  <2>3. [surfaces[s] EXCEPT !.role = k].current = surfaces[s].current
    BY <2>1 DEF Surface
  <2>4. QED
    BY <2>1, <2>2, <2>3, ContentOfOther DEF IInv
<1>5. ASSUME NEW k \in Key, NEW mode \in Mode \ {"none"}, SetMode(k, mode) PROVE Kept
  <2> DEFINE s == shells[k]
  <2>1. s \in DOMAIN surfaces /\ surfaces[s] \in Surface
    BY <1>5 DEF SetMode, IInv, Types, RolesPaired
  <2>2. surfaces' = [surfaces EXCEPT ![s] = [surfaces[s] EXCEPT !.mode = mode]]
    BY <1>5, <2>1 DEF SetMode
  <2>3. [surfaces[s] EXCEPT !.mode = mode].current = surfaces[s].current
    BY <2>1 DEF Surface
  <2> HIDE DEF s
  <2>4. QED
    BY <2>1, <2>2, <2>3, ContentOfOther DEF IInv
<1>6. ASSUME NEW s \in Key, NEW b \in Key \cup {NoKey}, Attach(s, b) PROVE Kept
  <2>1. s \in DOMAIN surfaces /\ surfaces[s] \in Surface
    BY <1>6, SurfaceExists DEF Attach
  <2>2. surfaces' = [surfaces EXCEPT ![s] = [surfaces[s] EXCEPT !.attached = b]]
    BY <1>6, <2>1 DEF Attach
  <2>3. [surfaces[s] EXCEPT !.attached = b].current = surfaces[s].current
    BY <2>1 DEF Surface
  <2>4. QED
    BY <2>1, <2>2, <2>3, ContentOfOther DEF IInv
<1>7. ASSUME NEW s \in Key, NEW k \in Key, Frame(s, k) PROVE Kept
  <2> DEFINE x == [surfaces[s] EXCEPT !.callbacks = Append(@, k)]
  <2>1. s \in DOMAIN surfaces /\ surfaces[s] \in Surface
    BY <1>7, SurfaceExists DEF Frame
  <2>2. surfaces' = [surfaces EXCEPT ![s] = x]
    BY <1>7, <2>1 DEF Frame
  <2>3. x.current = surfaces[s].current
    BY <2>1 DEF Surface
  <2> HIDE DEF x
  <2>4. QED
    BY <2>1, <2>2, <2>3, ContentOfOther DEF IInv
<1>8. CASE Requests
  <2>1. ASSUME NEW k \in Key, CreateBuffer(k) \/ DestroyBuffer(k) PROVE Kept
    BY <1>1, <2>1 DEF CreateBuffer, DestroyBuffer
  <2>2. ASSUME NEW s \in Key, DestroySurface(s) PROVE Kept
    BY <1>2, <2>2 DEF DestroySurface
  <2>3. QED
    BY <1>3, <1>4, <1>5, <1>6, <1>7, <1>8, <2>1, <2>2 DEF Requests
<1>9. CASE FailBatch \/ \E c \in Client : FlushFails(c)
  BY <1>2, <1>9 DEF FailBatch, FlushFails, RemoveClient
<1>10. CASE (\E c \in Client : StartBatch(c)) \/ EndBatch \/ SubmitUpdate \/ Submitted
  BY <1>1, <1>10 DEF StartBatch, EndBatch, SubmitUpdate, Submitted
<1>11. QED
  BY <1>8, <1>9, <1>10 DEF Next

\* A commit that removes content has no buffer, and queues the surface as unmapped.
LEMMA ContentRemovedByCommit ==
  ASSUME IInv, NEW k \in Key, Commit(k), NEW s \in DOMAIN surfaces,
         surfaces[s].current # NoKey, surfaces'[s].current = NoKey
  PROVE  s = k /\ Push("unmapped", k)
<1>1. k \in DOMAIN surfaces /\ surfaces[k] \in Surface
  BY SurfaceExists DEF Commit
<1>2. surfaces' = [surfaces EXCEPT ![k] = Committed(surfaces[k])]
  BY <1>1 DEF Commit
<1>3. s = k
  BY <1>1, <1>2
<1>4. Committed(surfaces[k]).current =
        IF surfaces[k].attached = Unchanged THEN surfaces[k].current ELSE surfaces[k].attached
  BY <1>1 DEF Committed, Surface
<1>5. surfaces[k].attached = NoKey
  BY <1>1, <1>2, <1>3, <1>4
<1>6. Push("unmapped", k)
  BY <1>5, NoKeyAssumption DEF Commit
<1>7. QED
  BY <1>3, <1>6

\* Whatever requests come in whatever order, with ids reused, failed batches and
\* removed clients: registry, SurfaceManager.surfaces and shell_surfaces agree, so
\* that no handler fails for a surface that is missing.
THEOREM RolesAlwaysPaired == Spec => []RolesPaired
<1>1. IInv => RolesPaired
  BY DEF IInv
<1>2. QED
  BY Invariant, <1>1, PTL

\* A frame callback waits on one surface, once, and its id is still a callback's
\* when done and delete_id are sent (wl_surface.frame, commit, destroy).
THEOREM CallbacksAlwaysOnce == Spec => []CallbacksOnce
<1>1. IInv => CallbacksOnce
  BY DEF IInv
<1>2. QED
  BY Invariant, <1>1, PTL

\* The types of the requests' and of the queue's variables: the pending buffer of a
\* surface, for one, never becomes its content unless one was attached.
THEOREM TypeCorrect == Spec => []TypeOK
<1>1. IInv /\ Queue => TypeOK
  <2> SUFFICES ASSUME IInv, Queue PROVE TypeOK
    OBVIOUS
  <2>1. /\ connected \subseteq Client /\ objects \in [Key -> Interface]
        /\ DOMAIN surfaces \subseteq Key /\ \A s \in DOMAIN surfaces : surfaces[s] \in Surface
        /\ DOMAIN shells \subseteq Key /\ \A h \in DOMAIN shells : shells[h] \in Key
    BY DEF IInv, Types
  <2>2. /\ phase \in {"idle", "reading", "submitting"} /\ batch \in Client \cup {NoClient}
        /\ (batch = NoClient <=> phase = "idle") /\ backed \subseteq Key
        /\ scene \in Key \cup {NoKey} /\ updates \in Seq(Update)
    BY <2>1 DEF Queue, Batches, QueueOfBatch
  <2>3. QED
    BY <2>1, <2>2 DEF TypeOK
<1>2. QED
  BY QueueInvariant, <1>1, PTL

\* However a client goes, with requests of a batch handled and updates queued, it
\* leaves no object, no surface, no update and no frame (remove_client).
THEOREM RemovedAlwaysLeavesNothing == Spec => []RemovedLeavesNothing
<1>1. IInv /\ Queue => RemovedLeavesNothing
  <2> SUFFICES ASSUME IInv, Queue, NEW k \in Key, k[1] \notin connected
               PROVE  /\ objects[k] = "none" /\ k \notin backed
                      /\ k \notin DOMAIN surfaces \cup DOMAIN shells
                      /\ scene # k /\ \A update \in ToSet(updates) : update.surface # k
    BY DEF RemovedLeavesNothing
  <2>1. \A i \in DOMAIN updates : phase # "idle" /\ updates[i].surface[1] = batch
    BY DEF Queue, QueueOfBatch
  <2>2. \A i \in DOMAIN updates : updates[i].surface # k
    BY <2>1, Clients DEF IInv
  <2>3. \A update \in ToSet(updates) : update.surface # k
    BY <2>2 DEF ToSet
  <2>4. QED
    BY <2>3 DEF Queue, GoneLeavesNothing
<1>2. QED
  BY QueueInvariant, <1>1, PTL

\* take_surface_updates and submit_committed_frames hand the updates on in the order
\* in which the commits queued them, whatever the batch was.
THEOREM AlwaysSubmittedInOrder == Spec => SubmittedInOrder
<1>1. IInv /\ Queue /\ [Next]_vars => [phase = "submitting" => Shown' = Shown]_vars
  <2> SUFFICES ASSUME Queue, Next, phase = "submitting" PROVE Shown' = Shown
    BY DEF vars
  <2>1. CASE SubmitUpdate
    BY <2>1, SubmitKeepsOutcome
  <2>2. CASE Submitted
    BY <2>2 DEF Submitted, Shown
  <2>3. SubmitUpdate \/ Submitted
    BY DEF Next, Requests, StartBatch, EndBatch, FailBatch, FlushFails, CreateSurface,
       CreateBuffer, DestroyBuffer, GetShellSurface, SetMode, Attach, Frame, Commit,
       DestroySurface, Register, Request
  <2>4. QED
    BY <2>1, <2>2, <2>3
<1>2. QED
  BY QueueInvariant, <1>1, PTL DEF Spec, SubmittedInOrder

\* A frame leaves the screen by a step of its own client's batch or with the client:
\* the ids of two clients are never taken for each other (remove_surface_frame).
THEOREM OthersFrameAlwaysKept == Spec => OthersFrameKept
<1>1. IInv /\ Queue /\ [Next]_vars =>
        [scene # NoKey /\ scene' = NoKey => scene[1] = batch \/ scene[1] \notin connected']_vars
  <2> SUFFICES ASSUME IInv, Queue, Next, scene # NoKey, scene' = NoKey
               PROVE  scene[1] = batch \/ scene[1] \notin connected'
    BY DEF vars
  <2>1. ASSUME NEW c, RemoveClient(c) PROVE scene[1] \notin connected'
    BY <2>1 DEF RemoveClient, Owned
  <2>2. CASE SubmitUpdate
    BY <2>2, SubmitFacts, NoKeyAssumption DEF Unmap
  <2>3. CASE Requests
    BY <2>3, RequestQueue DEF OwnRequest
  <2>4. CASE (\E c \in Client : StartBatch(c)) \/ EndBatch \/ Submitted
    BY <2>4 DEF StartBatch, EndBatch, Submitted
  <2>5. CASE FailBatch \/ \E c \in Client : FlushFails(c)
    BY <2>1, <2>5 DEF FailBatch, FlushFails
  <2>6. QED
    BY <2>2, <2>3, <2>4, <2>5 DEF Next
<1>2. QED
  BY QueueInvariant, <1>1, PTL DEF Spec, OthersFrameKept

\* A surface whose content a commit removed is not on screen once the batch is
\* submitted, whatever the batch queued before (test null_buffer_unmaps_surface).
THEOREM ContentAlwaysRemoved == Spec => ContentRemoved
<1>1. IInv /\ Queue /\ [Next]_vars =>
        [\A s \in DOMAIN surfaces \cap DOMAIN surfaces' :
           surfaces[s].current # NoKey /\ surfaces'[s].current = NoKey => Shown' # s]_vars
  <2> SUFFICES ASSUME IInv, Queue, Next, NEW s \in DOMAIN surfaces \cap DOMAIN surfaces',
                      surfaces[s].current # NoKey, surfaces'[s].current = NoKey
               PROVE  Shown' # s
    BY DEF vars
  <2>1. PICK k \in Key : Commit(k)
    BY ContentKept
  <2>2. s = k /\ Push("unmapped", k) /\ k[1] = batch
    BY <2>1, ContentRemovedByCommit, RequestFacts DEF Commit
  <2>3. scene' = scene
    BY <2>1 DEF Commit, Request
  <2>4. Shown' = IF Shown = s THEN NoKey ELSE Shown
    BY <2>2, <2>3, OutcomeOfPush DEF Queue
  <2>5. QED
    BY <2>2, <2>4, NoKeyAssumption
<1>2. QED
  BY QueueInvariant, <1>1, PTL DEF Spec, ContentRemoved

----------------------------------------------------------------------------
(* The refinement.                                                         *)

\* The client whose batch is open, and the screen as the other handlers find it.
OpenClient == IF phase = "reading" THEN batch ELSE NoClient
Screen == IF phase = "submitting" THEN Shown ELSE scene

\* Of an empty queue nothing comes.
LEMMA OutcomeOfNothing == ASSUME updates = <<>> PROVE Shown = scene
BY DEF Shown, Outcome

\* Every step stages a surface, publishes what is staged, drops a client or stutters.
LEMMA SceneStep ==
  ASSUME IInv, Queue, Queue', [Next]_vars
  PROVE  Scene!Next \/ UNCHANGED <<connected, OpenClient, Shown, Screen>>
<1>1. CASE UNCHANGED vars
  BY <1>1 DEF vars, OpenClient, Shown, Screen
<1>2. ASSUME NEW c \in Client, StartBatch(c) PROVE Scene!Next
  <2>1. c \in connected /\ connected' = connected /\ OpenClient = NoClient /\ OpenClient' = c
    BY <1>2 DEF StartBatch, OpenClient
  <2>2. Shown' = Shown /\ Screen' = Screen
    BY <1>2 DEF StartBatch, Shown, Screen
  <2>3. Scene!Begin(c)
    BY <2>1, <2>2 DEF Scene!Begin, OpenClient, Screen
  <2>4. QED
    BY <2>1, <2>3 DEF Scene!Next
<1>3. CASE Requests
  <2>1. OwnRequest
    BY <1>3, RequestQueue
  <2>2. UNCHANGED <<connected, OpenClient, Screen, scene>> /\ OpenClient = batch
    BY <2>1 DEF OwnRequest, OpenClient, Screen
  <2>3. CASE UNCHANGED updates
    BY <2>2, <2>3 DEF Shown
  <2>4. ASSUME NEW kind \in {"frame", "unmapped"}, NEW s \in Key, s[1] = batch, Push(kind, s)
        PROVE  Scene!Next \/ UNCHANGED <<connected, OpenClient, Shown, Screen>>
    <3>1. Shown' = IF kind = "frame" THEN s ELSE IF Shown = s THEN NoKey ELSE Shown
      BY <2>2, <2>4, OutcomeOfPush DEF Queue
    <3>2. CASE kind = "frame"
      <4>1. Scene!Show(s)
        BY <2>2, <2>4, <3>1, <3>2 DEF Scene!Show, OpenClient, Screen
      <4>2. QED
        BY <4>1 DEF Scene!Next
    <3>3. CASE kind = "unmapped" /\ Shown = s
      <4>1. Scene!Hide(s)
        BY <2>2, <2>4, <3>1, <3>3 DEF Scene!Hide, OpenClient, Screen
      <4>2. QED
        BY <4>1 DEF Scene!Next
    <3>4. CASE kind = "unmapped" /\ Shown # s
      BY <2>2, <3>1, <3>4
    <3>5. QED
      BY <3>2, <3>3, <3>4
  <2>5. QED
    BY <2>1, <2>3, <2>4 DEF OwnRequest
<1>4. CASE EndBatch
  <2>1. OpenClient # NoClient /\ OpenClient' = NoClient /\ connected' = connected
    BY <1>4 DEF EndBatch, OpenClient, Queue, Batches
  <2>2. Shown' = Shown /\ Screen' = Shown
    BY <1>4 DEF EndBatch, Shown, Screen
  <2>3. Scene!Publish
    BY <2>1, <2>2 DEF Scene!Publish, OpenClient, Screen
  <2>4. QED
    BY <2>3 DEF Scene!Next
<1>5. CASE SubmitUpdate
  <2>1. Shown' = Shown
    BY <1>5, SubmitKeepsOutcome
  <2>2. QED
    BY <1>5, <2>1 DEF SubmitUpdate, OpenClient, Screen
<1>6. CASE Submitted
  <2>1. Shown' = Shown /\ Shown = scene
    BY <1>6, OutcomeOfNothing DEF Submitted, Shown
  <2>2. QED
    BY <1>6, <2>1 DEF Submitted, OpenClient, Screen
<1>7. ASSUME NEW c, RemoveClient(c), phase = "idle" \/ (phase = "reading" /\ c = batch),
             c \in connected
      PROVE  Scene!Next
  <2>1. /\ connected' = connected \ {c} /\ phase' = "idle" /\ phase # "submitting"
        /\ scene' = IF scene \in Owned(c) THEN NoKey ELSE scene
    BY <1>7 DEF RemoveClient
  <2>2. scene \in Owned(c) <=> scene # NoKey /\ scene[1] = c
    BY NoKeyAssumption DEF Owned, Queue, Batches
  <2>3. OpenClient \in {NoClient, c} /\ OpenClient' = NoClient /\ Screen = scene /\ Screen' = scene'
    BY <1>7, <2>1 DEF OpenClient, Screen
  <2>4. updates' = <<>>
    BY <2>1 DEF Queue, QueueOfBatch
  <2>5. Shown' = scene'
    BY <2>4 DEF Shown, Outcome
  <2>6. Scene!Drop(c)
    BY <2>1, <2>2, <2>3, <2>5 DEF Scene!Drop, OpenClient, Screen
  <2>7. QED
    BY <1>7, <2>6 DEF Scene!Next
<1>8. CASE FailBatch
  BY <1>7, <1>8, Clients DEF FailBatch, IInv
<1>9. ASSUME NEW c \in Client, FlushFails(c) PROVE Scene!Next
  BY <1>7, <1>9 DEF FlushFails
<1>10. QED
  BY <1>1, <1>2, <1>3, <1>4, <1>5, <1>6, <1>8, <1>9 DEF Next

\* Whatever a batch holds and wherever it fails, and however long the queue is: the
\* screen changes as if every batch were one step of its client (handle_client_messages).
THEOREM ImplementsSceneBatches == Spec => ScreenSpec
<1>1. Init => Scene!Init
  <2> SUFFICES ASSUME Init PROVE Scene!Init
    OBVIOUS
  <2>1. Shown = NoKey
    BY OutcomeOfNothing DEF Init
  <2>2. QED
    BY <2>1 DEF Init, Scene!Init, Client
<1>2. IInv /\ Queue /\ Queue' /\ [Next]_vars => [Scene!Next]_(Scene!vars)
  BY SceneStep DEF Scene!vars, OpenClient, Screen
<1>3. QED
  BY <1>1, <1>2, QueueInvariant, PTL DEF Spec, ScreenSpec, Scene!Spec
=============================================================================
