------------------------------ MODULE Surfaces ------------------------------
(***************************************************************************)
(* Surfaces and the scene they make: the wl_compositor, wl_surface,        *)
(* wl_shell, wl_shell_surface and wl_buffer request handlers               *)
(* (crates/lumalla_display/src/protocols/wayland.rs), SurfaceManager       *)
(* (surface.rs), the queue of surface updates (lib.rs), the main loop that *)
(* submits it (app.rs) and the renderer's one active surface frame.        *)
(*                                                                         *)
(* The main thread reads a batch of requests of one client, each an        *)
(* action; then it submits the updates that the batch queued, each an      *)
(* action, or, when a request fails, removes the client and its updates.   *)
(* Geometry, damage, regions and pixels are left out; of ShmManager, only  *)
(* which buffers a snapshot can be taken of.                               *)
(***************************************************************************)
EXTENDS Naturals, SequencesExt

CONSTANTS
  Key,           \* the resource keys: a client and an object id of its own
  Use,           \* bound: the interfaces a client uses each of its ids for
  MaxUpdates,    \* bound: the updates that one batch queues
  NoClient,
  NoKey,
  Unchanged      \* the buffer of a commit that attaches none

Interface == {"none", "wl_surface", "wl_shell_surface", "wl_buffer", "wl_callback"}

ASSUME UseAssumption == Use \in [Key -> SUBSET (Interface \ {"none"})]
ASSUME MaxUpdatesAssumption == MaxUpdates \in Nat
ASSUME NoClientAssumption == \A k \in Key : k[1] # NoClient
ASSUME NoKeyAssumption == NoKey \notin Key /\ Unchanged \notin Key \cup {NoKey}

Client == {k[1] : k \in Key}
Id == {k[2] : k \in Key}

VARIABLES
  connected,   \* AppData.connected_clients
  phase,       \* what the main thread does with a client's readable socket
  batch,       \* the client
  objects,     \* the interface each object id is registered with, per client
  backed,      \* the buffers that ShmManager knows
  surfaces,    \* SurfaceManager.surfaces
  shells,      \* SurfaceManager.shell_surfaces: surface of a shell surface
  updates,     \* DisplayState.surface_updates, then the rest to submit
  scene        \* surface of RendererState.active_surface_frame

vars == <<connected, phase, batch, objects, backed, surfaces, shells, updates, scene>>

\* "toplevel" stands for Transient, Fullscreen and Maximized as well.
Mode == {"none", "toplevel", "popup"}

Surface ==
  [role : Key \cup {NoKey}, mode : Mode,
   current : Key \cup {NoKey}, attached : Key \cup {NoKey, Unchanged},
   callbacks : Seq(Key)]

NewSurface ==
  [role |-> NoKey, mode |-> "none", current |-> NoKey, attached |-> Unchanged, callbacks |-> <<>>]

Update == [kind : {"frame", "unmapped"}, surface : Key]

TypeOK ==
  /\ connected \subseteq Client
  /\ phase \in {"idle", "reading", "submitting"}
  /\ batch \in Client \cup {NoClient} /\ (batch = NoClient <=> phase = "idle")
  /\ objects \in [Key -> Interface]
  /\ backed \subseteq Key
  /\ DOMAIN surfaces \subseteq Key /\ \A s \in DOMAIN surfaces : surfaces[s] \in Surface
  /\ DOMAIN shells \subseteq Key /\ \A h \in DOMAIN shells : shells[h] \in Key
  /\ updates \in Seq(Update)
  /\ scene \in Key \cup {NoKey}

Init ==
  /\ connected = Client
  /\ phase = "idle"
  /\ batch = NoClient
  /\ objects = [k \in Key |-> "none"]
  /\ backed = {}
  /\ surfaces = <<>>
  /\ shells = <<>>
  /\ updates = <<>>
  /\ scene = NoKey

\* The function without the keys in S.
Without(f, S) == [k \in DOMAIN f \ S |-> f[k]]

\* The function with key k at v.
With(f, k, v) == [j \in DOMAIN f \cup {k} |-> IF j = k THEN v ELSE f[j]]

----------------------------------------------------------------------------
(* A client's batch of requests.                                           *)

Owned(c) == {k \in Key : k[1] = c}

StartBatch(c) ==
  /\ phase = "idle"
  /\ c \in connected
  /\ phase' = "reading"
  /\ batch' = c
  /\ UNCHANGED <<connected, objects, backed, surfaces, shells, updates, scene>>

\* A request of the batch on an object of the given interface.
Request(k, interface) ==
  /\ phase = "reading"
  /\ k \in Owned(batch)
  /\ objects[k] = interface
  /\ UNCHANGED <<connected, phase, batch, scene>>

\* A new object, on an id that is free.
Register(k, interface) ==
  /\ Request(k, "none")
  /\ interface \in Use[k]
  /\ objects' = [objects EXCEPT ![k] = interface]

Freed(freed) == objects' = [k \in Key |-> IF k \in freed THEN "none" ELSE objects[k]]

CreateSurface(k) ==
  /\ Register(k, "wl_surface")
  /\ surfaces' = With(surfaces, k, NewSurface)
  /\ UNCHANGED <<backed, shells, updates>>

\* The object is registered before the geometry is checked.
CreateBuffer(k) ==
  /\ Register(k, "wl_buffer")
  /\ backed' \in {backed, backed \cup {k}}
  /\ UNCHANGED <<surfaces, shells, updates>>

DestroyBuffer(k) ==
  /\ Request(k, "wl_buffer")
  /\ Freed({k})
  /\ backed' = backed \ {k}
  /\ UNCHANGED <<surfaces, shells, updates>>

\* Mutation: a second role replaces the first.
GetShellSurfaceReplacesRole(k, s) ==
  /\ Request(s, "wl_surface")
  /\ Register(k, "wl_shell_surface")
  /\ surfaces' = [surfaces EXCEPT ![s].role = k]
  /\ shells' = With(shells, k, s)
  /\ UNCHANGED <<backed, updates>>

\* The object is registered before the surface is found to have a role.
GetShellSurface(k, s) ==
  /\ Request(s, "wl_surface")
  /\ Register(k, "wl_shell_surface")
  /\ IF surfaces[s].role = NoKey
     THEN /\ surfaces' = [surfaces EXCEPT ![s].role = k]
          /\ shells' = With(shells, k, s)
     ELSE UNCHANGED <<surfaces, shells>>
  /\ UNCHANGED <<backed, updates>>

\* A shell surface without a surface is refused with an error event.
SetMode(k, mode) ==
  /\ Request(k, "wl_shell_surface")
  /\ k \in DOMAIN shells
  /\ surfaces' = [surfaces EXCEPT ![shells[k]].mode = mode]
  /\ UNCHANGED <<objects, backed, shells, updates>>

\* wl_surface.attach of a buffer, or of none.
Attach(s, b) ==
  /\ Request(s, "wl_surface")
  /\ b = NoKey \/ Request(b, "wl_buffer")
  /\ surfaces' = [surfaces EXCEPT ![s].attached = b]
  /\ UNCHANGED <<objects, backed, shells, updates>>

Frame(s, k) ==
  /\ Request(s, "wl_surface")
  /\ Register(k, "wl_callback")
  /\ surfaces' = [surfaces EXCEPT ![s].callbacks = Append(@, k)]
  /\ UNCHANGED <<backed, shells, updates>>

Push(kind, s) ==
  /\ Len(updates) < MaxUpdates
  /\ updates' = Append(updates, [kind |-> kind, surface |-> s])

Mapped(surface) == surface.current # NoKey /\ surface.mode = "toplevel"

\* The surface once its pending state is its current state.
Committed(surface) ==
  [surface EXCEPT
     !.current = IF surface.attached = Unchanged THEN @ ELSE surface.attached,
     !.attached = Unchanged,
     !.callbacks = <<>>]

\* Mutation: the commit of no buffer queues nothing.
CommitKeepsContent(s) ==
  LET buffer == surfaces[s].attached
      shown == buffer \in Key /\ Mapped(Committed(surfaces[s]))
  IN /\ Request(s, "wl_surface")
     /\ surfaces' = [surfaces EXCEPT ![s] = Committed(@)]
     /\ IF shown /\ buffer \notin backed
        THEN UNCHANGED <<objects, updates>>
        ELSE /\ Freed(ToSet(surfaces[s].callbacks))
             /\ IF shown THEN Push("frame", s) ELSE UNCHANGED updates
     /\ UNCHANGED <<backed, shells>>

\* A mapped surface's new buffer is copied into a frame for the renderer, and the
\* callbacks are answered; a buffer that cannot be copied ends the request.
Commit(s) ==
  LET buffer == surfaces[s].attached
      shown == buffer \in Key /\ Mapped(Committed(surfaces[s]))
  IN /\ Request(s, "wl_surface")
     /\ surfaces' = [surfaces EXCEPT ![s] = Committed(@)]
     /\ IF shown /\ buffer \notin backed
        THEN UNCHANGED <<objects, updates>>
        ELSE /\ Freed(ToSet(surfaces[s].callbacks))
             /\ CASE shown -> Push("frame", s)
                  [] buffer = NoKey -> Push("unmapped", s)
                  [] OTHER -> UNCHANGED updates
     /\ UNCHANGED <<backed, shells>>

\* The callbacks and the shell surface go with the surface.
DestroySurface(s) ==
  LET surface == surfaces[s]
  IN /\ Request(s, "wl_surface")
     /\ surfaces' = Without(surfaces, {s})
     /\ shells' = Without(shells, {surface.role})
     /\ Freed(ToSet(surface.callbacks) \cup {surface.role, s})
     /\ IF Mapped(surface) THEN Push("unmapped", s) ELSE UNCHANGED updates
     /\ UNCHANGED backed

----------------------------------------------------------------------------
(* Submitting, and removing a client.                                      *)

EndBatch ==
  /\ phase = "reading"
  /\ phase' = "submitting"
  /\ UNCHANGED <<connected, batch, objects, backed, surfaces, shells, updates, scene>>

\* Mutation: the surface is looked up by its id alone.
UnmapAnyOwner(s) == IF scene # NoKey /\ scene[2] = s[2] THEN NoKey ELSE scene

\* remove_surface_frame: only the surface on screen can leave it.
Unmap(s) == IF scene = s THEN NoKey ELSE scene

\* Mutation: the newest update first.
SubmitNewestFirst ==
  /\ phase = "submitting" /\ updates # <<>>
  /\ updates' = Front(updates)
  /\ LET update == Last(updates)
     IN scene' = IF update.kind = "frame" THEN update.surface ELSE Unmap(update.surface)
  /\ UNCHANGED <<connected, phase, batch, objects, backed, surfaces, shells>>

SubmitUpdate ==
  /\ phase = "submitting" /\ updates # <<>>
  /\ updates' = Tail(updates)
  /\ LET update == Head(updates)
     IN scene' = IF update.kind = "frame" THEN update.surface ELSE Unmap(update.surface)
  /\ UNCHANGED <<connected, phase, batch, objects, backed, surfaces, shells>>

Submitted ==
  /\ phase = "submitting" /\ updates = <<>>
  /\ phase' = "idle"
  /\ batch' = NoClient
  /\ UNCHANGED <<connected, objects, backed, surfaces, shells, updates, scene>>

\* Mutation: the updates of the removed client are left in the queue.
RemoveClientKeepsUpdates(c) ==
  /\ connected' = connected \ {c}
  /\ Freed(Owned(c))
  /\ backed' = backed \ Owned(c)
  /\ surfaces' = Without(surfaces, Owned(c))
  /\ shells' = Without(shells, Owned(c))
  /\ scene' = IF scene \in Owned(c) THEN NoKey ELSE scene
  /\ phase' = "idle"
  /\ batch' = NoClient
  /\ UNCHANGED updates

\* The updates of the other clients' surfaces, in their order.
OthersUpdates(c) ==
  LET kept == {i \in DOMAIN updates : updates[i].surface \notin Owned(c)}
      order == CHOOSE f \in [1..Cardinality(kept) -> kept] : \A i, j \in DOMAIN f : i < j => f[i] < f[j]
  IN [n \in DOMAIN order |-> updates[order[n]]]

\* remove_client and remove_client_frames.
RemoveClient(c) ==
  /\ connected' = connected \ {c}
  /\ Freed(Owned(c))
  /\ backed' = backed \ Owned(c)
  /\ surfaces' = Without(surfaces, Owned(c))
  /\ shells' = Without(shells, Owned(c))
  /\ updates' = OthersUpdates(c)
  /\ scene' = IF scene \in Owned(c) THEN NoKey ELSE scene
  /\ phase' = "idle"
  /\ batch' = NoClient

\* The connection ended, or a request failed after others were handled.
FailBatch ==
  /\ phase = "reading"
  /\ RemoveClient(batch)

\* Events can no longer be written to the client.
FlushFails(c) ==
  /\ phase = "idle"
  /\ c \in connected
  /\ RemoveClient(c)

----------------------------------------------------------------------------

Requests ==
  \/ \E k \in Key : CreateSurface(k) \/ CreateBuffer(k) \/ DestroyBuffer(k)
  \/ \E k, s \in Key : GetShellSurface(k, s)
  \/ \E k \in Key, mode \in Mode \ {"none"} : SetMode(k, mode)
  \/ \E s \in Key, b \in Key \cup {NoKey} : Attach(s, b)
  \/ \E s, k \in Key : Frame(s, k)
  \/ \E s \in Key : Commit(s)
  \/ \E s \in Key : DestroySurface(s)

Next ==
  \/ \E c \in Client : StartBatch(c)
  \/ Requests
  \/ EndBatch
  \/ SubmitUpdate
  \/ Submitted
  \/ FailBatch
  \/ \E c \in Client : FlushFails(c)

Spec == Init /\ [][Next]_vars

----------------------------------------------------------------------------
(* What the surfaces promise.                                              *)

\* The registry, the surfaces and the shell surfaces tell one story: a surface for
\* each wl_surface object, and roles and shell surfaces that point at each other,
\* so that no handler meets an object whose surface is gone (UnknownSurface).
RolesPaired ==
  /\ DOMAIN surfaces = {k \in Key : objects[k] = "wl_surface"}
  /\ \A h \in DOMAIN shells :
       /\ objects[h] = "wl_shell_surface"
       /\ shells[h] \in DOMAIN surfaces /\ surfaces[shells[h]].role = h
  /\ \A s \in DOMAIN surfaces :
       surfaces[s].role # NoKey =>
         surfaces[s].role \in DOMAIN shells /\ shells[surfaces[s].role] = s

\* A callback waits on one surface, once, and is registered until it is answered or
\* its surface goes: no event is sent to an object of another kind.
CallbacksOnce ==
  /\ \A s \in DOMAIN surfaces :
       /\ IsInjective(surfaces[s].callbacks)
       /\ \A k \in ToSet(surfaces[s].callbacks) : objects[k] = "wl_callback" /\ k[1] = s[1]
  /\ \A s, t \in DOMAIN surfaces :
       s # t => ToSet(surfaces[s].callbacks) \cap ToSet(surfaces[t].callbacks) = {}

\* Whatever a client had queued when it went, it leaves no surface, no update and
\* no frame on screen (remove_client, remove_client_frames).
RemovedLeavesNothing ==
  \A k \in Key : k[1] \notin connected =>
    /\ objects[k] = "none" /\ k \notin backed
    /\ k \notin DOMAIN surfaces \cup DOMAIN shells
    /\ scene # k /\ \A update \in ToSet(updates) : update.surface # k

\* What the updates of a queue leave on screen: the surface of the last frame,
\* unless it is unmapped after it.
Outcome(queue, screen) ==
  LET Frames == {i \in DOMAIN queue : queue[i].kind = "frame"}
      UnmappedAfter(n, s) == \E i \in DOMAIN queue :
                               i > n /\ queue[i].kind = "unmapped" /\ queue[i].surface = s
      s == IF Frames = {} THEN screen ELSE queue[Max(Frames)].surface
      n == IF Frames = {} THEN 0 ELSE Max(Frames)
  IN IF UnmappedAfter(n, s) THEN NoKey ELSE s

\* What will be on screen once the queue is submitted.
Shown == Outcome(updates, scene)

\* Submitting takes the updates in the order of the commits: each step leaves what
\* the queue still leads to as it was (take_surface_updates).
SubmittedInOrder == [][phase = "submitting" => Shown' = Shown]_vars

\* A client may cover the frame of another, never take it off the screen.
OthersFrameKept ==
  [][scene # NoKey /\ scene' = NoKey => scene[1] = batch \/ scene[1] \notin connected']_vars

\* A commit that removes a surface's content takes it off the screen, at the latest
\* when its batch is submitted (test null_buffer_unmaps_surface).
ContentRemoved ==
  [][\A s \in DOMAIN surfaces \cap DOMAIN surfaces' :
       surfaces[s].current # NoKey /\ surfaces'[s].current = NoKey => Shown' # s]_vars

\* The screen as every handler of the main thread but the batch's own finds it.
Scene == INSTANCE SceneBatches WITH
  client <- IF phase = "reading" THEN batch ELSE NoClient,
  staged <- Shown,
  screen <- IF phase = "submitting" THEN Shown ELSE scene

\* Pending states, the queue of updates and their submission one by one make the
\* screen change a batch at a time, or not at all when its client is removed.
ScreenSpec == Scene!Spec
=============================================================================
