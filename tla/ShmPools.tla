------------------------------ MODULE ShmPools ------------------------------
(***************************************************************************)
(* Shared-memory pools and buffers: the wl_shm, wl_shm_pool and wl_buffer  *)
(* request handlers (crates/lumalla_display/src/protocols/wayland.rs), the *)
(* client's object registry as they use it, and ShmManager (shm.rs): a     *)
(* vector of mapped pools with reference counts and a stack of free slots. *)
(*                                                                         *)
(* One thread runs the handlers, each an action.  Removing a client walks  *)
(* its buffers and then its pools in the order a hash map happens to give; *)
(* each visit is an action, and no other can happen until the walk ends.   *)
(***************************************************************************)
EXTENDS Integers, FiniteSets, SequencesExt

CONSTANTS
  Key,           \* the resource keys: a client and an object id of its own
  Size,          \* pool sizes a client asks for, in bytes
  Shape,         \* buffer geometries a client asks for
  NoClient

ASSUME KeyAssumption == IsFiniteSet(Key)
ASSUME SizeAssumption == Size \subseteq Int
ASSUME ShapeAssumption ==
  Shape \subseteq [offset : Int, width : Int, height : Int, stride : Int]
ASSUME NoClientAssumption == \A k \in Key : k[1] # NoClient

BytesPerPixel == 4

Client == {k[1] : k \in Key}

VARIABLES
  objects,      \* the interface each object id is registered with, per client
  pools,        \* ShmManager.pools: size and reference count of each slot
  poolIndex,    \* ShmManager.pool_index: slot of a pool object, 0 for none
  freeIndexes,  \* ShmManager.free_pool_indexes, the last pushed first
  buffers,      \* ShmManager.buffers: slot and shape of a buffer object
  removing      \* client whose resources are being deleted

vars == <<objects, pools, poolIndex, freeIndexes, buffers, removing>>

NoPool == [size |-> 0, refs |-> 0]
NoShape == [offset |-> 0, width |-> 0, height |-> 0, stride |-> 0]
NoBuffer == [pool |-> 0, shape |-> NoShape]

Interface == {"none", "wl_shm_pool", "wl_buffer"}
ShapeType == [offset : Int, width : Int, height : Int, stride : Int]

TypeOK ==
  /\ objects \in [Key -> Interface]
  /\ pools \in Seq([size : Nat, refs : Nat])
  /\ poolIndex \in [Key -> Nat]
  /\ freeIndexes \in Seq(Nat)
  /\ buffers \in [Key -> [pool : Nat, shape : ShapeType]]
  /\ removing \in Client \cup {NoClient}

Init ==
  /\ objects = [k \in Key |-> "none"]
  /\ pools = <<>>
  /\ poolIndex = [k \in Key |-> 0]
  /\ freeIndexes = <<>>
  /\ buffers = [k \in Key |-> NoBuffer]
  /\ removing = NoClient

----------------------------------------------------------------------------
(* ShmManager.                                                             *)

\* A slot of the vector that holds a pool.
Alive(i) == i \in DOMAIN pools /\ pools[i].refs > 0

\* Mutation: a slot is taken from the free list and left on it.
MapPoolKeepsSlotFree(k, size) ==
  LET pool == [size |-> size, refs |-> 1]
  IN IF freeIndexes # <<>>
     THEN /\ pools' = [pools EXCEPT ![Head(freeIndexes)] = pool]
          /\ poolIndex' = [poolIndex EXCEPT ![k] = Head(freeIndexes)]
          /\ UNCHANGED freeIndexes
     ELSE /\ pools' = Append(pools, pool)
          /\ poolIndex' = [poolIndex EXCEPT ![k] = Len(pools) + 1]
          /\ UNCHANGED freeIndexes

\* A new pool takes the slot freed last, or extends the vector.
MapPool(k, size) ==
  LET pool == [size |-> size, refs |-> 1]
  IN IF freeIndexes # <<>>
     THEN /\ pools' = [pools EXCEPT ![Head(freeIndexes)] = pool]
          /\ poolIndex' = [poolIndex EXCEPT ![k] = Head(freeIndexes)]
          /\ freeIndexes' = Tail(freeIndexes)
     ELSE /\ pools' = Append(pools, pool)
          /\ poolIndex' = [poolIndex EXCEPT ![k] = Len(pools) + 1]
          /\ UNCHANGED freeIndexes

\* Mutation: the first release unmaps the pool.
ReleasePoolAtOnce(i) ==
  IF Alive(i)
  THEN /\ pools' = [pools EXCEPT ![i] = NoPool]
       /\ freeIndexes' = <<i>> \o freeIndexes
  ELSE UNCHANGED <<pools, freeIndexes>>

\* release_pool: the last reference unmaps the pool and frees its slot.
ReleasePool(i) ==
  IF Alive(i)
  THEN IF pools[i].refs = 1
       THEN /\ pools' = [pools EXCEPT ![i] = NoPool]
            /\ freeIndexes' = <<i>> \o freeIndexes
       ELSE /\ pools' = [pools EXCEPT ![i].refs = @ - 1]
            /\ UNCHANGED freeIndexes
  ELSE UNCHANGED <<pools, freeIndexes>>

DeletePool(k) ==
  /\ poolIndex' = [poolIndex EXCEPT ![k] = 0]
  /\ IF poolIndex[k] # 0 THEN ReleasePool(poolIndex[k]) ELSE UNCHANGED <<pools, freeIndexes>>

\* Mutation: the buffer's reference to its pool is not given back.
DeleteBufferKeepsReference(k) ==
  /\ buffers' = [buffers EXCEPT ![k] = NoBuffer]
  /\ UNCHANGED <<pools, freeIndexes>>

DeleteBuffer(k) ==
  /\ buffers' = [buffers EXCEPT ![k] = NoBuffer]
  /\ IF buffers[k].pool # 0
     THEN ReleasePool(buffers[k].pool)
     ELSE UNCHANGED <<pools, freeIndexes>>

RowBytes(shape) == shape.width * BytesPerPixel

\* The first byte after the last pixel.
End(shape) == shape.offset + (shape.height - 1) * shape.stride + RowBytes(shape)

\* The geometry checks of create_buffer.
ValidShape(shape) ==
  /\ shape.offset >= 0
  /\ shape.width > 0
  /\ shape.height > 0
  /\ shape.stride >= RowBytes(shape)

----------------------------------------------------------------------------
(* Requests.                                                               *)

Idle == removing = NoClient

\* wl_shm.create_pool: the object is registered whether or not the descriptor,
\* the size and the mapping are good.
CreatePool(k, size) ==
  /\ Idle
  /\ objects[k] = "none"
  /\ objects' = [objects EXCEPT ![k] = "wl_shm_pool"]
  /\ \/ UNCHANGED <<pools, poolIndex, freeIndexes>>
     \/ /\ size > 0
        /\ poolIndex[k] = 0
        /\ MapPool(k, size)
  /\ UNCHANGED <<buffers, removing>>

DestroyPool(k) ==
  /\ Idle
  /\ objects[k] = "wl_shm_pool"
  /\ objects' = [objects EXCEPT ![k] = "none"]
  /\ DeletePool(k)
  /\ UNCHANGED <<buffers, removing>>

\* Mutation: a pool may shrink.
ResizePoolEitherWay(k, size) ==
  /\ Idle
  /\ objects[k] = "wl_shm_pool"
  /\ Alive(poolIndex[k])
  /\ size > 0 /\ size # pools[poolIndex[k]].size
  /\ pools' = [pools EXCEPT ![poolIndex[k]].size = size]
  /\ UNCHANGED <<objects, poolIndex, freeIndexes, buffers, removing>>

\* A pool only grows; a file that is too small leaves it as it is.
ResizePool(k, size) ==
  /\ Idle
  /\ objects[k] = "wl_shm_pool"
  /\ Alive(poolIndex[k])
  /\ size > pools[poolIndex[k]].size
  /\ pools' = [pools EXCEPT ![poolIndex[k]].size = size]
  /\ UNCHANGED <<objects, poolIndex, freeIndexes, buffers, removing>>

\* wl_shm_pool.create_buffer on pool p: registered first, like a pool.
CreateBuffer(p, b, shape) ==
  /\ Idle
  /\ p[1] = b[1]
  /\ objects[p] = "wl_shm_pool"
  /\ objects[b] = "none"
  /\ objects' = [objects EXCEPT ![b] = "wl_buffer"]
  /\ \/ UNCHANGED <<pools, buffers>>
     \/ /\ ValidShape(shape)
        /\ Alive(poolIndex[p])
        /\ End(shape) <= pools[poolIndex[p]].size
        /\ buffers[b].pool = 0
        /\ pools' = [pools EXCEPT ![poolIndex[p]].refs = @ + 1]
        /\ buffers' = [buffers EXCEPT ![b] = [pool |-> poolIndex[p], shape |-> shape]]
  /\ UNCHANGED <<poolIndex, freeIndexes, removing>>

DestroyBuffer(k) ==
  /\ Idle
  /\ objects[k] = "wl_buffer"
  /\ objects' = [objects EXCEPT ![k] = "none"]
  /\ DeleteBuffer(k)
  /\ UNCHANGED <<poolIndex, removing>>

----------------------------------------------------------------------------
(* Removing a client.                                                      *)

Owned(c) == {k \in Key : k[1] = c}

\* The connection goes with its registry.
RemoveClient(c) ==
  /\ Idle
  /\ removing' = c
  /\ UNCHANGED <<objects, pools, poolIndex, freeIndexes, buffers>>

RemoveClientBuffer(k) ==
  /\ k[1] = removing
  /\ buffers[k].pool # 0
  /\ DeleteBuffer(k)
  /\ UNCHANGED <<objects, poolIndex, removing>>

RemoveClientPool(k) ==
  /\ k[1] = removing
  /\ \A b \in Owned(removing) : buffers[b].pool = 0
  /\ poolIndex[k] # 0
  /\ DeletePool(k)
  /\ UNCHANGED <<objects, buffers, removing>>

\* Mutation: only the buffers are deleted.
ClientRemovedKeepsPools ==
  /\ removing \in Client
  /\ \A k \in Owned(removing) : buffers[k].pool = 0
  /\ objects' = [k \in Key |-> IF k[1] = removing THEN "none" ELSE objects[k]]
  /\ removing' = NoClient
  /\ UNCHANGED <<pools, poolIndex, freeIndexes, buffers>>

ClientRemoved ==
  /\ removing \in Client
  /\ \A k \in Owned(removing) : buffers[k].pool = 0 /\ poolIndex[k] = 0
  /\ objects' = [k \in Key |-> IF k[1] = removing THEN "none" ELSE objects[k]]
  /\ removing' = NoClient
  /\ UNCHANGED <<pools, poolIndex, freeIndexes, buffers>>

----------------------------------------------------------------------------

Next ==
  \/ \E k \in Key, size \in Size : CreatePool(k, size)
  \/ \E k \in Key, size \in Size : ResizePool(k, size)
  \/ \E p, b \in Key, shape \in Shape : CreateBuffer(p, b, shape)
  \/ \E k \in Key : DestroyPool(k)
  \/ \E k \in Key : DestroyBuffer(k)
  \/ \E c \in Client : RemoveClient(c)
  \/ \E k \in Key : RemoveClientBuffer(k)
  \/ \E k \in Key : RemoveClientPool(k)
  \/ ClientRemoved

Spec == Init /\ [][Next]_vars

----------------------------------------------------------------------------
(* What the pools promise.                                                 *)

\* The objects that may keep a slot in use: a wl_shm_pool or a wl_buffer.
Holder == {"pool", "buffer"} \X Key

SlotOf(h) == IF h[1] = "pool" THEN poolIndex[h[2]] ELSE buffers[h[2]].pool

Holders(i) == {h \in Holder : SlotOf(h) = i}

\* The count of each slot is the number of objects that refer to it, so a pool
\* is unmapped when its last buffer goes and not before
\* (test buffer_keeps_destroyed_pool_alive), and no object refers to a dead slot.
RefsExact ==
  /\ \A i \in DOMAIN pools : pools[i].refs = Cardinality(Holders(i))
  /\ \A h \in Holder : SlotOf(h) \in DOMAIN pools \cup {0}

\* The free list names each dead slot once and no other: a slot is never handed
\* to two pools (create_pool, release_pool).
FreeListExact ==
  /\ IsInjective(freeIndexes)
  /\ Range(freeIndexes) = {i \in DOMAIN pools : ~Alive(i)}

\* Every row that a snapshot reads lies in its pool's mapping, whatever resizes
\* and destroys came between (snapshot_buffer slices without a check).
SnapshotInBounds ==
  \A k \in Key : buffers[k].pool # 0 =>
    LET shape == buffers[k].shape
    IN \A row \in 0..shape.height - 1 :
         LET start == shape.offset + row * shape.stride
         IN 0 <= start /\ start + RowBytes(shape) <= pools[buffers[k].pool].size

\* A client that is gone leaves nothing behind: resources belong to objects its
\* registry knows (test deleting_client_releases_all_resources).
ResourcesRegistered ==
  \A k \in Key :
    /\ poolIndex[k] # 0 => objects[k] = "wl_shm_pool"
    /\ buffers[k].pool # 0 => objects[k] = "wl_buffer"

\* A mapping lives exactly as long as an object refers to it.
Sharing == INSTANCE ShmSharing WITH
  pool <- poolIndex,
  buffer <- [k \in Key |-> buffers[k].pool],
  mapped <- {i \in DOMAIN pools : Alive(i)}

\* Slots, counts and the free list implement sharing by reachability.
SharingSpec == Sharing!Spec
============================================================================
