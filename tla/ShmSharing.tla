----------------------------- MODULE ShmSharing -----------------------------
(***************************************************************************)
(* What shared-memory pools promise, without counts or slots to reuse: a   *)
(* mapping lives exactly as long as a pool object or a buffer refers to    *)
(* it, a buffer keeps the mapping of the pool it was made from, and a new  *)
(* pool gets a mapping that nothing refers to.                             *)
(***************************************************************************)
EXTENDS Naturals

CONSTANT Key      \* client and object id of a pool or a buffer

VARIABLES
  pool,      \* mapping of each pool object, 0 for none
  buffer,    \* mapping of each buffer, 0 for none
  mapped     \* the mappings that are alive

vars == <<pool, buffer, mapped>>

Init ==
  /\ pool = [k \in Key |-> 0]
  /\ buffer = [k \in Key |-> 0]
  /\ mapped = {}

\* The mappings that an object refers to, by the given pools and buffers.
Referenced(p, b) == ({p[k] : k \in Key} \cup {b[k] : k \in Key}) \ {0}

\* A pool object gets a mapping of its own.
Map(k) ==
  /\ pool[k] = 0
  /\ pool'[k] \notin mapped \cup {0}
  /\ pool' = [pool EXCEPT ![k] = pool'[k]]
  /\ mapped' = mapped \cup {pool'[k]}
  /\ UNCHANGED buffer

\* A buffer shares the mapping of a pool object.
Share(b, p) ==
  /\ pool[p] # 0
  /\ buffer[b] = 0
  /\ buffer' = [buffer EXCEPT ![b] = pool[p]]
  /\ UNCHANGED <<pool, mapped>>

DropPool(k) ==
  /\ pool' = [pool EXCEPT ![k] = 0]
  /\ mapped' = Referenced(pool', buffer)
  /\ UNCHANGED buffer

DropBuffer(k) ==
  /\ buffer' = [buffer EXCEPT ![k] = 0]
  /\ mapped' = Referenced(pool, buffer')
  /\ UNCHANGED pool

Next ==
  \/ \E k \in Key : Map(k) \/ DropPool(k) \/ DropBuffer(k)
  \/ \E b, p \in Key : Share(b, p)

Spec == Init /\ [][Next]_vars
=============================================================================
