----------------------------- MODULE MCShmPools -----------------------------
(* ShmPools with two clients.  Of the three geometries one starts inside its  *)
(* pool, one has two rows, and one has rows that overlap and is refused.       *)
EXTENDS ShmPools

MCShape ==
  {[offset |-> 4, width |-> 1, height |-> 1, stride |-> 4],
   [offset |-> 0, width |-> 1, height |-> 2, stride |-> 5],
   [offset |-> 0, width |-> 2, height |-> 1, stride |-> 4]}

MCSize == {-1, 8, 9}

CONSTANTS c1, c2

MCKey == {<<c1, 1>>, <<c1, 2>>, <<c1, 3>>, <<c2, 1>>}
=============================================================================
