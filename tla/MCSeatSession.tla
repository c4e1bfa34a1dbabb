--------------------------- MODULE MCSeatSession ---------------------------
(* SeatSession with the instances of its cfg files. *)
EXTENDS SeatSession
============================================================================
