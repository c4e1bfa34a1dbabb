----------------------------- MODULE MCRegistry -----------------------------
(* The registry with one client that has five ids next to the display, enough *)
(* for the longest chain of factories and a second registry, and another       *)
(* client with a registry alone.                                               *)
EXTENDS Registry

CONSTANTS c1, c2

MCUse ==
  [c \in {c1, c2} |-> [n \in 1 .. 6 |->
     CASE n = 2 -> {"wl_registry"}
       [] c = c2 -> {}
       [] n = 3 -> {"wl_compositor", "wl_shm", "wl_registry"}
       [] n = 4 -> {"wl_shell", "wl_seat", "wl_surface", "wl_shm_pool"}
       [] n = 5 -> {"wl_surface", "wl_keyboard", "wl_buffer", "wl_region", "wl_callback"}
       [] n = 6 -> {"wl_shell_surface", "wl_callback", "wl_region"}
       [] OTHER -> {}]]
=============================================================================
