----------------------------- MODULE MCSurfaces -----------------------------
(* Surfaces with one client that has three object ids, enough for a surface,  *)
(* its shell surface and a buffer, and another with one, the same as one of    *)
(* the first.                                                                  *)
EXTENDS Surfaces

CONSTANTS c1, c2

MCKey == {<<c1, 1>>, <<c1, 2>>, <<c1, 3>>, <<c2, 1>>}

MCUse ==
  [k \in MCKey |->
     CASE k[2] = 1 -> {"wl_surface"}
       [] k[2] = 2 -> {"wl_shell_surface", "wl_surface", "wl_callback"}
       [] k[2] = 3 -> {"wl_buffer", "wl_callback", "wl_shell_surface"}]
=============================================================================
