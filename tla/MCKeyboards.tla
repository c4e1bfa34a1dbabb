---------------------------- MODULE MCKeyboards ----------------------------
(* Keyboards with a client, both keys of a modifier and one of another, a key that *)
(* the compositor keeps for itself and one with a binding.                         *)
EXTENDS Keyboards

CONSTANT c1

MCKey == {<<c1, 1>>, <<c1, 2>>, <<c1, 3>>}

\* Two surfaces and a keyboard, or a surface and two keyboards.
MCUse ==
  [k \in MCKey |-> CASE k = <<c1, 1>> -> {"wl_surface"}
                     [] k = <<c1, 2>> -> {"wl_surface", "wl_keyboard"}
                     [] k = <<c1, 3>> -> {"wl_keyboard"}]

MCModifier ==
  [key \in KeyCode |-> CASE key \in {"leftctrl", "rightctrl"} -> "ctrl"
                         [] key = "leftalt" -> "alt"
                         [] OTHER -> "none"]

\* Each key alone, both ctrl keys, and a VT switch with its keys in either order.
MCChord ==
  {{key} : key \in KeyCode} \cup
  {{"leftctrl", "rightctrl"}, {"leftctrl", "f2"}, {"leftctrl", "leftalt"},
   {"leftctrl", "leftalt", "f2"}}

MCBinding == {[key |-> "f2", mods |-> {"ctrl"}]}
=============================================================================
