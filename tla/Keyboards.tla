----------------------------- MODULE Keyboards -----------------------------
(***************************************************************************)
(* The way of a key: libinput's queue, the key handler of InputState with  *)
(* its two records of modifiers (crates/lumalla_input/src/lib.rs), the     *)
(* focus of SeatManager (crates/lumalla_display/src/seat.rs) and what each *)
(* wl_keyboard of a client has been told.                                  *)
(*                                                                         *)
(* The main thread handles one request or one event at a time.  Of a       *)
(* surface, only whether it exists and is mapped matters (module           *)
(* Surfaces); SeatSession says when the seat is enabled and disabled and   *)
(* Lifecycle how the bindings are made and that a request to shut down is  *)
(* acted on.  Latched and locked modifiers, layouts, key repeat and        *)
(* serials are left out.                                                   *)
(***************************************************************************)
EXTENDS Naturals, SequencesExt

CONSTANTS
  Key,         \* the resource keys: a client and an object id of its own
  Use,         \* bound: the interfaces a client uses each of its ids for
  NoKey,
  KeyCode,     \* the keys of the keyboard
  Modifier,    \* the modifier that a key stands for, or "none"
  FnKey,       \* KEY_F1 to KEY_F12, as far as the keyboard has them
  F1,          \* KEY_F1
  Binding,     \* InputState.keymaps: the key bindings that the config made
  Chord,       \* bound: the sets of keys that a press completes
  MaxQueue     \* bound: events waiting in libinput

Interface == {"none", "wl_surface", "wl_keyboard"}
Mod == {"ctrl", "alt", "shift", "logo"}

ASSUME UseAssumption == Use \in [Key -> SUBSET (Interface \ {"none"})]
ASSUME NoKeyAssumption == NoKey \notin Key
ASSUME KeyCodeAssumption == IsFiniteSet(KeyCode)
ASSUME ModifierAssumption == Modifier \in [KeyCode -> Mod \cup {"none"}]
ASSUME FnKeyAssumption == FnKey \subseteq KeyCode
ASSUME BindingAssumption == Binding \subseteq [key : KeyCode, mods : SUBSET Mod]
ASSUME BoundsAssumption == Chord \subseteq SUBSET KeyCode /\ MaxQueue \in Nat

Client == {k[1] : k \in Key}

VARIABLES
  sensing,     \* libinput: its devices are open
  reported,    \* libinput: keys it has seen pressed
  queue,       \* libinput: key events that wait
  suspended,   \* LibInput.suspended
  phase,       \* the main thread: idle, or in dispatch with or without its clients
  xkb,         \* Xkb.state: the keys that are down
  mods,        \* InputState.mods
  missed,      \* history: held modifiers whose flag was cleared all the same
  sent,        \* what the last key event sent to the main and D-Bus channels
  connected,   \* AppData.connected_clients
  objects,     \* the interface each object id is registered with, per client
  mapped,      \* the surfaces that are mapped
  keymap,      \* SeatManager.keymap is there
  modifiers,   \* SeatManager.modifiers
  focus,       \* the focus of each of SeatManager.keyboards
  logical      \* the logical state of a client's wl_keyboard, by the events sent

inputVars == <<sensing, reported, queue, suspended, phase, xkb, mods, missed, sent>>
clientVars == <<connected, objects, mapped, keymap, modifiers, focus, logical>>
vars == <<inputVars, clientVars>>

KeyEvent == [key : KeyCode, pressed : BOOLEAN]
Phase == {"idle", "forwarding", "draining"}
Message == [main : {"SwitchVt", "Shutdown"}] \cup [dbus : Binding]
Logical == [active : Key \cup {NoKey}, down : SUBSET KeyCode, mods : SUBSET Mod]

TypeOK ==
  /\ sensing \in BOOLEAN /\ suspended \in BOOLEAN /\ keymap \in BOOLEAN
  /\ reported \subseteq KeyCode /\ xkb \subseteq KeyCode
  /\ queue \in Seq(KeyEvent)
  /\ phase \in Phase
  /\ mods \subseteq Mod /\ missed \subseteq Mod /\ modifiers \subseteq Mod
  /\ sent \subseteq Message
  /\ connected \subseteq Client
  /\ objects \in [Key -> Interface]
  /\ mapped \subseteq Key
  /\ DOMAIN focus \subseteq Key /\ \A k \in DOMAIN focus : focus[k] \in Key \cup {NoKey}
  /\ logical \in [Key -> Logical]

\* What a wl_keyboard is before its first event.
Unfocused == [active |-> NoKey, down |-> {}, mods |-> {}]

Init ==
  /\ sensing = FALSE /\ suspended = TRUE
  /\ reported = {} /\ queue = <<>> /\ xkb = {} /\ mods = {} /\ missed = {}
  /\ phase = "idle"
  /\ sent = {}
  /\ connected = Client
  /\ objects = [k \in Key |-> "none"]
  /\ mapped = {}
  /\ keymap \in BOOLEAN
  /\ modifiers = {}
  /\ focus = <<>>
  /\ logical = [k \in Key |-> Unfocused]

Mods(down) == {m \in Mod : \E key \in down : Modifier[key] = m}

Keyboards == {k \in DOMAIN focus : k[1] \in connected}
Focused == {k \in Keyboards : focus[k] # NoKey}

----------------------------------------------------------------------------
(* libinput: keys, and the seat's enable and disable.                      *)

PressKey(key) ==
  /\ phase = "idle" /\ sensing /\ Len(queue) < MaxQueue
  /\ key \notin reported /\ reported \cup {key} \in Chord
  /\ reported' = reported \cup {key}
  /\ queue' = Append(queue, [key |-> key, pressed |-> TRUE])
  /\ UNCHANGED <<sensing, suspended, phase, xkb, mods, missed, sent, clientVars>>

ReleaseKey(key) ==
  /\ phase = "idle" /\ sensing /\ Len(queue) < MaxQueue
  /\ key \in reported
  /\ reported' = reported \ {key}
  /\ queue' = Append(queue, [key |-> key, pressed |-> FALSE])
  /\ UNCHANGED <<sensing, suspended, phase, xkb, mods, missed, sent, clientVars>>

\* libinput releases the keys that it has seen pressed when it closes the devices.
ReleaseEvents(keys) ==
  {[n \in DOMAIN order |-> [key |-> order[n], pressed |-> FALSE]] :
     order \in {s \in [1..Cardinality(keys) -> keys] : IsInjective(s)}}

\* Mutation: the flags are left as they were.
ResetXkbOnly == xkb' = {} /\ missed' = {} /\ UNCHANGED mods

\* Both records of the modifiers start anew.
ResetModifiers == xkb' = {} /\ missed' = {} /\ mods' = {}

\* The result that libinput_suspend is bound with is not one that it returns: the
\* call may seem to fail, and then neither the flag is set nor the queue emptied.
Suspend ==
  /\ sensing' = FALSE
  /\ reported' = {}
  /\ \E events \in ReleaseEvents(reported) : queue' = queue \o events
  /\ suspended' \in BOOLEAN
  /\ phase' = IF suspended' THEN "draining" ELSE "idle"

\* A reset of xkb that fails, for want of memory, ends the handler with the flags
\* cleared and the keys still down.
DisableSeat ==
  /\ phase = "idle"
  /\ sent' = {}
  /\ \/ /\ mods' = {} /\ missed' = Mods(xkb)
        /\ UNCHANGED <<sensing, reported, queue, suspended, phase, xkb>>
     \/ /\ ResetModifiers
        /\ suspended /\ phase' = "draining"
        /\ UNCHANGED <<sensing, reported, queue, suspended>>
     \/ ResetModifiers /\ ~suspended /\ Suspend
  /\ UNCHANGED clientVars

\* A resume that is refused ends the handler.
EnableSeat ==
  /\ phase = "idle"
  /\ \/ suspended /\ sensing' = TRUE /\ suspended' = FALSE /\ phase' = "draining"
     \/ suspended /\ UNCHANGED <<sensing, suspended, phase>>
     \/ ~suspended /\ phase' = "draining" /\ UNCHANGED <<sensing, suspended>>
  /\ sent' = {}
  /\ UNCHANGED <<reported, queue, xkb, mods, missed, clientVars>>

----------------------------------------------------------------------------
(* InputState.dispatch and the handlers of its events.                     *)

StartDispatch ==
  /\ phase = "idle" /\ queue # <<>>
  /\ phase' = "forwarding"
  /\ sent' = {}
  /\ UNCHANGED <<sensing, reported, queue, suspended, xkb, mods, missed, clientVars>>

Dispatched ==
  /\ phase # "idle" /\ queue = <<>>
  /\ phase' = "idle"
  /\ sent' = {}
  /\ UNCHANGED <<sensing, reported, queue, suspended, xkb, mods, missed, clientVars>>

SwitchesVt(key) == {"ctrl", "alt"} \subseteq mods /\ key \in FnKey

\* Mutation: the releases of their keys go no further either.
SwallowedWithRelease(event) == SwitchesVt(event.key) \/ event.key = F1

\* The presses that go no further.
Swallowed(event) == event.pressed /\ (SwitchesVt(event.key) \/ event.key = F1)

SwallowKey ==
  /\ phase # "idle" /\ queue # <<>> /\ Swallowed(Head(queue))
  /\ queue' = Tail(queue)
  /\ sent' = {[main |-> IF SwitchesVt(Head(queue).key) THEN "SwitchVt" ELSE "Shutdown"]}
  /\ UNCHANGED <<sensing, reported, suspended, phase, xkb, mods, missed, clientVars>>

Updated(keys, event) == IF event.pressed THEN keys \cup {event.key} ELSE keys \ {event.key}

\* Both keys of a modifier set and clear one flag.
UpdateModifier(event) ==
  LET m == Modifier[event.key]
  IN mods' = IF m = "none" THEN mods
             ELSE IF event.pressed THEN mods \cup {m} ELSE mods \ {m}

\* The flag of a modifier goes down with one of its keys, though another is held.
UpdateMissed(event) ==
  LET m == Modifier[event.key]
      held == \E key \in xkb \ {event.key} : Modifier[key] = m
  IN missed' = IF m = "none" THEN missed
               ELSE IF ~event.pressed /\ held THEN missed \cup {m} ELSE missed \ {m}

\* Mutation: a key event goes to the keyboards whose focus is mapped.
SendKeyToMapped(event) ==
  [k \in Key |-> IF k \in Focused /\ focus[k] \in mapped
                 THEN [logical[k] EXCEPT !.down = Updated(@, event)] ELSE logical[k]]

\* A key event goes to every keyboard with a focus.
SendKey(event) ==
  [k \in Key |-> IF k \in Focused
                 THEN [logical[k] EXCEPT !.down = Updated(@, event)] ELSE logical[k]]

\* Mutation: a modifiers event goes to the focused keyboards only.
SendModifiersToFocused(states, m) ==
  [k \in Key |-> IF k \in Focused THEN [states[k] EXCEPT !.mods = m] ELSE states[k]]

\* A modifiers event goes to every keyboard.
SendModifiers(states, m) ==
  [k \in Key |-> IF k \in Keyboards THEN [states[k] EXCEPT !.mods = m] ELSE states[k]]

\* Clients are told of the key and the modifiers as xkb has them; a binding is found
\* by the flags.
HandleKey ==
  /\ phase # "idle" /\ queue # <<>> /\ ~Swallowed(Head(queue))
  /\ queue' = Tail(queue)
  /\ LET event == Head(queue)
     IN /\ xkb' = Updated(xkb, event)
        /\ UpdateModifier(event)
        /\ UpdateMissed(event)
        /\ sent' = IF event.pressed /\ Modifier[event.key] = "none"
                   THEN {[dbus |-> b] : b \in {c \in Binding : c.key = event.key /\ c.mods = mods}}
                   ELSE {}
        /\ IF phase = "draining" THEN UNCHANGED <<modifiers, logical>>
           ELSE IF Mods(xkb') = Mods(xkb)
           THEN logical' = SendKey(event) /\ UNCHANGED modifiers
           ELSE /\ modifiers' = Mods(xkb')
                /\ logical' = SendModifiers(SendKey(event), Mods(xkb'))
  /\ UNCHANGED <<sensing, reported, suspended, phase>>
  /\ UNCHANGED <<connected, objects, mapped, keymap, focus>>

----------------------------------------------------------------------------
(* The clients' requests.                                                  *)

\* A request on an object of the given interface.
Request(k, interface) ==
  /\ phase = "idle"
  /\ k[1] \in connected
  /\ objects[k] = interface
  /\ UNCHANGED <<inputVars, connected, keymap, modifiers>>

Register(k, interface) ==
  /\ Request(k, "none")
  /\ interface \in Use[k]
  /\ objects' = [objects EXCEPT ![k] = interface]

CreateSurface(s) ==
  /\ Register(s, "wl_surface")
  /\ UNCHANGED <<mapped, focus, logical>>

\* A commit or another role's mode maps or unmaps the surface.
Remap(s) ==
  /\ Request(s, "wl_surface")
  /\ mapped' = IF s \in mapped THEN mapped \ {s} ELSE mapped \cup {s}
  /\ UNCHANGED <<objects, focus, logical>>

DestroySurface(s) ==
  /\ Request(s, "wl_surface")
  /\ objects' = [objects EXCEPT ![s] = "none"]
  /\ mapped' = mapped \ {s}
  /\ UNCHANGED <<focus, logical>>

\* Mutation: the keyboards with another focus are moved too.
FocusAll(s) ==
  LET moved == {k \in DOMAIN focus : k[1] = s[1]}
  IN /\ focus' = [k \in DOMAIN focus |-> IF k \in moved THEN s ELSE focus[k]]
     /\ logical' = [k \in Key |-> IF k \in moved
                                  THEN [active |-> s, down |-> {}, mods |-> modifiers]
                                  ELSE logical[k]]

\* Only a client's keyboards without focus enter the surface, with no key down.
FocusKeyboards(s) ==
  LET entering == {k \in DOMAIN focus : k[1] = s[1] /\ focus[k] = NoKey}
  IN /\ focus' = [k \in DOMAIN focus |-> IF k \in entering THEN s ELSE focus[k]]
     /\ logical' = [k \in Key |-> IF k \in entering
                                  THEN [active |-> s, down |-> {}, mods |-> modifiers]
                                  ELSE logical[k]]

\* A surface with content is mapped by it; another one is focused as well.
SetToplevel(s) ==
  /\ Request(s, "wl_surface")
  /\ mapped' \in {mapped, mapped \cup {s}}
  /\ FocusKeyboards(s)
  /\ UNCHANGED objects

\* A keyboard is focused on any mapped surface of its client.  Without a keymap the
\* object is registered and the seat does not know of it.
GetKeyboard(k) ==
  /\ Register(k, "wl_keyboard")
  /\ IF ~keymap THEN UNCHANGED <<focus, logical>>
     ELSE LET own == {s \in mapped : s[1] = k[1]}
          IN \E s \in IF own = {} THEN {NoKey} ELSE own :
               /\ focus' = [j \in DOMAIN focus \cup {k} |-> IF j = k THEN s ELSE focus[j]]
               /\ logical' = [logical EXCEPT
                                ![k] = [active |-> s, down |-> {}, mods |-> modifiers]]
  /\ UNCHANGED mapped

ReleaseKeyboard(k) ==
  /\ Request(k, "wl_keyboard")
  /\ objects' = [objects EXCEPT ![k] = "none"]
  /\ focus' = [j \in DOMAIN focus \ {k} |-> focus[j]]
  /\ logical' = [logical EXCEPT ![k] = Unfocused]
  /\ UNCHANGED mapped

\* The seat keeps the keyboards of a client that is removed.
RemoveClient(c) ==
  /\ phase = "idle"
  /\ c \in connected
  /\ connected' = connected \ {c}
  /\ objects' = [k \in Key |-> IF k[1] = c THEN "none" ELSE objects[k]]
  /\ mapped' = {s \in mapped : s[1] # c}
  /\ logical' = [k \in Key |-> IF k[1] = c THEN Unfocused ELSE logical[k]]
  /\ UNCHANGED <<inputVars, keymap, modifiers, focus>>

----------------------------------------------------------------------------

Next ==
  \/ \E key \in KeyCode : PressKey(key) \/ ReleaseKey(key)
  \/ DisableSeat
  \/ EnableSeat
  \/ StartDispatch
  \/ Dispatched
  \/ SwallowKey
  \/ HandleKey
  \/ \E s \in Key : CreateSurface(s) \/ Remap(s) \/ DestroySurface(s) \/ SetToplevel(s)
  \/ \E k \in Key : GetKeyboard(k) \/ ReleaseKeyboard(k)
  \/ \E c \in Client : RemoveClient(c)

Spec == Init /\ [][Next]_vars

----------------------------------------------------------------------------
(* What the keyboards promise.                                             *)

\* An event that the seat sends to a connected client goes to an id that is one of
\* its wl_keyboard objects: no keyboard is left behind by release or id reuse.
KeyboardsRegistered == \A k \in Keyboards : objects[k] = "wl_keyboard"

\* What a client has been told is what the seat believes: focus and modifiers, by
\* whichever of create_keyboard, set_toplevel and handle_modifiers it was told.
ViewsAgree ==
  \A k \in Keyboards : logical[k].active = focus[k] /\ logical[k].mods = modifiers

\* wl_keyboard.enter is not sent to a keyboard with an active surface: get_keyboard
\* and set_toplevel between them send it once.
EnterOnce ==
  [][\A k \in Keyboards \cap Keyboards' :
       logical[k].active # NoKey => logical'[k].active = logical[k].active]_vars

\* The keys that are up, with no release on its way, and down for a focused keyboard.
Stuck ==
  {key \in (UNION {logical[k].down : k \in Focused}) \ reported :
     \A n \in DOMAIN queue : queue[n].key = key => queue[n].pressed}

\* No key that went up is left down for a client, whatever became of its surface,
\* whenever it was focused, and whichever presses the compositor kept for itself.
\* Only the drain at the end of enable_seat and disable_seat leaves one.
NoKeySticks == [][phase # "draining" => Stuck' \subseteq Stuck]_vars

\* A binding is activated by its key with the required modifiers held, and no other:
\* the flags it is found by follow the keys that xkb knows to be down, across a
\* disable and the events that were left in the queue.  A held modifier counts as
\* released only after one of its two keys went up, or a disable failed to reset xkb,
\* and until it is pressed again.
BindingsFire ==
  [][LET event == Head(queue)
     IN phase # "idle" /\ queue # <<>> /\ event.pressed /\ ~Swallowed(event)
          /\ Modifier[event.key] = "none"
        => \A b \in Binding : b.key = event.key =>
             ([dbus |-> b] \in sent' <=> b.mods = Mods(xkb) \ missed)]_vars
=============================================================================
