-------------------------- MODULE KeyboardsProofs --------------------------
(***************************************************************************)
(* Keyboards and what their clients have been told agree, for every set of *)
(* clients, keys and bindings; no key that went up sticks but by a drain,  *)
(* and key bindings are found by the right modifiers.                      *)
(***************************************************************************)
EXTENDS Keyboards, FiniteSetTheorems, TLAPS

IInv == TypeOK /\ KeyboardsRegistered /\ ViewsAgree

\* The flags follow xkb, but for what was missed.
ModsFollow == mods = Mods(xkb) \ missed

\* A key whose press waits is held, or its release waits behind the press.
PressBacked ==
  \A i \in DOMAIN queue : queue[i].pressed =>
    \/ queue[i].key \in reported
    \/ \E j \in DOMAIN queue : i < j /\ queue[j].key = queue[i].key /\ ~queue[j].pressed

----------------------------------------------------------------------------
(* Types.                                                                  *)

\* The fields of a keyboard's logical state, one at a time.
LEMMA LogicalFields ==
  ASSUME NEW x \in Logical
  PROVE  /\ x.active \in Key \cup {NoKey}
         /\ \A down \in SUBSET KeyCode :
              LET y == [x EXCEPT !.down = down]
              IN y \in Logical /\ y.active = x.active /\ y.mods = x.mods
         /\ \A m \in SUBSET Mod :
              LET y == [x EXCEPT !.mods = m]
              IN y \in Logical /\ y.active = x.active /\ y.mods = m
BY DEF Logical

\* A new logical state.
LEMMA NewLogical ==
  ASSUME NEW s \in Key \cup {NoKey}, NEW m \in SUBSET Mod
  PROVE  LET y == [active |-> s, down |-> {}, mods |-> m]
         IN y \in Logical /\ y.active = s /\ y.mods = m
BY DEF Logical

\* The modifiers of some keys, and the keys after an event.
LEMMA ModsType ==
  ASSUME NEW down
  PROVE  Mods(down) \in SUBSET Mod
BY DEF Mods

LEMMA UpdatedType ==
  ASSUME NEW keys \in SUBSET KeyCode, NEW event \in KeyEvent
  PROVE  Updated(keys, event) \in SUBSET KeyCode
BY DEF Updated, KeyEvent

\* Key events go through a queue.
LEMMA QueueTypes ==
  ASSUME TypeOK
  PROVE  /\ \A event \in KeyEvent : Append(queue, event) \in Seq(KeyEvent)
         /\ queue # <<>> => Head(queue) \in KeyEvent /\ Tail(queue) \in Seq(KeyEvent)
         /\ \A events \in ReleaseEvents(reported) : queue \o events \in Seq(KeyEvent)
<1>1. queue \in Seq(KeyEvent)
  BY DEF TypeOK
<1>2. ASSUME NEW events \in ReleaseEvents(reported) PROVE events \in Seq(KeyEvent)
  <2>1. Cardinality(reported) \in Nat
    BY KeyCodeAssumption, FS_Subset, FS_CardinalityType DEF TypeOK
  <2>2. PICK order \in [1..Cardinality(reported) -> reported] :
               events = [n \in DOMAIN order |-> [key |-> order[n], pressed |-> FALSE]]
    BY DEF ReleaseEvents
  <2>3. \A n \in 1..Cardinality(reported) :
          order[n] \in KeyCode /\ events[n] = [key |-> order[n], pressed |-> FALSE]
    BY <2>2 DEF TypeOK
  <2>4. \A n \in 1..Cardinality(reported) : events[n] \in KeyEvent
    <3>1. \A key \in KeyCode : [key |-> key, pressed |-> FALSE] \in KeyEvent
      BY DEF KeyEvent
    <3>2. QED
      BY <2>3, <3>1
  <2>5. events \in [1..Cardinality(reported) -> KeyEvent]
    BY <2>2, <2>4
  <2>6. QED
    BY <2>1, <2>5
<1>3. QED
  BY <1>1, <1>2

\* Sending a key event leaves the focus and the modifiers that clients know.
LEMMA SendKeyFacts ==
  ASSUME TypeOK, NEW event \in KeyEvent
  PROVE  /\ SendKey(event) \in [Key -> Logical]
         /\ \A k \in Key : /\ SendKey(event)[k].active = logical[k].active
                           /\ SendKey(event)[k].mods = logical[k].mods
<1>1. ASSUME NEW k \in Key
      PROVE  LET y == [logical[k] EXCEPT !.down = Updated(@, event)]
             IN y \in Logical /\ y.active = logical[k].active /\ y.mods = logical[k].mods
  <2>1. logical[k] \in Logical /\ logical[k].down \in SUBSET KeyCode
    BY DEF TypeOK, Logical
  <2>2. QED
    BY <2>1, LogicalFields, UpdatedType
<1>2. QED
  BY <1>1 DEF SendKey, TypeOK

\* Sending the modifiers leaves the focus, and tells every keyboard of the seat's.
LEMMA SendModifiersFacts ==
  ASSUME NEW states \in [Key -> Logical], NEW m \in SUBSET Mod
  PROVE  /\ SendModifiers(states, m) \in [Key -> Logical]
         /\ \A k \in Key : SendModifiers(states, m)[k].active = states[k].active
         /\ \A k \in Key : k \in Keyboards => SendModifiers(states, m)[k].mods = m
<1>1. ASSUME NEW k \in Key
      PROVE  LET y == [states[k] EXCEPT !.mods = m]
             IN y \in Logical /\ y.active = states[k].active /\ y.mods = m
  BY LogicalFields
<1>2. QED
  BY <1>1 DEF SendModifiers

----------------------------------------------------------------------------
(* The steps.                                                              *)

\* Steps that leave the clients and their keyboards alone.
LEMMA ClientsKept ==
  ASSUME IInv, UNCHANGED clientVars
  PROVE  KeyboardsRegistered' /\ ViewsAgree'
BY DEF IInv, clientVars, KeyboardsRegistered, ViewsAgree, Keyboards

LEMMA InputStep ==
  ASSUME IInv,
         \/ \E key \in KeyCode : PressKey(key) \/ ReleaseKey(key)
         \/ DisableSeat \/ EnableSeat \/ StartDispatch \/ Dispatched \/ SwallowKey
  PROVE  IInv'
<1> USE DEF inputVars, clientVars, Phase
<1>1. TypeOK
  BY DEF IInv
<1>2. ASSUME NEW key \in KeyCode, PressKey(key) \/ ReleaseKey(key) PROVE IInv'
  <2>1. [key |-> key, pressed |-> TRUE] \in KeyEvent /\ [key |-> key, pressed |-> FALSE] \in KeyEvent
    BY DEF KeyEvent
  <2>2. TypeOK'
    BY <1>1, <1>2, <2>1, QueueTypes DEF TypeOK, PressKey, ReleaseKey
  <2>3. QED
    BY <1>2, <2>2, ClientsKept DEF IInv, PressKey, ReleaseKey
<1>3. CASE DisableSeat
  <2>1. UNCHANGED clientVars /\ sent' = {} /\ mods' \subseteq Mod /\ missed' \subseteq Mod
    BY <1>3, ModsType DEF DisableSeat, ResetModifiers
  <2>2. xkb' \subseteq KeyCode /\ reported' \subseteq KeyCode /\ queue' \in Seq(KeyEvent)
    BY <1>1, <1>3, QueueTypes DEF TypeOK, DisableSeat, ResetModifiers, Suspend
  <2>3. sensing' \in BOOLEAN /\ suspended' \in BOOLEAN /\ phase' \in Phase
    BY <1>1, <1>3 DEF TypeOK, DisableSeat, Suspend
  <2>4. TypeOK'
    BY <1>1, <2>1, <2>2, <2>3 DEF TypeOK
  <2>5. QED
    BY <2>1, <2>4, ClientsKept DEF IInv
<1>4. CASE EnableSeat \/ StartDispatch \/ Dispatched
  <2>1. TypeOK'
    BY <1>1, <1>4 DEF TypeOK, EnableSeat, StartDispatch, Dispatched
  <2>2. QED
    BY <1>4, <2>1, ClientsKept DEF IInv, EnableSeat, StartDispatch, Dispatched
<1>5. CASE SwallowKey
  <2>1. sent' \subseteq Message
    BY <1>5 DEF SwallowKey, Message
  <2>2. TypeOK'
    BY <1>1, <1>5, <2>1, QueueTypes DEF TypeOK, SwallowKey
  <2>3. QED
    BY <1>5, <2>2, ClientsKept DEF IInv, SwallowKey
<1>6. QED
  BY <1>2, <1>3, <1>4, <1>5

\* The key goes to the focused keyboards, and with it the modifiers to all.
LEMMA HandleKeyStep ==
  ASSUME IInv, HandleKey PROVE IInv' /\ \A k \in Key : logical'[k].active = logical[k].active
<1> DEFINE event == Head(queue)
<1>1. TypeOK /\ event \in KeyEvent /\ Tail(queue) \in Seq(KeyEvent)
  BY QueueTypes DEF IInv, HandleKey
<1>2. /\ queue' = Tail(queue) /\ xkb' = Updated(xkb, event)
      /\ UpdateModifier(event) /\ UpdateMissed(event)
      /\ UNCHANGED <<sensing, reported, suspended, phase>>
      /\ UNCHANGED <<connected, objects, mapped, keymap, focus>>
      /\ sent' = IF event.pressed /\ Modifier[event.key] = "none"
                 THEN {[dbus |-> b] : b \in {c \in Binding : c.key = event.key /\ c.mods = mods}}
                 ELSE {}
  BY DEF HandleKey
<1>3. \/ UNCHANGED <<modifiers, logical>>
      \/ logical' = SendKey(event) /\ UNCHANGED modifiers
      \/ modifiers' = Mods(xkb') /\ logical' = SendModifiers(SendKey(event), Mods(xkb'))
  BY DEF HandleKey
<1> HIDE DEF event
<1>4. /\ modifiers' \in SUBSET Mod /\ logical' \in [Key -> Logical]
      /\ \A k \in Key : logical'[k].active = logical[k].active
      /\ \A k \in Keyboards : logical'[k].mods = modifiers'
  <2>1. Keyboards \subseteq Key /\ \A k \in Keyboards : logical[k].mods = modifiers
    BY DEF IInv, TypeOK, Keyboards, ViewsAgree
  <2>2. CASE UNCHANGED <<modifiers, logical>>
    BY <1>1, <2>1, <2>2 DEF TypeOK
  <2>3. CASE logical' = SendKey(event) /\ UNCHANGED modifiers
    BY <1>1, <2>1, <2>3, SendKeyFacts DEF TypeOK
  <2>4. CASE modifiers' = Mods(xkb') /\ logical' = SendModifiers(SendKey(event), Mods(xkb'))
    BY <1>1, <2>1, <2>4, SendKeyFacts, SendModifiersFacts, ModsType
  <2>5. QED
    BY <1>3, <2>2, <2>3, <2>4
<1>5. TypeOK'
  <2>1. xkb' \subseteq KeyCode
    BY <1>1, <1>2, UpdatedType DEF TypeOK
  <2>2. mods' \subseteq Mod
    BY <1>1, <1>2, ModifierAssumption DEF TypeOK, UpdateModifier, KeyEvent
  <2>3. missed' \subseteq Mod
    BY <1>1, <1>2, ModifierAssumption DEF TypeOK, UpdateMissed, KeyEvent
  <2>4. sent' \subseteq Message
    BY <1>1, <1>2 DEF TypeOK, Message
  <2>5. QED
    BY <1>1, <1>2, <1>4, <2>1, <2>2, <2>3, <2>4 DEF TypeOK
<1>6. Keyboards' = Keyboards
  BY <1>2 DEF Keyboards
<1>7. KeyboardsRegistered' /\ ViewsAgree'
  <2>1. \A k \in Keyboards : k \in Key
    BY <1>1 DEF TypeOK, Keyboards
  <2>2. QED
    BY <1>2, <1>4, <1>6, <2>1 DEF IInv, KeyboardsRegistered, ViewsAgree
<1>8. QED
  BY <1>4, <1>5, <1>7 DEF IInv

\* A request on an object of a connected client.
LEMMA RequestFacts ==
  ASSUME NEW k, NEW interface, Request(k, interface)
  PROVE  /\ objects[k] = interface /\ k[1] \in connected /\ phase = "idle"
         /\ UNCHANGED <<inputVars, connected, keymap, modifiers>>
BY DEF Request

\* The types, when only the clients' part changes.
LEMMA ClientTypes ==
  ASSUME TypeOK, UNCHANGED <<inputVars, connected, keymap, modifiers>>,
         objects' \in [Key -> Interface], mapped' \subseteq Key,
         DOMAIN focus' \subseteq Key, \A k \in DOMAIN focus' : focus'[k] \in Key \cup {NoKey},
         logical' \in [Key -> Logical]
  PROVE  TypeOK'
BY DEF TypeOK, inputVars

\* Surfaces are no keyboards.
LEMMA SurfaceStep ==
  ASSUME IInv, NEW s \in Key, CreateSurface(s) \/ Remap(s) \/ DestroySurface(s)
  PROVE  IInv' /\ UNCHANGED <<connected, focus, logical>>
<1>1. /\ UNCHANGED <<inputVars, connected, keymap, modifiers, focus, logical>>
      /\ objects[s] # "wl_keyboard" /\ objects' \in [Key -> Interface] /\ mapped' \subseteq Key
      /\ \A k \in Key \ {s} : objects'[k] = objects[k]
  <2>1. CASE CreateSurface(s)
    BY <2>1, RequestFacts DEF CreateSurface, Register, IInv, TypeOK, Interface
  <2>2. CASE Remap(s)
    BY <2>2, RequestFacts DEF Remap, IInv, TypeOK
  <2>3. CASE DestroySurface(s)
    BY <2>3, RequestFacts DEF DestroySurface, IInv, TypeOK, Interface
  <2>4. QED
    BY <2>1, <2>2, <2>3
<1>2. TypeOK'
  BY <1>1, ClientTypes DEF IInv, TypeOK
<1>3. Keyboards' = Keyboards /\ Keyboards \subseteq Key
  BY <1>1 DEF Keyboards, IInv, TypeOK
<1>4. KeyboardsRegistered' /\ ViewsAgree'
  BY <1>1, <1>3 DEF IInv, KeyboardsRegistered, ViewsAgree
<1>5. QED
  BY <1>1, <1>2, <1>4 DEF IInv

\* Keyboards enter with the modifiers of the seat; those with a focus stay.
LEMMA SetToplevelStep ==
  ASSUME IInv, NEW s \in Key, SetToplevel(s)
  PROVE  IInv' /\ \A k \in Keyboards : focus[k] # NoKey => logical'[k] = logical[k]
<1> DEFINE entering == {k \in DOMAIN focus : k[1] = s[1] /\ focus[k] = NoKey}
           entered == [active |-> s, down |-> {}, mods |-> modifiers]
<1>1. /\ UNCHANGED <<inputVars, connected, keymap, modifiers, objects>>
      /\ mapped' \subseteq Key
      /\ focus' = [k \in DOMAIN focus |-> IF k \in entering THEN s ELSE focus[k]]
      /\ logical' = [k \in Key |-> IF k \in entering THEN entered ELSE logical[k]]
  BY RequestFacts DEF SetToplevel, FocusKeyboards, IInv, TypeOK
<1>2. entered \in Logical /\ entered.active = s /\ entered.mods = modifiers
  BY NewLogical DEF IInv, TypeOK
<1> HIDE DEF entered
<1>3. TypeOK'
  BY <1>1, <1>2, ClientTypes DEF IInv, TypeOK
<1>4. Keyboards' = Keyboards /\ Keyboards \subseteq Key
  BY <1>1 DEF Keyboards, IInv, TypeOK
<1>5. KeyboardsRegistered'
  BY <1>1, <1>4 DEF IInv, KeyboardsRegistered
<1>6. ViewsAgree'
  <2> SUFFICES ASSUME NEW k \in Keyboards
               PROVE  logical'[k].active = focus'[k] /\ logical'[k].mods = modifiers'
    BY <1>4 DEF ViewsAgree
  <2>1. k \in Key /\ k \in DOMAIN focus
    BY <1>4 DEF Keyboards
  <2>2. CASE k \in entering
    BY <1>1, <1>2, <2>1, <2>2
  <2>3. CASE k \notin entering
    BY <1>1, <2>1, <2>3 DEF IInv, ViewsAgree
  <2>4. QED
    BY <2>2, <2>3
<1>7. ASSUME NEW k \in Keyboards, focus[k] # NoKey PROVE logical'[k] = logical[k]
  BY <1>1, <1>4, <1>7
<1>8. QED
  BY <1>3, <1>5, <1>6, <1>7 DEF IInv

\* A new keyboard takes a free id, which is none of the seat's keyboards.
LEMMA GetKeyboardStep ==
  ASSUME IInv, NEW k \in Key, GetKeyboard(k)
  PROVE  IInv' /\ \A j \in Keyboards : logical'[j] = logical[j]
<1>1. /\ UNCHANGED <<inputVars, connected, keymap, modifiers, mapped>>
      /\ objects[k] = "none" /\ objects' = [objects EXCEPT ![k] = "wl_keyboard"]
      /\ k[1] \in connected
  BY RequestFacts DEF GetKeyboard, Register
<1>2. /\ objects' \in [Key -> Interface] /\ objects'[k] = "wl_keyboard"
      /\ \A j \in Key \ {k} : objects'[j] = objects[j]
  BY <1>1 DEF IInv, TypeOK, Interface
<1>3. k \notin Keyboards /\ Keyboards \subseteq Key
  BY <1>1 DEF IInv, KeyboardsRegistered, Keyboards, TypeOK
<1>4. CASE UNCHANGED <<focus, logical>>
  <2>1. TypeOK'
    BY <1>1, <1>2, <1>4, ClientTypes DEF IInv, TypeOK
  <2>2. Keyboards' = Keyboards
    BY <1>1, <1>4 DEF Keyboards
  <2>3. KeyboardsRegistered' /\ ViewsAgree'
    BY <1>1, <1>2, <1>3, <1>4, <2>2 DEF IInv, KeyboardsRegistered, ViewsAgree
  <2>4. QED
    BY <1>4, <2>1, <2>3 DEF IInv
<1>5. CASE ~UNCHANGED <<focus, logical>>
  <2>1. PICK s \in Key \cup {NoKey} :
          /\ focus' = [j \in DOMAIN focus \cup {k} |-> IF j = k THEN s ELSE focus[j]]
          /\ logical' = [logical EXCEPT ![k] = [active |-> s, down |-> {}, mods |-> modifiers]]
    BY <1>5 DEF GetKeyboard, IInv, TypeOK
  <2> DEFINE new == [active |-> s, down |-> {}, mods |-> modifiers]
  <2>2. new \in Logical /\ new.active = s /\ new.mods = modifiers
    BY NewLogical DEF IInv, TypeOK
  <2>3. logical' = [logical EXCEPT ![k] = new]
    BY <2>1
  <2> HIDE DEF new
  <2>4. /\ logical' \in [Key -> Logical] /\ logical'[k] = new
        /\ \A j \in Key \ {k} : logical'[j] = logical[j]
    BY <2>2, <2>3 DEF IInv, TypeOK
  <2>5. /\ DOMAIN focus' = DOMAIN focus \cup {k} /\ focus'[k] = s
        /\ \A j \in DOMAIN focus \ {k} : focus'[j] = focus[j]
    BY <2>1
  <2>6. TypeOK'
    BY <1>1, <1>2, <2>4, <2>5, ClientTypes DEF IInv, TypeOK
  <2>7. Keyboards' = Keyboards \cup {k}
    BY <1>1, <2>5 DEF Keyboards
  <2>8. KeyboardsRegistered'
    BY <1>2, <1>3, <2>7 DEF IInv, KeyboardsRegistered
  <2>9. ASSUME NEW j \in Keyboards'
        PROVE  logical'[j].active = focus'[j] /\ logical'[j].mods = modifiers'
    <3>1. CASE j = k
      BY <1>1, <2>2, <2>4, <2>5, <3>1
    <3>2. CASE j # k
      <4>1. j \in Keyboards /\ j \in DOMAIN focus \ {k} /\ j \in Key
        BY <1>3, <2>7, <3>2 DEF Keyboards
      <4>2. QED
        BY <1>1, <2>4, <2>5, <3>2, <4>1 DEF IInv, ViewsAgree
    <3>3. QED
      BY <3>1, <3>2
  <2>10. \A j \in Keyboards : logical'[j] = logical[j]
    BY <1>3, <2>4
  <2>11. QED
    BY <2>6, <2>8, <2>9, <2>10 DEF IInv, ViewsAgree
<1>6. QED
  BY <1>4, <1>5

LEMMA ReleaseKeyboardStep ==
  ASSUME IInv, NEW k \in Key, ReleaseKeyboard(k)
  PROVE  IInv' /\ k \notin Keyboards' /\ \A j \in Keyboards \ {k} : logical'[j] = logical[j]
<1>1. /\ UNCHANGED <<inputVars, connected, keymap, modifiers, mapped>>
      /\ objects' = [objects EXCEPT ![k] = "none"]
      /\ focus' = [j \in DOMAIN focus \ {k} |-> focus[j]]
      /\ logical' = [logical EXCEPT ![k] = Unfocused]
  BY RequestFacts DEF ReleaseKeyboard
<1>2. Unfocused \in Logical
  BY NewLogical DEF Unfocused
<1>3. TypeOK'
  BY <1>1, <1>2, ClientTypes DEF IInv, TypeOK, Interface
<1>4. Keyboards' = Keyboards \ {k} /\ Keyboards \subseteq Key
  BY <1>1 DEF Keyboards, IInv, TypeOK
<1>5. \A j \in Keyboards \ {k} :
        objects'[j] = objects[j] /\ logical'[j] = logical[j] /\ focus'[j] = focus[j]
  BY <1>1, <1>4 DEF IInv, TypeOK, Keyboards
<1>6. KeyboardsRegistered' /\ ViewsAgree'
  BY <1>1, <1>4, <1>5 DEF IInv, KeyboardsRegistered, ViewsAgree
<1>7. QED
  BY <1>3, <1>4, <1>5, <1>6 DEF IInv

\* The seat's keyboards of the client stay; they are no longer of a connected one.
LEMMA RemoveClientStep ==
  ASSUME IInv, NEW c, RemoveClient(c)
  PROVE  IInv' /\ \A j \in Keyboards' : j \in Keyboards /\ logical'[j] = logical[j]
<1>1. /\ UNCHANGED <<inputVars, keymap, modifiers, focus>>
      /\ connected' = connected \ {c}
      /\ objects' = [k \in Key |-> IF k[1] = c THEN "none" ELSE objects[k]]
      /\ logical' = [k \in Key |-> IF k[1] = c THEN Unfocused ELSE logical[k]]
      /\ mapped' \subseteq mapped
  BY DEF RemoveClient
<1>2. Unfocused \in Logical
  BY NewLogical DEF Unfocused
<1>3. TypeOK'
  BY <1>1, <1>2 DEF IInv, TypeOK, Interface, inputVars
<1>4. \A j \in Keyboards' : j \in Keyboards /\ j \in Key /\ j[1] # c
  BY <1>1 DEF Keyboards, IInv, TypeOK
<1>5. \A j \in Keyboards' :
        objects'[j] = objects[j] /\ logical'[j] = logical[j] /\ focus'[j] = focus[j]
  BY <1>1, <1>4
<1>6. KeyboardsRegistered' /\ ViewsAgree'
  BY <1>1, <1>4, <1>5 DEF IInv, KeyboardsRegistered, ViewsAgree
<1>7. QED
  BY <1>3, <1>4, <1>5, <1>6 DEF IInv

----------------------------------------------------------------------------
(* The theorems.                                                           *)

LEMMA InitIInv == Init => IInv
<1> SUFFICES ASSUME Init PROVE IInv
  OBVIOUS
<1>1. Unfocused \in Logical
  BY NewLogical DEF Unfocused
<1>2. focus = <<>> /\ Keyboards = {}
  BY DEF Init, Keyboards
<1>3. TypeOK
  <2>1. sensing \in BOOLEAN /\ suspended \in BOOLEAN /\ keymap \in BOOLEAN
    BY DEF Init
  <2>2. queue \in Seq(KeyEvent) /\ DOMAIN focus = {}
    BY DEF Init
  <2>3. logical \in [Key -> Logical] /\ objects \in [Key -> Interface]
    BY <1>1 DEF Init, Interface
  <2>4. QED
    BY <2>1, <2>2, <2>3 DEF Init, TypeOK, Phase
<1>4. QED
  BY <1>2, <1>3 DEF IInv, KeyboardsRegistered, ViewsAgree

\* Every step keeps the invariant, and a keyboard's active surface once it has one.
LEMMA NextIInv ==
  ASSUME IInv, [Next]_vars
  PROVE  /\ IInv'
         /\ \A k \in Keyboards \cap Keyboards' :
              logical[k].active # NoKey => logical'[k].active = logical[k].active
<1>1. Keyboards \subseteq Key /\ \A k \in Keyboards : logical[k].active = focus[k]
  BY DEF IInv, TypeOK, Keyboards, ViewsAgree
<1>2. CASE \/ \E key \in KeyCode : PressKey(key) \/ ReleaseKey(key)
           \/ DisableSeat \/ EnableSeat \/ StartDispatch \/ Dispatched \/ SwallowKey
  <2>1. logical' = logical
    BY <1>2 DEF PressKey, ReleaseKey, DisableSeat, EnableSeat, StartDispatch, Dispatched,
                SwallowKey, clientVars
  <2>2. QED
    BY <1>2, <2>1, InputStep
<1>3. CASE HandleKey
  BY <1>1, <1>3, HandleKeyStep
<1>4. ASSUME NEW s \in Key, CreateSurface(s) \/ Remap(s) \/ DestroySurface(s) \/ SetToplevel(s)
      PROVE  /\ IInv'
             /\ \A k \in Keyboards \cap Keyboards' :
                  logical[k].active # NoKey => logical'[k].active = logical[k].active
  BY <1>1, <1>4, SurfaceStep, SetToplevelStep
<1>5. ASSUME NEW k \in Key, GetKeyboard(k) \/ ReleaseKeyboard(k)
      PROVE  /\ IInv'
             /\ \A j \in Keyboards \cap Keyboards' :
                  logical[j].active # NoKey => logical'[j].active = logical[j].active
  BY <1>5, GetKeyboardStep, ReleaseKeyboardStep
<1>6. ASSUME NEW c \in Client, RemoveClient(c)
      PROVE  /\ IInv'
             /\ \A k \in Keyboards \cap Keyboards' :
                  logical[k].active # NoKey => logical'[k].active = logical[k].active
  BY <1>6, RemoveClientStep
<1>7. CASE UNCHANGED vars
  BY <1>7 DEF IInv, TypeOK, KeyboardsRegistered, ViewsAgree, Keyboards, vars, inputVars, clientVars
<1>8. QED
  BY <1>2, <1>3, <1>4, <1>5, <1>6, <1>7 DEF Next

LEMMA Invariant == Spec => []IInv
<1>1. IInv /\ [Next]_vars => IInv'
  BY NextIInv
<1>2. QED
  BY InitIInv, <1>1, PTL DEF Spec

\* The seat's and the clients' tables have their types: every focus and every logical
\* state is of a keyboard that a client can have (SeatManager, InputState).
THEOREM TypeCorrect == Spec => []TypeOK
<1>1. IInv => TypeOK
  BY DEF IInv
<1>2. QED
  BY <1>1, Invariant, PTL

\* However requests, removals of clients and key events interleave, the seat sends
\* keyboard events only to ids that are wl_keyboard objects (seat.rs handle_key,
\* handle_modifiers).
THEOREM AlwaysRegistered == Spec => []KeyboardsRegistered
<1>1. IInv => KeyboardsRegistered
  BY DEF IInv
<1>2. QED
  BY Invariant, <1>1, PTL

\* What each client knows of its focus and the modifiers is what the seat believes.
THEOREM ViewsAlwaysAgree == Spec => []ViewsAgree
<1>1. IInv => ViewsAgree
  BY DEF IInv
<1>2. QED
  BY Invariant, <1>1, PTL

\* No keyboard is sent enter while it has an active surface (create_keyboard,
\* focus_keyboards_on_surface).
THEOREM EntersOnce == Spec => EnterOnce
<1>1. IInv /\ [Next]_vars =>
        [\A k \in Keyboards \cap Keyboards' :
           logical[k].active # NoKey => logical'[k].active = logical[k].active]_vars
  BY NextIInv
<1>2. QED
  BY Invariant, <1>1, PTL DEF Spec, EnterOnce

\* The down keys of a focused keyboard after a key event, with or without modifiers.
LEMMA DownAfter ==
  ASSUME TypeOK, NEW event \in KeyEvent, NEW k \in Focused, NEW m
  PROVE  /\ SendKey(event)[k].down = Updated(logical[k].down, event)
         /\ SendModifiers(SendKey(event), m)[k].down = Updated(logical[k].down, event)
<1>1. k \in Key /\ k \in Keyboards /\ logical[k] \in Logical
  BY DEF Focused, Keyboards, TypeOK
<1>2. SendKey(event)[k] = [logical[k] EXCEPT !.down = Updated(@, event)]
  BY <1>1 DEF SendKey
<1>3. SendKey(event)[k].down = Updated(logical[k].down, event)
  BY <1>1, <1>2 DEF Logical
<1>4. SendModifiers(SendKey(event), m)[k] = [SendKey(event)[k] EXCEPT !.mods = m]
  BY <1>1 DEF SendModifiers
<1>5. [SendKey(event)[k] EXCEPT !.mods = m].down = SendKey(event)[k].down
  BY <1>1, <1>2 DEF Logical
<1>6. QED
  BY <1>3, <1>4, <1>5

----------------------------------------------------------------------------
(* No key sticks.                                                          *)

\* Closing the devices releases every key that was seen pressed, and presses none.
LEMMA ReleaseEventsFacts ==
  ASSUME TypeOK, NEW events \in ReleaseEvents(reported)
  PROVE  /\ events \in Seq(KeyEvent)
         /\ \A n \in DOMAIN events : ~events[n].pressed
         /\ \A key \in reported : \E n \in DOMAIN events : events[n].key = key
<1> DEFINE size == Cardinality(reported)
<1>1. IsFiniteSet(reported) /\ size \in Nat
  BY KeyCodeAssumption, FS_Subset, FS_CardinalityType DEF TypeOK
<1>2. PICK order \in [1..size -> reported] :
             IsInjective(order)
             /\ events = [n \in DOMAIN order |-> [key |-> order[n], pressed |-> FALSE]]
  BY DEF ReleaseEvents
<1>3. IsFiniteSet(1..size) /\ Cardinality(1..size) = size
  BY <1>1, FS_Interval
<1>4. order \in Injection(1..size, reported)
  BY <1>2 DEF Injection
<1>5. order \in Surjection(1..size, reported)
  BY <1>1, <1>3, <1>4, FS_Injection
<1> HIDE DEF size
<1>6. \A key \in reported : \E n \in 1..size : order[n] = key
  BY <1>5 DEF Surjection
<1>7. /\ DOMAIN events = 1..size
      /\ \A n \in 1..size : events[n] = [key |-> order[n], pressed |-> FALSE]
  BY <1>2
<1>8. \A n \in 1..size : events[n].key = order[n] /\ ~events[n].pressed
  BY <1>7
<1>9. events \in Seq(KeyEvent)
  <2>1. \A key \in KeyCode : [key |-> key, pressed |-> FALSE] \in KeyEvent
    BY DEF KeyEvent
  <2>2. \A n \in 1..size : order[n] \in KeyCode
    BY <1>2 DEF TypeOK
  <2>3. events \in [1..size -> KeyEvent]
    BY <1>2, <1>7, <2>1, <2>2
  <2>4. QED
    BY <1>1, <2>3 DEF size
<1>10. QED
  BY <1>6, <1>7, <1>8, <1>9

\* What the steps do to the keys that are reported and to the events that wait.
LEMMA QueueStep ==
  ASSUME TypeOK, [Next]_vars
  PROVE  \/ UNCHANGED <<reported, queue>>
         \/ \E key \in KeyCode : PressKey(key) \/ ReleaseKey(key)
         \/ /\ DisableSeat /\ reported' = {}
            /\ \E events \in ReleaseEvents(reported) : queue' = queue \o events
         \/ SwallowKey \/ HandleKey
<1>1. CASE DisableSeat
  BY <1>1 DEF DisableSeat, Suspend
<1>2. ASSUME NEW k \in Key,
             \/ CreateSurface(k) \/ Remap(k) \/ DestroySurface(k) \/ SetToplevel(k)
             \/ GetKeyboard(k) \/ ReleaseKeyboard(k)
      PROVE  UNCHANGED <<reported, queue>>
  BY <1>2, RequestFacts DEF CreateSurface, Register, Remap, DestroySurface, SetToplevel,
       GetKeyboard, ReleaseKeyboard, inputVars
<1>3. CASE \/ EnableSeat \/ StartDispatch \/ Dispatched
           \/ (\E c \in Client : RemoveClient(c)) \/ UNCHANGED vars
  BY <1>3 DEF EnableSeat, StartDispatch, Dispatched, RemoveClient, vars, inputVars
<1>4. QED
  BY <1>1, <1>2, <1>3 DEF Next

\* A queue after an event was taken or some were added.
LEMMA TailFacts ==
  ASSUME NEW q \in Seq(KeyEvent), q # <<>>
  PROVE  /\ \A i \in DOMAIN Tail(q) : i + 1 \in DOMAIN q /\ Tail(q)[i] = q[i + 1]
         /\ \A i \in DOMAIN q : i = 1 \/ (i - 1 \in DOMAIN Tail(q) /\ Tail(q)[i - 1] = q[i])
         /\ 1 \in DOMAIN q /\ Head(q) = q[1]
OBVIOUS

LEMMA ConcatFacts ==
  ASSUME NEW q \in Seq(KeyEvent), NEW r \in Seq(KeyEvent)
  PROVE  /\ DOMAIN q \subseteq Nat /\ DOMAIN (q \o r) \subseteq Nat
         /\ \A i \in DOMAIN q : i \in DOMAIN (q \o r) /\ (q \o r)[i] = q[i]
         /\ \A i \in DOMAIN r : /\ Len(q) + i \in DOMAIN (q \o r)
                                /\ (q \o r)[Len(q) + i] = r[i]
                                /\ \A j \in DOMAIN q : j < Len(q) + i
         /\ \A i \in DOMAIN (q \o r) : i \in DOMAIN q \/ (i - Len(q) \in DOMAIN r
                                                          /\ (q \o r)[i] = r[i - Len(q)])
OBVIOUS

LEMMA AppendFacts ==
  ASSUME NEW q \in Seq(KeyEvent), NEW event \in KeyEvent
  PROVE  /\ \A i \in DOMAIN q : i \in DOMAIN Append(q, event) /\ Append(q, event)[i] = q[i]
         /\ Len(q) + 1 \in DOMAIN Append(q, event) /\ Append(q, event)[Len(q) + 1] = event
         /\ \A i \in DOMAIN q : i < Len(q) + 1
         /\ \A i \in DOMAIN Append(q, event) : i \in DOMAIN q \/ i = Len(q) + 1
OBVIOUS

\* A press and a release of a key.
LEMMA KeyEvents ==
  ASSUME NEW key \in KeyCode, NEW pressed \in BOOLEAN
  PROVE  LET event == [key |-> key, pressed |-> pressed]
         IN event \in KeyEvent /\ event.key = key /\ event.pressed = pressed
BY DEF KeyEvent

LEMMA PressBackedStep ==
  ASSUME TypeOK, PressBacked, [Next]_vars
  PROVE  PressBacked'
<1>1. queue \in Seq(KeyEvent)
  BY DEF TypeOK
<1>2. CASE UNCHANGED <<reported, queue>>
  BY <1>2 DEF PressBacked
<1>3. ASSUME NEW key \in KeyCode, PressKey(key) PROVE PressBacked'
  <2> DEFINE event == [key |-> key, pressed |-> TRUE]
  <2>1. reported' = reported \cup {key} /\ queue' = Append(queue, event)
    BY <1>3 DEF PressKey
  <2>2. event \in KeyEvent /\ event.key = key
    BY KeyEvents
  <2> HIDE DEF event
  <2>3. QED
    BY <1>1, <2>1, <2>2, AppendFacts DEF PressBacked
<1>4. ASSUME NEW key \in KeyCode, ReleaseKey(key) PROVE PressBacked'
  <2> DEFINE event == [key |-> key, pressed |-> FALSE]
  <2>1. reported' = reported \ {key} /\ queue' = Append(queue, event)
    BY <1>4 DEF ReleaseKey
  <2>2. event \in KeyEvent /\ event.key = key /\ ~event.pressed
    BY KeyEvents
  <2> HIDE DEF event
  <2>3. QED
    BY <1>1, <2>1, <2>2, AppendFacts DEF PressBacked
<1>5. ASSUME reported' = {}, NEW events \in ReleaseEvents(reported), queue' = queue \o events
      PROVE  PressBacked'
  <2>1. /\ events \in Seq(KeyEvent)
        /\ \A n \in DOMAIN events : ~events[n].pressed
        /\ \A key \in reported : \E n \in DOMAIN events : events[n].key = key
    BY ReleaseEventsFacts
  <2> SUFFICES ASSUME NEW i \in DOMAIN queue', queue'[i].pressed
               PROVE  \E j \in DOMAIN queue' :
                        i < j /\ queue'[j].key = queue'[i].key /\ ~queue'[j].pressed
    BY DEF PressBacked
  <2>2. i \in DOMAIN queue /\ queue'[i] = queue[i]
    BY <1>1, <1>5, <2>1, ConcatFacts
  <2>3. CASE queue[i].key \in reported
    <3>1. PICK n \in DOMAIN events : events[n].key = queue[i].key
      BY <2>1, <2>3
    <3>2. /\ Len(queue) + n \in DOMAIN queue' /\ queue'[Len(queue) + n] = events[n]
          /\ i < Len(queue) + n
      BY <1>1, <1>5, <2>1, <2>2, ConcatFacts
    <3>3. QED
      BY <2>1, <2>2, <3>1, <3>2
  <2>4. CASE \E j \in DOMAIN queue : i < j /\ queue[j].key = queue[i].key /\ ~queue[j].pressed
    BY <1>1, <1>5, <2>1, <2>2, <2>4, ConcatFacts
  <2>5. QED
    BY <2>2, <2>3, <2>4 DEF PressBacked
<1>6. CASE SwallowKey \/ HandleKey
  <2>1. queue # <<>> /\ queue' = Tail(queue) /\ reported' = reported
    BY <1>6 DEF SwallowKey, HandleKey
  <2> SUFFICES ASSUME NEW i \in DOMAIN queue', queue'[i].pressed, queue'[i].key \notin reported
               PROVE  \E j \in DOMAIN queue' :
                        i < j /\ queue'[j].key = queue'[i].key /\ ~queue'[j].pressed
    BY <2>1 DEF PressBacked
  <2>2. i \in Nat /\ i + 1 \in DOMAIN queue /\ queue'[i] = queue[i + 1]
    BY <1>1, <2>1, TailFacts
  <2>3. PICK j \in DOMAIN queue :
          i + 1 < j /\ queue[j].key = queue[i + 1].key /\ ~queue[j].pressed
    BY <2>2 DEF PressBacked
  <2>4. j \in Nat /\ i < j - 1 /\ j # 1
    BY <1>1, <2>2, <2>3
  <2>5. j - 1 \in DOMAIN queue' /\ queue'[j - 1] = queue[j]
    BY <1>1, <2>1, <2>4, TailFacts
  <2>6. QED
    BY <2>2, <2>3, <2>4, <2>5
<1>7. QED
  BY <1>2, <1>3, <1>4, <1>5, <1>6, QueueStep

\* No key of a focused keyboard goes down by a request: keyboards enter with none.
LEMMA RequestsPressNothing ==
  ASSUME IInv, NEW key, NEW k \in Focused', key \in logical'[k].down,
         \/ \E s \in Key : CreateSurface(s) \/ Remap(s) \/ DestroySurface(s) \/ SetToplevel(s)
         \/ \E j \in Key : GetKeyboard(j) \/ ReleaseKeyboard(j)
         \/ \E c \in Client : RemoveClient(c)
  PROVE  /\ k \in Focused /\ key \in logical[k].down
         /\ UNCHANGED <<reported, queue>>
<1>1. UNCHANGED inputVars
  BY RequestFacts DEF CreateSurface, Register, Remap, DestroySurface, SetToplevel,
       GetKeyboard, ReleaseKeyboard, RemoveClient
<1>2. k \in DOMAIN focus' /\ k[1] \in connected' /\ focus'[k] # NoKey
  BY DEF Focused, Keyboards
<1>3. ASSUME NEW s \in Key, CreateSurface(s) \/ Remap(s) \/ DestroySurface(s)
      PROVE  k \in Focused /\ key \in logical[k].down
  <2>1. UNCHANGED <<connected, focus, logical>>
    BY <1>3, SurfaceStep
  <2>2. QED
    BY <1>2, <2>1 DEF Focused, Keyboards
<1>4. ASSUME NEW s \in Key, SetToplevel(s) PROVE k \in Focused /\ key \in logical[k].down
  <2> DEFINE entering == {j \in DOMAIN focus : j[1] = s[1] /\ focus[j] = NoKey}
  <2>1. /\ connected' = connected
        /\ focus' = [j \in DOMAIN focus |-> IF j \in entering THEN s ELSE focus[j]]
        /\ logical' = [j \in Key |-> IF j \in entering
                                     THEN [active |-> s, down |-> {}, mods |-> modifiers]
                                     ELSE logical[j]]
    BY <1>4, RequestFacts DEF SetToplevel, FocusKeyboards
  <2>2. k \in Key /\ k \in DOMAIN focus
    BY <1>2, <2>1 DEF IInv, TypeOK
  <2>3. k \notin entering
    <3>1. ASSUME k \in entering PROVE FALSE
      <4>1. logical'[k] = [active |-> s, down |-> {}, mods |-> modifiers]
        BY <2>1, <2>2, <3>1
      <4>2. QED
        BY <4>1
    <3>2. QED
      BY <3>1
  <2>4. focus'[k] = focus[k] /\ logical'[k] = logical[k]
    BY <2>1, <2>2, <2>3
  <2>5. QED
    BY <1>2, <2>1, <2>2, <2>4 DEF Focused, Keyboards
<1>5. ASSUME NEW j \in Key, GetKeyboard(j) PROVE k \in Focused /\ key \in logical[k].down
  <2>1. connected' = connected
    BY <1>5, RequestFacts DEF GetKeyboard, Register
  <2>2. CASE UNCHANGED <<focus, logical>>
    BY <1>2, <2>1, <2>2 DEF Focused, Keyboards
  <2>3. CASE ~UNCHANGED <<focus, logical>>
    <3>1. PICK s :
            /\ focus' = [i \in DOMAIN focus \cup {j} |-> IF i = j THEN s ELSE focus[i]]
            /\ logical' = [logical EXCEPT ![j] = [active |-> s, down |-> {}, mods |-> modifiers]]
      BY <1>5, <2>3 DEF GetKeyboard
    <3>2. k # j
      <4>1. ASSUME k = j PROVE FALSE
        <5>1. logical'[k] = [active |-> s, down |-> {}, mods |-> modifiers]
          BY <3>1, <4>1 DEF IInv, TypeOK
        <5>2. QED
          BY <5>1
      <4>2. QED
        BY <4>1
    <3>3. k \in DOMAIN focus /\ k \in Key
      BY <1>2, <3>1, <3>2 DEF IInv, TypeOK
    <3>4. focus'[k] = focus[k] /\ logical'[k] = logical[k]
      BY <3>1, <3>2, <3>3 DEF IInv, TypeOK
    <3>5. QED
      BY <1>2, <2>1, <3>3, <3>4 DEF Focused, Keyboards
  <2>4. QED
    BY <2>2, <2>3
<1>6. ASSUME NEW j \in Key, ReleaseKeyboard(j) PROVE k \in Focused /\ key \in logical[k].down
  <2>1. /\ connected' = connected
        /\ focus' = [i \in DOMAIN focus \ {j} |-> focus[i]]
        /\ logical' = [logical EXCEPT ![j] = Unfocused]
    BY <1>6, RequestFacts DEF ReleaseKeyboard
  <2>2. k \in DOMAIN focus /\ k # j /\ k \in Key
    BY <1>2, <2>1 DEF IInv, TypeOK
  <2>3. focus'[k] = focus[k] /\ logical'[k] = logical[k]
    BY <2>1, <2>2 DEF IInv, TypeOK
  <2>4. QED
    BY <1>2, <2>1, <2>2, <2>3 DEF Focused, Keyboards
<1>7. ASSUME NEW c \in Client, RemoveClient(c) PROVE k \in Focused /\ key \in logical[k].down
  <2>1. /\ connected' = connected \ {c} /\ focus' = focus
        /\ logical' = [j \in Key |-> IF j[1] = c THEN Unfocused ELSE logical[j]]
    BY <1>7 DEF RemoveClient
  <2>2. k \in Key /\ k[1] # c
    BY <1>2, <2>1 DEF IInv, TypeOK
  <2>3. logical'[k] = logical[k]
    BY <2>1, <2>2
  <2>4. QED
    BY <1>2, <2>1, <2>3 DEF Focused, Keyboards
<1>8. QED
  BY <1>1, <1>3, <1>4, <1>5, <1>6, <1>7 DEF inputVars

\* A key event is taken to the clients: their keys are down as it says.
LEMMA HandledKey ==
  ASSUME TypeOK, HandleKey, phase # "draining", NEW key, NEW k \in Focused',
         key \in logical'[k].down
  PROVE  /\ k \in Focused /\ queue # <<>>
         /\ queue' = Tail(queue) /\ reported' = reported
         /\ key \in Updated(logical[k].down, Head(queue))
<1>1. /\ queue # <<>> /\ queue' = Tail(queue) /\ reported' = reported
      /\ connected' = connected /\ focus' = focus
  BY DEF HandleKey
<1>2. k \in Focused
  BY <1>1 DEF Focused, Keyboards
<1>3. \/ logical' = SendKey(Head(queue))
      \/ logical' = SendModifiers(SendKey(Head(queue)), Mods(xkb'))
  BY DEF HandleKey
<1>4. logical'[k].down = Updated(logical[k].down, Head(queue))
  BY <1>1, <1>2, <1>3, DownAfter, QueueTypes
<1>5. QED
  BY <1>1, <1>2, <1>4

LEMMA StuckStep ==
  ASSUME IInv, PressBacked, [Next]_vars, phase # "draining", NEW key \in Stuck'
  PROVE  key \in Stuck
<1>1. PICK k \in Focused' : key \in logical'[k].down
  BY DEF Stuck
<1>2. key \notin reported' /\ \A n \in DOMAIN queue' : queue'[n].key = key => queue'[n].pressed
  BY Zenon DEF Stuck
<1>3. TypeOK /\ queue \in Seq(KeyEvent)
  BY DEF IInv, TypeOK
<1>4. ASSUME k \in Focused, key \in logical[k].down, key \notin reported,
             \A n \in DOMAIN queue : queue[n].key = key => queue[n].pressed
      PROVE  key \in Stuck
  <2>1. key \in UNION {logical[j].down : j \in Focused}
    BY <1>4
  <2>2. QED
    BY <1>4, <2>1, Zenon DEF Stuck
<1>5. ASSUME UNCHANGED clientVars PROVE k \in Focused /\ key \in logical[k].down
  BY <1>1, <1>5 DEF clientVars, Focused, Keyboards
<1>6. ASSUME NEW c \in KeyCode, PressKey(c) PROVE key \in Stuck
  <2>1. /\ reported' = reported \cup {c}
        /\ queue' = Append(queue, [key |-> c, pressed |-> TRUE]) /\ UNCHANGED clientVars
    BY <1>6 DEF PressKey
  <2>2. \A n \in DOMAIN queue : n \in DOMAIN queue' /\ queue'[n] = queue[n]
    BY <1>3, <2>1, KeyEvents, AppendFacts
  <2>3. QED
    BY <1>2, <1>4, <1>5, <2>1, <2>2
<1>7. ASSUME NEW c \in KeyCode, ReleaseKey(c) PROVE key \in Stuck
  <2> DEFINE event == [key |-> c, pressed |-> FALSE]
  <2>1. reported' = reported \ {c} /\ queue' = Append(queue, event) /\ UNCHANGED clientVars
    BY <1>7 DEF ReleaseKey
  <2>2. event \in KeyEvent /\ event.key = c /\ ~event.pressed
    BY KeyEvents
  <2> HIDE DEF event
  <2>3. /\ \A n \in DOMAIN queue : n \in DOMAIN queue' /\ queue'[n] = queue[n]
        /\ Len(queue) + 1 \in DOMAIN queue' /\ queue'[Len(queue) + 1] = event
    BY <1>3, <2>1, <2>2, AppendFacts
  <2>4. key # c
    BY <1>2, <2>2, <2>3
  <2>5. QED
    BY <1>2, <1>4, <1>5, <2>1, <2>3, <2>4
<1>8. ASSUME DisableSeat, reported' = {}, NEW events \in ReleaseEvents(reported),
             queue' = queue \o events
      PROVE  key \in Stuck
  <2>1. UNCHANGED clientVars
    BY <1>8 DEF DisableSeat
  <2>2. /\ events \in Seq(KeyEvent)
        /\ \A n \in DOMAIN events : ~events[n].pressed
        /\ \A c \in reported : \E n \in DOMAIN events : events[n].key = c
    BY <1>3, ReleaseEventsFacts
  <2>3. /\ \A n \in DOMAIN queue : n \in DOMAIN queue' /\ queue'[n] = queue[n]
        /\ \A n \in DOMAIN events : /\ Len(queue) + n \in DOMAIN queue'
                                    /\ queue'[Len(queue) + n] = events[n]
    BY <1>3, <1>8, <2>2, ConcatFacts
  <2>4. key \notin reported
    BY <1>2, <2>2, <2>3
  <2>5. QED
    BY <1>2, <1>4, <1>5, <2>1, <2>3, <2>4
<1>9. CASE SwallowKey
  <2>1. queue # <<>> /\ queue' = Tail(queue) /\ reported' = reported /\ Head(queue).pressed
    BY <1>9 DEF SwallowKey, Swallowed
  <2>2. UNCHANGED clientVars
    BY <1>9 DEF SwallowKey
  <2>3. ASSUME NEW n \in DOMAIN queue, queue[n].key = key PROVE queue[n].pressed
    <3>1. CASE n = 1
      BY <1>3, <2>1, <3>1, TailFacts
    <3>2. CASE n # 1
      <4>1. n - 1 \in DOMAIN queue' /\ queue'[n - 1] = queue[n]
        BY <1>3, <2>1, <2>3, <3>2, TailFacts
      <4>2. QED
        BY <1>2, <2>3, <4>1
    <3>3. QED
      BY <3>1, <3>2
  <2>4. QED
    BY <1>2, <1>4, <1>5, <2>1, <2>2, <2>3
<1>10. CASE HandleKey
  <2> DEFINE event == Head(queue)
  <2>1. /\ k \in Focused /\ queue # <<>> /\ queue' = Tail(queue) /\ reported' = reported
        /\ key \in Updated(logical[k].down, event)
    BY <1>1, <1>3, <1>10, HandledKey
  <2>2. event = queue[1] /\ 1 \in DOMAIN queue
    BY <1>3, <2>1, TailFacts
  <2>3. ASSUME NEW n \in DOMAIN queue, n # 1, queue[n].key = key PROVE queue[n].pressed
    <3>1. n - 1 \in DOMAIN queue' /\ queue'[n - 1] = queue[n]
      BY <1>3, <2>1, <2>3, TailFacts
    <3>2. QED
      BY <1>2, <2>3, <3>1
  <2>4. event.key # key
    <3>1. ASSUME event.key = key PROVE FALSE
      <4>1. event.pressed
        BY <2>1, <3>1 DEF Updated
      <4>2. PICK j \in DOMAIN queue : 1 < j /\ queue[j].key = key /\ ~queue[j].pressed
        BY <1>2, <2>1, <2>2, <3>1, <4>1 DEF PressBacked
      <4>3. QED
        BY <2>3, <4>2
    <3>2. QED
      BY <3>1
  <2>5. key \in logical[k].down
    BY <2>1, <2>4 DEF Updated
  <2>6. QED
    BY <1>2, <1>4, <2>1, <2>2, <2>3, <2>4, <2>5
<1>11. CASE \/ \E s \in Key : CreateSurface(s) \/ Remap(s) \/ DestroySurface(s) \/ SetToplevel(s)
            \/ \E j \in Key : GetKeyboard(j) \/ ReleaseKeyboard(j)
            \/ \E c \in Client : RemoveClient(c)
  <2>1. k \in Focused /\ key \in logical[k].down /\ UNCHANGED <<reported, queue>>
    BY <1>1, <1>11, RequestsPressNothing
  <2>2. QED
    BY <1>2, <1>4, <2>1
<1>12. CASE UNCHANGED <<reported, queue, clientVars>>
  BY <1>2, <1>4, <1>5, <1>12
<1>13. CASE DisableSeat
  <2>1. CASE UNCHANGED <<reported, queue>>
    BY <1>12, <1>13, <2>1 DEF DisableSeat
  <2>2. CASE ~UNCHANGED <<reported, queue>>
    BY <1>8, <1>13, <2>2 DEF DisableSeat, Suspend
  <2>3. QED
    BY <2>1, <2>2
<1>14. CASE EnableSeat \/ StartDispatch \/ Dispatched \/ UNCHANGED vars
  BY <1>12, <1>14 DEF EnableSeat, StartDispatch, Dispatched, vars, inputVars
<1>15. QED
  BY <1>6, <1>7, <1>9, <1>10, <1>11, <1>13, <1>14 DEF Next

\* Clients, bindings and modes change as they may: outside the drains, no key that went
\* up stays down for a focused keyboard (InputState::handle_key and disable_seat, and
\* handle_key, create_keyboard and focus_keyboards_on_surface of seat.rs).
THEOREM KeysGoUp == Spec => NoKeySticks
<1>1. Init => PressBacked
  BY DEF Init, PressBacked
<1>2. IInv => TypeOK
  BY DEF IInv
<1>3. TypeOK /\ PressBacked /\ [Next]_vars => PressBacked'
  BY PressBackedStep
<1>4. Spec => []PressBacked
  BY Invariant, <1>1, <1>2, <1>3, PTL DEF Spec
<1>5. IInv /\ PressBacked /\ [Next]_vars => [phase # "draining" => Stuck' \subseteq Stuck]_vars
  BY StuckStep
<1>6. QED
  BY Invariant, <1>4, <1>5, PTL DEF Spec, NoKeySticks

----------------------------------------------------------------------------
(* Key bindings.                                                           *)

\* Pressing and releasing keep the flags and xkb together, but for what was missed.
LEMMA FlagsFollow ==
  ASSUME TypeOK, ModsFollow, NEW event \in KeyEvent,
         xkb' = Updated(xkb, event), UpdateModifier(event), UpdateMissed(event)
  PROVE  ModsFollow'
<1> DEFINE m == Modifier[event.key]
           held == \E key \in xkb \ {event.key} : Modifier[key] = m
<1>1. event.key \in KeyCode /\ event.pressed \in BOOLEAN /\ m \in Mod \cup {"none"} /\ "none" \notin Mod
  BY ModifierAssumption DEF KeyEvent, Mod
<1>2. mods \subseteq Mod
  BY DEF TypeOK
<1>3. CASE event.pressed
  <2>1. /\ xkb' = xkb \cup {event.key}
        /\ mods' = IF m = "none" THEN mods ELSE mods \cup {m}
        /\ missed' = IF m = "none" THEN missed ELSE missed \ {m}
    BY <1>3 DEF Updated, UpdateModifier, UpdateMissed
  <2>2. \A n \in Mod : n \in Mods(xkb') <=> n \in Mods(xkb) \/ n = m
    BY <1>1, <2>1 DEF Mods
  <2>3. mods' = Mods(xkb') \ missed'
    BY <1>1, <1>2, <2>1, <2>2, ModsType DEF ModsFollow
  <2>4. QED
    BY <2>3 DEF ModsFollow, Mods
<1>4. CASE ~event.pressed
  <2>1. /\ xkb' = xkb \ {event.key}
        /\ mods' = IF m = "none" THEN mods ELSE mods \ {m}
        /\ missed' = IF m = "none" THEN missed
                     ELSE IF held THEN missed \cup {m} ELSE missed \ {m}
    BY <1>4 DEF Updated, UpdateModifier, UpdateMissed
  <2>2. \A n \in Mod : n # m => (n \in Mods(xkb') <=> n \in Mods(xkb))
    BY <1>1, <2>1 DEF Mods
  <2>3. m \in Mods(xkb') => held
    BY <2>1 DEF Mods
  <2>4. mods' = Mods(xkb') \ missed'
    BY <1>1, <1>2, <2>1, <2>2, <2>3, ModsType DEF ModsFollow
  <2>5. QED
    BY <2>4 DEF ModsFollow, Mods
<1>5. QED
  BY <1>1, <1>3, <1>4

LEMMA ModsFollowStep ==
  ASSUME TypeOK, ModsFollow, [Next]_vars
  PROVE  ModsFollow'
<1>1. CASE UNCHANGED <<xkb, mods, missed>>
  BY <1>1 DEF ModsFollow, Mods
<1>2. CASE DisableSeat
  BY <1>2 DEF DisableSeat, ResetModifiers, ModsFollow, Mods
<1>3. CASE HandleKey
  <2>1. /\ Head(queue) \in KeyEvent /\ xkb' = Updated(xkb, Head(queue))
        /\ UpdateModifier(Head(queue)) /\ UpdateMissed(Head(queue))
    BY <1>3, QueueTypes DEF HandleKey
  <2>2. QED
    BY <2>1, FlagsFollow
<1>4. ASSUME NEW k \in Key,
             \/ CreateSurface(k) \/ Remap(k) \/ DestroySurface(k) \/ SetToplevel(k)
             \/ GetKeyboard(k) \/ ReleaseKeyboard(k)
      PROVE  UNCHANGED <<xkb, mods, missed>>
  BY <1>4, RequestFacts DEF CreateSurface, Register, Remap, DestroySurface, SetToplevel,
       GetKeyboard, ReleaseKeyboard, inputVars
<1>5. CASE \/ \E key \in KeyCode : PressKey(key) \/ ReleaseKey(key)
           \/ EnableSeat \/ StartDispatch \/ Dispatched \/ SwallowKey
           \/ (\E c \in Client : RemoveClient(c)) \/ UNCHANGED vars
  <2>1. UNCHANGED <<xkb, mods, missed>>
    BY <1>5 DEF PressKey, ReleaseKey, EnableSeat, StartDispatch, Dispatched, SwallowKey,
                RemoveClient, vars, inputVars
  <2>2. QED
    BY <1>1, <2>1
<1>6. QED
  BY <1>1, <1>2, <1>3, <1>4, <1>5 DEF Next

\* The only step that takes a key press that is not swallowed off the queue; a disable
\* needs the main thread idle.
LEMMA BindingStep ==
  ASSUME TypeOK, ModsFollow, [Next]_vars, ~UNCHANGED vars,
         phase # "idle", queue # <<>>, Head(queue).pressed, ~Swallowed(Head(queue)),
         Modifier[Head(queue).key] = "none"
  PROVE  \A b \in Binding : b.key = Head(queue).key =>
           ([dbus |-> b] \in sent' <=> b.mods = Mods(xkb) \ missed)
<1> DEFINE event == Head(queue)
<1>1. \A k \in Key : ~(\/ CreateSurface(k) \/ Remap(k) \/ DestroySurface(k) \/ SetToplevel(k)
                       \/ GetKeyboard(k) \/ ReleaseKeyboard(k))
  BY RequestFacts DEF CreateSurface, Register, Remap, DestroySurface, SetToplevel,
       GetKeyboard, ReleaseKeyboard
<1>2. HandleKey
  BY <1>1 DEF Next, PressKey, ReleaseKey, DisableSeat, EnableSeat, StartDispatch, Dispatched,
       SwallowKey, RemoveClient
<1>3. sent' = {[dbus |-> b] : b \in {c \in Binding : c.key = event.key /\ c.mods = mods}}
  BY <1>2 DEF HandleKey
<1>4. ASSUME NEW b \in Binding
      PROVE  [dbus |-> b] \in sent' <=> b.key = event.key /\ b.mods = mods
  <2>1. \A c : [dbus |-> b] = [dbus |-> c] => b = c
    <3> SUFFICES ASSUME NEW c, [dbus |-> b] = [dbus |-> c] PROVE b = c
      OBVIOUS
    <3>1. [dbus |-> b].dbus = [dbus |-> c].dbus
      OBVIOUS
    <3>2. QED
      BY <3>1
  <2>2. QED
    BY <1>3, <2>1
<1>5. QED
  BY <1>4 DEF ModsFollow

\* A key binding is activated by its key with exactly the modifiers that are held and
\* were not missed, on every keyboard and through every disable and enable of the seat
\* (InputState::handle_key, disable_seat).
THEOREM BindingsAlwaysFire == Spec => BindingsFire
<1>1. Init => ModsFollow
  BY DEF Init, ModsFollow, Mods
<1>2. TypeOK /\ ModsFollow /\ [Next]_vars => ModsFollow'
  BY ModsFollowStep
<1>3. IInv => TypeOK
  BY DEF IInv
<1>4. Spec => []ModsFollow
  BY Invariant, <1>1, <1>2, <1>3, PTL DEF Spec
<1>5. TypeOK /\ ModsFollow /\ [Next]_vars =>
        [LET event == Head(queue)
         IN phase # "idle" /\ queue # <<>> /\ event.pressed /\ ~Swallowed(event)
              /\ Modifier[event.key] = "none"
            => \A b \in Binding : b.key = event.key =>
                 ([dbus |-> b] \in sent' <=> b.mods = Mods(xkb) \ missed)]_vars
  BY BindingStep
<1>6. QED
  BY Invariant, <1>3, <1>4, <1>5, PTL DEF Spec, BindingsFire
=============================================================================
