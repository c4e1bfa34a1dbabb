------------------------- MODULE SeatSessionProofs -------------------------
(***************************************************************************)
(* Type correctness, the release invariants and the stale checks of        *)
(* SeatSession, for every set of cards, either kind of daemon and every    *)
(* bound.                                                                  *)
(***************************************************************************)
EXTENDS SeatSession, WellFoundedInduction, TLAPS

\* The two truth values are Boolean: the provers want to be told so.
LEMMA BooleanValue == \A x : x = FALSE \/ x = TRUE => x \in BOOLEAN
OBVIOUS

\* A message that is sent waits in the channel, and one that waits keeps waiting.
LEMMA ContainsAppend ==
  ASSUME NEW S, NEW q \in Seq(S), NEW m \in S, NEW d
  PROVE  /\ Contains(q, d) => Contains(Append(q, m), d)
         /\ Contains(Append(q, d), d)
BY DEF Contains

\* Taking another message off the channel leaves it waiting.
LEMMA ContainsTail ==
  ASSUME NEW S, NEW q \in Seq(S), NEW d, q # <<>>, Contains(q, d), Head(q) # d
  PROVE  Contains(Tail(q), d)
<1>1. PICK i \in 1..Len(q) : q[i] = d
  BY DEF Contains
<1>2. i # 1
  BY <1>1
<1>3. i - 1 \in 1..Len(Tail(q)) /\ Tail(q)[i - 1] = d
  BY <1>1, <1>2
<1>4. QED
  BY <1>3 DEF Contains

\* The devices after opening some cards are a function of the same type.
LEMMA WithOpenedType ==
  ASSUME TypeOK, NEW o \in [Card -> Nat], NEW new
  PROVE  WithOpened(o, new) \in [Card -> Nat]
BY DEF WithOpened, TypeOK

\* Enabling and disabling the input keep the types of its fields.
LEMMA InputTypes ==
  ASSUME TypeOK, EnableInput \/ DisableInput
  PROVE  /\ seatAssigned' \in BOOLEAN /\ suspended' \in BOOLEAN
         /\ inputOpen' \in Nat /\ skipped' \in BOOLEAN
<1>1. CASE EnableInput
  BY <1>1, BooleanValue DEF TypeOK, EnableInput, inputVars
<1>2. CASE DisableInput
  <2>1. seatAssigned' \in BOOLEAN /\ skipped' \in BOOLEAN
    BY <1>2, BooleanValue DEF TypeOK, DisableInput
  <2>2. suspended' = suspended \/ suspended' = TRUE
    BY <1>2 DEF DisableInput, SuspendInput
  <2>3. inputOpen' = inputOpen \/ inputOpen' = 0
    BY <1>2 DEF DisableInput, SuspendInput
  <2>4. QED
    BY <2>1, <2>2, <2>3, BooleanValue DEF TypeOK
<1>3. QED
  BY <1>1, <1>2

\* Every step keeps the types: each action assigns values of the right type.
LEMMA TypeStep == TypeOK /\ [Next]_vars => TypeOK'
<1> SUFFICES ASSUME TypeOK, [Next]_vars PROVE TypeOK'
  OBVIOUS
<1> USE BooleanValue DEF TypeOK, SeatEvent, MainMessage, Phase, daemonVars, kernelVars, envVars,
            drmVars, inputVars
<1>1. CASE Environment
  <2>1. CASE DaemonEnable
    BY <2>1 DEF DaemonEnable
  <2>2. CASE DaemonDisable
    BY <2>2 DEF DaemonDisable
  <2>3. CASE CardEvent
    BY <2>3 DEF CardEvent
  <2>4. CASE PostConfigure
    BY <2>4 DEF PostConfigure
  <2>5. QED
    BY <1>1, <2>1, <2>2, <2>3, <2>4 DEF Environment
<1>2. CASE DispatchSeat \/ SeatDispatched \/ StartDrain \/ ChannelDrained
  BY <1>2 DEF DispatchSeat, SeatDispatched, StartDrain, ChannelDrained
<1>3. CASE SeatCallback
  <2>1. CASE EnableSeatCallback
    BY <2>1 DEF EnableSeatCallback
  <2>2. CASE DisableSeatCallback
    BY <2>2 DEF DisableSeatCallback
  <2>3. QED
    BY <1>3, <2>1, <2>2 DEF SeatCallback
<1>4. CASE HandleSeatEnabled
  <2>1. PICK new \in OpenMissing(opened, paths) : opened' = WithOpened(opened, new)
    BY <1>4 DEF HandleSeatEnabled
  <2>2. opened' \in [Card -> Nat]
    BY <2>1, WithOpenedType
  <2>3. scanouts' \in SUBSET Card /\ readies' \in Nat
    BY <1>4 DEF HandleSeatEnabled, Present, Opened
  <2>4. EnableInput
    BY <1>4 DEF HandleSeatEnabled
  <2>5. QED
    BY <1>4, <2>2, <2>3, <2>4, InputTypes DEF HandleSeatEnabled, Receive
<1>5. CASE HandleSeatDisabled
  <2>1. DisableInput
    BY <1>5 DEF HandleSeatDisabled
  <2>2. QED
    BY <1>5, <2>1, InputTypes DEF HandleSeatDisabled, Receive, Deactivate, AllClosed
<1>6. CASE HandleStaleSeatEnabled \/ HandleStaleSeatDisabled
  <2>1. UNCHANGED <<daemonVars, seatEvents, envVars, udevReady, phase, enabled, drmVars,
                    inputVars, readies>>
    BY <1>6 DEF HandleStaleSeatEnabled, HandleStaleSeatDisabled, Receive
  <2>2. mainQ' = Tail(mainQ) /\ mainQ # <<>>
    BY <1>6 DEF HandleStaleSeatEnabled, HandleStaleSeatDisabled, Receive
  <2>3. QED
    BY <2>1, <2>2
<1>7. CASE HandleConfigure
  BY <1>7 DEF HandleConfigure, Receive, PresentIfOpen, Present, Opened
<1>8. CASE DispatchUdev
  <2>1. opened' \in [Card -> Nat] /\ scanouts' \in SUBSET Card
    <3>1. CASE UNCHANGED <<opened, scanouts>>
      BY <3>1
    <3>2. CASE Present(opened) /\ UNCHANGED opened
      BY <3>2 DEF Present, Opened
    <3>3. CASE Reconcile(kernelCards)
      <4>1. PICK kept \in [Card -> Nat] : \E new \in OpenMissing(kept, kernelCards) :
              opened' = WithOpened(kept, new) /\ Present(WithOpened(kept, new))
        BY <3>3 DEF Reconcile
      <4>2. QED
        BY <4>1, WithOpenedType DEF Present, Opened
    <3>4. QED
      BY <1>8, <3>1, <3>2, <3>3 DEF DispatchUdev, AfterDispatch
  <2>2. QED
    BY <1>8, <2>1 DEF DispatchUdev
<1>9. CASE ClientUpdate
  BY <1>9 DEF ClientUpdate, PresentIfOpen, Present, Opened
<1>10. CASE Exit
  <2>1. DisableInput
    BY <1>10 DEF Exit
  <2>2. QED
    BY <1>10, <2>1, InputTypes DEF Exit, Deactivate, AllClosed
<1>11. CASE UNCHANGED vars
  BY <1>11 DEF vars
<1>12. QED
  BY <1>1, <1>2, <1>3, <1>4, <1>5, <1>6, <1>7, <1>8, <1>9, <1>10, <1>11
     DEF Next, HandleMessage

\* Type correctness of the seat session (SeatState, AppData, RendererState, LibInput).
THEOREM TypeCorrect == Spec => []TypeOK
<1>1. Init => TypeOK
  BY BooleanValue DEF Init, TypeOK, AllClosed, Phase
<1>2. QED
  BY <1>1, TypeStep, PTL DEF Spec

----------------------------------------------------------------------------

\* The inductive invariant of the release properties.  DisabledReleases counts
\* on suspend being skipped only when libinput holds no device.
SuspendedHoldsNothing == suspended => inputOpen = 0

IInv ==
  /\ TypeOK
  /\ ScanoutsBacked
  /\ SuspendedHoldsNothing
  /\ DisabledReleases
  /\ ExitReleases

\* A card that opens was closed, so opening keeps every card that was open.
LEMMA OpeningKeepsOpen ==
  ASSUME TypeOK, NEW o \in [Card -> Nat], NEW known \in SUBSET Card,
         NEW new \in OpenMissing(o, known)
  PROVE  Opened(o) \subseteq Opened(WithOpened(o, new))
<1>1. new \cap Opened(o) = {}
  BY DEF OpenMissing
<1>2. QED
  BY <1>1 DEF Opened, WithOpened

\* With every device released no card counts as open, so nothing is presented.
LEMMA ReleasedOpensNone == Released => Opened(opened) = {}
BY DEF Released, AllClosed, Opened

\* Re-presenting where something is open changes nothing for a released seat.
LEMMA PresentIfOpenReleased ==
  Released /\ PresentIfOpen /\ UNCHANGED <<opened, inputOpen, skipped>> => Released'
BY ReleasedOpensNone DEF PresentIfOpen, Released, AllClosed

\* A device release, with the input released before it or left as it is by a
\* disable that failed.
LEMMA ReleaseAll ==
  TypeOK /\ SuspendedHoldsNothing /\ DisableInput /\ Deactivate
    => Released' /\ SuspendedHoldsNothing' /\ ScanoutsBacked'
<1> SUFFICES ASSUME TypeOK, SuspendedHoldsNothing, DisableInput, Deactivate
             PROVE  Released' /\ SuspendedHoldsNothing' /\ ScanoutsBacked'
  OBVIOUS
<1>1. CASE skipped' = TRUE /\ UNCHANGED <<suspended, inputOpen>>
  BY <1>1 DEF SuspendedHoldsNothing, Deactivate, Released, ScanoutsBacked, AllClosed
<1>2. CASE inputOpen' = IF suspended THEN inputOpen ELSE 0
  <2>1. inputOpen' = 0
    BY <1>2 DEF SuspendedHoldsNothing
  <2>2. QED
    BY <2>1 DEF SuspendedHoldsNothing, Deactivate, Released, ScanoutsBacked, AllClosed
<1>3. QED
  BY <1>1, <1>2 DEF DisableInput, SuspendInput

\* Enabling libinput clears the suspended flag or changes nothing.
LEMMA EnableInputKeeps ==
  SuspendedHoldsNothing /\ EnableInput => SuspendedHoldsNothing'
BY DEF SuspendedHoldsNothing, EnableInput, inputVars

\* Steps that leave the devices and libinput alone keep what is about them only.
LEMMA DevicesUntouched ==
  /\ ScanoutsBacked /\ UNCHANGED <<opened, scanouts>> => ScanoutsBacked'
  /\ SuspendedHoldsNothing /\ UNCHANGED inputVars => SuspendedHoldsNothing'
  /\ Released /\ UNCHANGED <<opened, scanouts, inputOpen, skipped>> => Released'
BY DEF ScanoutsBacked, Opened, SuspendedHoldsNothing, inputVars, Released, AllClosed

\* The environment only appends to the channel: what was queued stays queued.
LEMMA EnvironmentStep == IInv /\ Environment => IInv'
<1> SUFFICES ASSUME IInv, Environment PROVE IInv'
  OBVIOUS
<1>1. TypeOK'
  BY TypeStep DEF Next, IInv
<1>2. UNCHANGED <<phase, enabled, opened, scanouts, inputVars>>
  BY DEF Environment, DaemonEnable, DaemonDisable, CardEvent, PostConfigure, drmVars, inputVars
<1>3. Contains(mainQ, "MainSeatDisabled") => Contains(mainQ', "MainSeatDisabled")
  <2>1. mainQ' = mainQ \/ mainQ' = Append(mainQ, "Configure")
    BY DEF Environment, DaemonEnable, DaemonDisable, CardEvent, PostConfigure
  <2>2. mainQ \in Seq(MainMessage) /\ "Configure" \in MainMessage
    BY DEF IInv, TypeOK, MainMessage
  <2>3. CASE mainQ' = mainQ
    BY <2>3
  <2>4. CASE mainQ' = Append(mainQ, "Configure")
    BY <2>2, <2>4, ContainsAppend
  <2>5. QED
    BY <2>1, <2>3, <2>4
<1>4. QED
  BY <1>1, <1>2, <1>3, DevicesUntouched
     DEF IInv, DisabledReleases, ExitReleases, inputVars

\* A callback changes the flag together with the message it posts.
LEMMA SeatCallbackStep == IInv /\ SeatCallback => IInv'
<1> SUFFICES ASSUME IInv, SeatCallback PROVE IInv'
  OBVIOUS
<1>1. TypeOK'
  BY TypeStep DEF Next, IInv
<1>2. phase # "exited" /\ UNCHANGED <<phase, opened, scanouts, inputVars>>
  BY DEF SeatCallback, EnableSeatCallback, DisableSeatCallback, drmVars, inputVars
<1>3. enabled' \/ Contains(mainQ', "MainSeatDisabled")
  <2>1. CASE EnableSeatCallback
    BY <2>1 DEF EnableSeatCallback
  <2>2. CASE DisableSeatCallback
    <3>1. mainQ' = Append(mainQ, "MainSeatDisabled")
      BY <2>2 DEF DisableSeatCallback
    <3>2. mainQ \in Seq(MainMessage) /\ "MainSeatDisabled" \in MainMessage
      BY DEF IInv, TypeOK, MainMessage
    <3>3. QED
      BY <3>1, <3>2, ContainsAppend
  <2>3. QED
    BY <2>1, <2>2 DEF SeatCallback
<1>4. QED
  BY <1>1, <1>2, <1>3, DevicesUntouched DEF IInv, DisabledReleases, ExitReleases

\* Handling a message releases everything, or leaves a disabled seat as released
\* as it was and its disable, when it has one, in the channel.
LEMMA HandleMessageStep == IInv /\ HandleMessage => IInv'
<1> SUFFICES ASSUME IInv, HandleMessage PROVE IInv'
  OBVIOUS
<1>1. TypeOK'
  BY TypeStep DEF Next, IInv
<1>2. /\ mainQ # <<>> /\ mainQ \in Seq(MainMessage) /\ mainQ' = Tail(mainQ)
      /\ phase = "drain" /\ UNCHANGED <<phase, enabled>>
  BY DEF HandleMessage, HandleSeatEnabled, HandleStaleSeatEnabled, HandleSeatDisabled,
         HandleStaleSeatDisabled, HandleConfigure, Receive, IInv, TypeOK
<1>3. ExitReleases'
  BY <1>2 DEF ExitReleases
<1>4. ASSUME Head(mainQ) # "MainSeatDisabled", Contains(mainQ, "MainSeatDisabled")
      PROVE  Contains(mainQ', "MainSeatDisabled")
  BY <1>2, <1>4, ContainsTail
<1>5. CASE HandleSeatEnabled
  <2>1. enabled' /\ SuspendedHoldsNothing'
    BY <1>2, <1>5, EnableInputKeeps DEF HandleSeatEnabled, IInv
  <2>2. ScanoutsBacked'
    <3>1. PICK new \in OpenMissing(opened, paths) :
            /\ opened' = WithOpened(opened, new)
            /\ Present(WithOpened(opened, new)) \/ UNCHANGED scanouts
      BY <1>5 DEF HandleSeatEnabled
    <3>2. Opened(opened) \subseteq Opened(opened')
      BY <3>1, OpeningKeepsOpen DEF IInv, TypeOK
    <3>3. QED
      BY <3>1, <3>2 DEF Present, ScanoutsBacked, IInv
  <2>3. QED
    BY <1>1, <1>3, <2>1, <2>2 DEF IInv, DisabledReleases
<1>6. CASE HandleStaleSeatEnabled
  <2>1. UNCHANGED <<opened, scanouts, inputVars>> /\ Head(mainQ) # "MainSeatDisabled"
    BY <1>6 DEF HandleStaleSeatEnabled, Receive, drmVars
  <2>2. DisabledReleases'
    BY <1>2, <1>4, <2>1, DevicesUntouched DEF IInv, DisabledReleases, inputVars
  <2>3. QED
    BY <1>1, <1>3, <2>1, <2>2, DevicesUntouched DEF IInv
<1>7. CASE HandleSeatDisabled
  BY <1>1, <1>3, <1>7, ReleaseAll DEF HandleSeatDisabled, IInv, DisabledReleases
<1>8. CASE HandleStaleSeatDisabled
  <2>1. UNCHANGED <<opened, scanouts, inputVars>> /\ enabled'
    BY <1>2, <1>8 DEF HandleStaleSeatDisabled, drmVars
  <2>2. QED
    BY <1>1, <1>3, <2>1, DevicesUntouched DEF IInv, DisabledReleases
<1>9. CASE HandleConfigure
  <2>1. PresentIfOpen /\ UNCHANGED <<opened, inputVars>> /\ Head(mainQ) # "MainSeatDisabled"
    BY <1>9 DEF HandleConfigure, Receive
  <2>2. ScanoutsBacked'
    BY <2>1 DEF PresentIfOpen, Present, ScanoutsBacked, Opened, IInv
  <2>3. DisabledReleases'
    BY <1>2, <1>4, <2>1, PresentIfOpenReleased DEF IInv, DisabledReleases, inputVars
  <2>4. QED
    BY <1>1, <1>3, <2>1, <2>2, <2>3, DevicesUntouched DEF IInv
<1>10. QED
  BY <1>5, <1>6, <1>7, <1>8, <1>9 DEF HandleMessage

\* Hotplug and client updates open, close and present devices of an enabled seat,
\* and only re-present where something is open otherwise.
LEMMA DeviceStep == IInv /\ (DispatchUdev \/ ClientUpdate) => IInv'
<1> SUFFICES ASSUME IInv, DispatchUdev \/ ClientUpdate PROVE IInv'
  OBVIOUS
<1>1. TypeOK'
  BY TypeStep DEF Next, IInv
<1>2. phase = "poll" /\ UNCHANGED <<phase, enabled, mainQ, inputVars>>
  BY DEF DispatchUdev, ClientUpdate
<1>3. CASE UNCHANGED <<opened, scanouts>>
  BY <1>1, <1>2, <1>3, DevicesUntouched DEF IInv, DisabledReleases, ExitReleases, inputVars
<1>4. CASE PresentIfOpen /\ UNCHANGED opened
  <2>1. ScanoutsBacked'
    BY <1>4 DEF PresentIfOpen, Present, ScanoutsBacked, Opened, IInv
  <2>2. DisabledReleases'
    BY <1>2, <1>4, PresentIfOpenReleased DEF IInv, DisabledReleases, inputVars
  <2>3. QED
    BY <1>1, <1>2, <2>1, <2>2, DevicesUntouched DEF IInv, ExitReleases
<1>5. ASSUME enabled, Reconcile(kernelCards) PROVE IInv'
  <2>1. ScanoutsBacked'
    BY <1>5 DEF Reconcile, Present, ScanoutsBacked, Opened
  <2>2. QED
    BY <1>1, <1>2, <1>5, <2>1, DevicesUntouched DEF IInv, DisabledReleases, ExitReleases
<1>6. ASSUME enabled, Present(opened), UNCHANGED opened PROVE IInv'
  <2>1. ScanoutsBacked'
    BY <1>6 DEF Present, ScanoutsBacked, Opened
  <2>2. QED
    BY <1>1, <1>2, <1>6, <2>1, DevicesUntouched DEF IInv, DisabledReleases, ExitReleases
<1>7. QED
  <2>1. CASE ClientUpdate
    BY <1>4, <2>1 DEF ClientUpdate
  <2>2. CASE DispatchUdev
    <3>1. \/ UNCHANGED drmVars
          \/ AfterDispatch(TRUE, FALSE)
          \/ \E probed \in ProbeAll(opened), changed \in BOOLEAN : AfterDispatch(probed, changed)
      BY <2>2 DEF DispatchUdev
    <3>2. ASSUME NEW probed, NEW changed, AfterDispatch(probed, changed) PROVE IInv'
      <4>1. CASE UNCHANGED <<opened, scanouts>>
        BY <1>3, <4>1
      <4>2. CASE enabled /\ Reconcile(kernelCards)
        BY <1>5, <4>2
      <4>3. CASE enabled /\ Present(opened) /\ UNCHANGED opened
        BY <1>6, <4>3
      <4>4. QED
        BY <3>2, <4>1, <4>2, <4>3 DEF AfterDispatch
    <3>3. ASSUME UNCHANGED drmVars PROVE IInv'
      BY <1>3, <3>3 DEF drmVars
    <3>4. QED
      BY <3>1, <3>2, <3>3
  <2>3. QED
    BY <2>1, <2>2

\* IInv is preserved by every step.
LEMMA IInvStep == IInv /\ [Next]_vars => IInv'
<1> SUFFICES ASSUME IInv, [Next]_vars PROVE IInv'
  OBVIOUS
<1>1. TypeOK'
  BY TypeStep DEF IInv
<1>2. CASE DispatchSeat \/ SeatDispatched \/ StartDrain \/ ChannelDrained
  <2>1. phase' # "exited" /\ UNCHANGED <<enabled, mainQ, opened, scanouts, inputVars>>
    BY <1>2 DEF DispatchSeat, SeatDispatched, StartDrain, ChannelDrained, drmVars, inputVars
  <2>2. QED
    BY <1>1, <2>1, DevicesUntouched DEF IInv, DisabledReleases, ExitReleases, inputVars
<1>3. CASE Exit
  <2>1. Released' /\ SuspendedHoldsNothing' /\ ScanoutsBacked'
    BY <1>3, ReleaseAll DEF Exit, IInv
  <2>2. QED
    BY <1>1, <2>1 DEF IInv, DisabledReleases, ExitReleases
<1>4. CASE UNCHANGED vars
  BY <1>1, <1>4, DevicesUntouched
     DEF vars, IInv, DisabledReleases, ExitReleases, drmVars, inputVars
<1>5. QED
  BY <1>2, <1>3, <1>4, EnvironmentStep, SeatCallbackStep, HandleMessageStep, DeviceStep
     DEF Next

LEMMA IInvInit == Init => IInv
<1> SUFFICES ASSUME Init PROVE IInv
  OBVIOUS
<1>1. TypeOK
  BY BooleanValue DEF Init, TypeOK, AllClosed, Phase
<1>2. QED
  BY <1>1 DEF Init, IInv, ScanoutsBacked, SuspendedHoldsNothing, DisabledReleases, ExitReleases,
              Released

\* No scanout outlives the device its framebuffer was created on
\* (RendererState::deactivate_drm, reconcile_drm, present_enabled_outputs).
THEOREM ScanoutsAlwaysBacked == Spec => []ScanoutsBacked
<1>1. IInv => ScanoutsBacked
  BY DEF IInv
<1>2. QED
  BY <1>1, IInvInit, IInvStep, PTL DEF Spec

\* Dropping stale messages is safe: a disabled seat is released or has the
\* message that will release it queued (handle_channel_messages).
THEOREM DisabledAlwaysReleases == Spec => []DisabledReleases
<1>1. IInv => DisabledReleases
  BY DEF IInv
<1>2. QED
  BY <1>1, IInvInit, IInvStep, PTL DEF Spec

\* The loop never ends with a DRM device open, nor with libinput's unless its
\* disable failed (run_event_loop).
THEOREM ExitAlwaysReleases == Spec => []ExitReleases
<1>1. IInv => ExitReleases
  BY DEF IInv
<1>2. QED
  BY <1>1, IInvInit, IInvStep, PTL DEF Spec

----------------------------------------------------------------------------
(* The newest seat message.                                                *)

\* A set of numbers with a bound has a highest.
LEMMA Highest ==
  ASSUME NEW n \in Nat, NEW S \in SUBSET (1..n), S # {}
  PROVE  Max(S) \in S /\ \A m \in S : m <= Max(S)
<1> DEFINE Below == {n - m : m \in S}
<1>1. Below \subseteq Nat /\ Below # {}
  <2>1. \A m \in S : n - m \in Nat
    OBVIOUS
  <2>2. QED
    BY <2>1
<1>2. PICK d \in Below : \A e \in Below : <<e, d>> \notin OpToRel(<, Nat)
  BY <1>1, NatLessThanWellFounded, WFMin
<1>3. PICK top \in S : d = n - top
  BY <1>2
<1>4. \A m \in S : top >= m
  <2> SUFFICES ASSUME NEW m \in S PROVE top >= m
    OBVIOUS
  <2>1. ~(n - m < d)
    BY <1>1, <1>2 DEF OpToRel
  <2>2. top \in Int /\ m \in Int
    BY <1>3
  <2>3. QED
    BY <1>3, <2>1, <2>2
<1>5. Max(S) \in S /\ \A m \in S : Max(S) >= m
  BY <1>3, <1>4 DEF Max
<1>6. QED
  BY <1>5

\* The same of any message that no seat message follows.
NewestAgrees ==
  \A n \in 1..Len(mainQ) :
    /\ mainQ[n] \in SeatMessage
    /\ \A m \in n + 1..Len(mainQ) : mainQ[m] \notin SeatMessage
    => (mainQ[n] = "MainSeatEnabled") = enabled

LEMMA NewestIsNotStale == TypeOK /\ NewestAgrees => NewestNotStale
<1> SUFFICES ASSUME TypeOK, NewestAgrees PROVE NewestNotStale
  OBVIOUS
<1> DEFINE I == {n \in 1..Len(mainQ) : mainQ[n] \in SeatMessage}
<1>1. Len(mainQ) \in Nat
  BY DEF TypeOK
<1>2. SelectLastInSeq(mainQ, LAMBDA msg : msg \in SeatMessage) = IF I # {} THEN Max(I) ELSE 0
  BY DEF SelectLastInSeq
<1>3. ASSUME I # {} PROVE (mainQ[Max(I)] = "MainSeatEnabled") = enabled
  <2>1. Max(I) \in I /\ \A m \in I : m <= Max(I)
    BY <1>1, <1>3, Highest
  <2>2. ASSUME NEW m \in Max(I) + 1..Len(mainQ) PROVE mainQ[m] \notin SeatMessage
    BY <1>1, <2>1
  <2>3. QED
    BY <2>1, <2>2 DEF NewestAgrees
<1>4. QED
  BY <1>2, <1>3 DEF NewestNotStale

\* A request behind the newest seat message leaves it the newest.
LEMMA AgreesAfterPost ==
  ASSUME TypeOK, NewestAgrees, NEW msg \in MainMessage \ SeatMessage,
         mainQ' = Append(mainQ, msg), UNCHANGED enabled
  PROVE  NewestAgrees'
<1>1. /\ Len(mainQ) \in Nat /\ Len(mainQ') = Len(mainQ) + 1
      /\ \A n \in 1..Len(mainQ) : mainQ'[n] = mainQ[n]
      /\ mainQ'[Len(mainQ) + 1] = msg
  BY DEF TypeOK
<1>2. SUFFICES ASSUME NEW n \in 1..Len(mainQ'), mainQ'[n] \in SeatMessage,
                      \A m \in n + 1..Len(mainQ') : mainQ'[m] \notin SeatMessage
               PROVE  (mainQ'[n] = "MainSeatEnabled") = enabled
  BY DEF NewestAgrees
<1>3. n \in 1..Len(mainQ)
  BY <1>1, <1>2
<1>4. \A m \in n + 1..Len(mainQ) : mainQ[m] \notin SeatMessage
  BY <1>1, <1>2, <1>3
<1>5. QED
  BY <1>1, <1>2, <1>3, <1>4 DEF NewestAgrees

\* A callback's message is the newest, and the flag is the callback's.
LEMMA AgreesAfterCallback ==
  ASSUME TypeOK, SeatCallback
  PROVE  NewestAgrees'
<1>1. PICK msg \in SeatMessage : /\ mainQ' = Append(mainQ, msg)
                                 /\ enabled' = (msg = "MainSeatEnabled")
  BY Zenon DEF SeatCallback, EnableSeatCallback, DisableSeatCallback, SeatMessage
<1>2. /\ Len(mainQ) \in Nat /\ Len(mainQ') = Len(mainQ) + 1
      /\ mainQ'[Len(mainQ) + 1] = msg
  BY <1>1 DEF TypeOK
<1>3. SUFFICES ASSUME NEW n \in 1..Len(mainQ'), mainQ'[n] \in SeatMessage,
                      \A m \in n + 1..Len(mainQ') : mainQ'[m] \notin SeatMessage
               PROVE  (mainQ'[n] = "MainSeatEnabled") = enabled'
  BY DEF NewestAgrees
<1>4. n = Len(mainQ) + 1
  BY <1>1, <1>2, <1>3
<1>5. mainQ'[n] = msg
  BY <1>2, <1>4
<1>6. QED
  BY <1>1, <1>5

\* Taking the oldest message leaves the newest what it was.
LEMMA AgreesAfterReceive ==
  ASSUME TypeOK, NewestAgrees, mainQ # <<>>, mainQ' = Tail(mainQ), UNCHANGED enabled
  PROVE  NewestAgrees'
<1>1. /\ Len(mainQ) \in Nat /\ Len(mainQ') = Len(mainQ) - 1
      /\ \A n \in 1..Len(mainQ') : mainQ'[n] = mainQ[n + 1]
  BY DEF TypeOK
<1>2. SUFFICES ASSUME NEW n \in 1..Len(mainQ'), mainQ'[n] \in SeatMessage,
                      \A m \in n + 1..Len(mainQ') : mainQ'[m] \notin SeatMessage
               PROVE  (mainQ'[n] = "MainSeatEnabled") = enabled
  BY DEF NewestAgrees
<1>3. ASSUME NEW m \in n + 1 + 1..Len(mainQ) PROVE mainQ[m] \notin SeatMessage
  <2>1. m - 1 \in n + 1..Len(mainQ') /\ m - 1 \in 1..Len(mainQ') /\ m - 1 + 1 = m
    BY <1>1, <1>2, <1>3
  <2>2. mainQ'[m - 1] = mainQ[m]
    BY <1>1, <2>1
  <2>3. QED
    BY <1>2, <2>1, <2>2
<1>4. n + 1 \in 1..Len(mainQ) /\ mainQ[n + 1] = mainQ'[n]
  BY <1>1, <1>2
<1>5. QED
  BY <1>2, <1>3, <1>4 DEF NewestAgrees

LEMMA AgreesStep == TypeOK /\ NewestAgrees /\ [Next]_vars => NewestAgrees'
<1> SUFFICES ASSUME TypeOK, NewestAgrees, [Next]_vars PROVE NewestAgrees'
  OBVIOUS
<1>1. CASE UNCHANGED <<mainQ, enabled>>
  BY <1>1 DEF NewestAgrees
<1>2. CASE PostConfigure
  BY <1>2, AgreesAfterPost DEF PostConfigure, MainMessage, SeatMessage
<1>3. CASE SeatCallback
  BY <1>3, AgreesAfterCallback
<1>4. CASE HandleMessage
  <2>1. mainQ # <<>> /\ mainQ' = Tail(mainQ) /\ UNCHANGED enabled
    BY <1>4 DEF HandleMessage, HandleSeatEnabled, HandleStaleSeatEnabled, HandleSeatDisabled,
                HandleStaleSeatDisabled, HandleConfigure, Receive
  <2>2. QED
    BY <2>1, AgreesAfterReceive
<1>5. CASE DaemonEnable \/ DaemonDisable \/ CardEvent \/ DispatchSeat \/ SeatDispatched
             \/ StartDrain \/ ChannelDrained \/ DispatchUdev \/ ClientUpdate \/ Exit
  BY <1>1, <1>5 DEF DaemonEnable, DaemonDisable, CardEvent, DispatchSeat, SeatDispatched, StartDrain,
                    ChannelDrained, DispatchUdev, ClientUpdate, Exit
<1>6. QED
  BY <1>1, <1>2, <1>3, <1>4, <1>5 DEF Next, Environment, vars

\* Only superseded messages are dropped: the newest seat message of the channel agrees
\* with SeatUserdata.enabled, which the stale checks of handle_channel_messages read.
THEOREM NewestNeverStale == Spec => []NewestNotStale
<1>1. Init => NewestAgrees
  BY DEF Init, NewestAgrees
<1>2. Spec => [](TypeOK /\ NewestAgrees)
  BY <1>1, TypeCorrect, AgreesStep, PTL DEF Spec
<1>3. QED
  BY <1>2, NewestIsNotStale, PTL
============================================================================
