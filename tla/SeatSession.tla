---------------------------- MODULE SeatSession ----------------------------
(***************************************************************************)
(* The seat session of the compositor: libseat's enable and disable        *)
(* callbacks (crates/lumalla_seat), the messages they post to the main     *)
(* thread and the main thread's handlers for them (src/app.rs), the DRM    *)
(* devices and scanouts the renderer keeps open (crates/lumalla_renderer)  *)
(* and the libinput context (crates/lumalla_input).                        *)
(*                                                                         *)
(* One main thread runs every action except the four of the environment:   *)
(* the seat daemon that gives and takes the session, the kernel that adds  *)
(* and removes cards, and the D-Bus thread that posts requests.  "epoch"   *)
(* numbers the sessions; it tells a descriptor opened in an earlier        *)
(* session, which the daemon has revoked, from one of the current session. *)
(***************************************************************************)
EXTENDS Naturals, SequencesExt

CONSTANTS
  Card,          \* DRM primary nodes, by card number
  AckGated,      \* TRUE: the daemon gives no session before the last disable
                 \* is acknowledged (seatd); FALSE: it may (logind)
  MaxEpoch,      \* bound: sessions given
  MaxQueue,      \* bound: undelivered seat events
  MaxPosts,      \* bound: requests the D-Bus thread posts
  MaxHotplug     \* bound: cards added or removed

ASSUME CardAssumption == Card \subseteq Nat
ASSUME AckGatedAssumption == AckGated \in BOOLEAN
ASSUME BoundsAssumption ==
  MaxEpoch \in Nat /\ MaxQueue \in Nat /\ MaxPosts \in Nat /\ MaxHotplug \in Nat

SeatEvent == {"enable", "disable"}
MainMessage == {"MainSeatEnabled", "MainSeatDisabled", "Configure"}
Phase == {"poll", "seat", "drain", "exited"}

VARIABLES
  active,      \* daemon: the session is ours
  epoch,       \* daemon: number of the latest session
  acked,       \* daemon: every disable it sent was acknowledged
  seatEvents,  \* daemon to libseat: events not yet delivered
  kernelCards, \* kernel: cards plugged in
  hotplugs,    \* kernel: cards added or removed so far
  udevReady,   \* the udev monitor holds a card event
  phase,       \* what the main thread is doing
  enabled,     \* SeatUserdata.enabled
  posts,       \* D-Bus thread: requests posted so far
  mainQ,       \* the main thread's channel
  paths,       \* DrmDevices.paths
  opened,      \* DrmDevices.opened: session in which the card was opened, 0 if closed
  scanouts,    \* RendererState.scanouts, by the card they were imported on
  seatAssigned, \* LibInput.seat_assigned
  suspended,   \* LibInput.suspended
  inputOpen,   \* session in which libinput opened its devices, 0 if it holds none
  skipped,     \* history: the last disable of the input failed before it suspended libinput
  readies      \* EmitReady messages sent to the D-Bus thread

daemonVars == <<active, epoch, acked>>
kernelVars == <<kernelCards, hotplugs>>
envVars    == <<kernelVars, posts>>
drmVars    == <<paths, opened, scanouts>>
inputVars  == <<seatAssigned, suspended, inputOpen, skipped>>
vars == <<daemonVars, seatEvents, envVars, udevReady, phase, enabled, mainQ,
          drmVars, inputVars, readies>>

TypeOK ==
  /\ active \in BOOLEAN
  /\ epoch \in Nat
  /\ acked \in BOOLEAN
  /\ seatEvents \in Seq(SeatEvent)
  /\ kernelCards \in SUBSET Card
  /\ hotplugs \in Nat
  /\ udevReady \in BOOLEAN
  /\ phase \in Phase
  /\ enabled \in BOOLEAN
  /\ posts \in Nat
  /\ mainQ \in Seq(MainMessage)
  /\ paths \in SUBSET Card
  /\ opened \in [Card -> Nat]
  /\ scanouts \in SUBSET Card
  /\ seatAssigned \in BOOLEAN
  /\ suspended \in BOOLEAN
  /\ inputOpen \in Nat
  /\ skipped \in BOOLEAN
  /\ readies \in Nat

\* The cards with an open device.
Opened(o) == {c \in Card : o[c] # 0}

AllClosed == [c \in Card |-> 0]

Init ==
  /\ active = FALSE
  /\ epoch = 0
  /\ acked = TRUE
  /\ seatEvents = <<>>
  /\ kernelCards \in SUBSET Card
  /\ hotplugs = 0
  /\ udevReady = FALSE
  /\ phase = "poll"
  /\ enabled = FALSE
  /\ posts = 0
  /\ mainQ = <<>>
  /\ paths = kernelCards
  /\ opened = AllClosed
  /\ scanouts = {}
  /\ seatAssigned = FALSE
  /\ suspended = TRUE
  /\ inputOpen = 0
  /\ skipped = FALSE
  /\ readies = 0

----------------------------------------------------------------------------
(* The environment.                                                        *)

\* The daemon gives us the session.
DaemonEnable ==
  /\ ~active
  /\ epoch < MaxEpoch
  /\ Len(seatEvents) < MaxQueue
  /\ AckGated => acked
  /\ active' = TRUE
  /\ epoch' = epoch + 1
  /\ seatEvents' = Append(seatEvents, "enable")
  /\ UNCHANGED <<acked, envVars, udevReady, phase, enabled, mainQ, drmVars, inputVars, readies>>

\* The daemon takes the session (a VT switch): descriptors are revoked at once.
DaemonDisable ==
  /\ active
  /\ Len(seatEvents) < MaxQueue
  /\ active' = FALSE
  /\ acked' = FALSE
  /\ seatEvents' = Append(seatEvents, "disable")
  /\ UNCHANGED <<epoch, envVars, udevReady, phase, enabled, mainQ, drmVars, inputVars, readies>>

\* A card appears or goes away, or a connector of a card changes.
CardEvent ==
  /\ hotplugs < MaxHotplug
  /\ hotplugs' = hotplugs + 1
  /\ \/ \E c \in Card \ kernelCards : kernelCards' = kernelCards \cup {c}
     \/ \E c \in kernelCards : kernelCards' = kernelCards \ {c}
     \/ UNCHANGED kernelCards
  /\ udevReady' = TRUE
  /\ UNCHANGED <<daemonVars, seatEvents, posts, phase, enabled, mainQ, drmVars, inputVars, readies>>

\* The D-Bus thread posts SetRenderDevice or SetOutputConfigs.
PostConfigure ==
  /\ posts < MaxPosts
  /\ posts' = posts + 1
  /\ mainQ' = Append(mainQ, "Configure")
  /\ UNCHANGED <<daemonVars, seatEvents, kernelVars, udevReady, phase, enabled, drmVars,
                 inputVars, readies>>

----------------------------------------------------------------------------
(* Renderer and DRM devices.                                               *)

\* present_enabled_outputs: the old scanouts are dropped first; each enabled
\* output of an open card is presented or fails on its own, and all fail when
\* no render device resolves or Vulkan cannot be set up.
Present(o) == scanouts' \in SUBSET Opened(o)

\* Re-presentation by a caller that first checks that some device is open.
PresentIfOpen ==
  IF Opened(opened) = {} THEN UNCHANGED scanouts ELSE Present(opened)

\* open_missing: the paths without a device, in order, up to the first that
\* fails.  Only a plugged card opens.
OpenMissing(o, known) ==
  LET missing == known \ Opened(o)
      prefixes == {missing} \cup {{c \in missing : c < k} : k \in missing}
  IN {new \in prefixes : new \subseteq kernelCards}

\* The devices after opening the cards of new in this session.
WithOpened(o, new) == [c \in Card |-> IF c \in new THEN epoch ELSE o[c]]

\* probe_all_connectors: fails on a card that was unplugged, and may fail on another.
ProbeAll(o) == {FALSE} \cup {Opened(o) \subseteq kernelCards}

\* Mutation: the devices close under the scanouts.
DeactivateKeepsScanouts ==
  /\ opened' = AllClosed
  /\ UNCHANGED <<paths, scanouts>>

\* RendererState::deactivate_drm: scanouts are dropped before their devices close.
Deactivate ==
  /\ scanouts' = {}
  /\ opened' = AllClosed
  /\ UNCHANGED paths

----------------------------------------------------------------------------
(* libinput.                                                               *)

\* InputState::enable_seat.  It does nothing when the seat has no name, or the
\* seat cannot be assigned or libinput resumed.  Assigning opens the devices;
\* resume is skipped when not suspended, and opens them when none are held.
EnableInput ==
  \/ UNCHANGED inputVars
  \/ LET held == IF seatAssigned THEN inputOpen ELSE epoch
     IN /\ seatAssigned' = TRUE
        /\ suspended' = FALSE
        /\ skipped' = FALSE
        /\ inputOpen' = IF suspended /\ held = 0 THEN epoch ELSE held

\* LibInput::suspend: libinput_suspend closes the devices, but its binding reads a
\* return value the C function does not have, so the flag is set or left as that
\* value happens to be.
SuspendInput ==
  /\ inputOpen' = IF suspended THEN inputOpen ELSE 0
  /\ suspended' \in {suspended, TRUE}

\* InputState::disable_seat.  A reset of the keyboard state that fails, for want of
\* memory, ends it before the suspend, and the callers go on.
DisableInput ==
  /\ UNCHANGED seatAssigned
  /\ \/ skipped' = TRUE /\ UNCHANGED <<suspended, inputOpen>>
     \/ skipped' = FALSE /\ SuspendInput

----------------------------------------------------------------------------
(* libseat dispatch: the callbacks run inside it.                          *)

DispatchSeat ==
  /\ phase = "poll"
  /\ seatEvents # <<>>
  /\ phase' = "seat"
  /\ UNCHANGED <<daemonVars, seatEvents, envVars, udevReady, enabled, mainQ, drmVars,
                 inputVars, readies>>

\* Mutation: the flag is left for the message's handler to set.
EnableSeatCallbackKeepsFlag ==
  /\ phase = "seat"
  /\ seatEvents # <<>>
  /\ Head(seatEvents) = "enable"
  /\ seatEvents' = Tail(seatEvents)
  /\ mainQ' = Append(mainQ, "MainSeatEnabled")
  /\ UNCHANGED <<daemonVars, envVars, udevReady, phase, enabled, drmVars, inputVars, readies>>

EnableSeatCallback ==
  /\ phase = "seat"
  /\ seatEvents # <<>>
  /\ Head(seatEvents) = "enable"
  /\ seatEvents' = Tail(seatEvents)
  /\ enabled' = TRUE
  /\ mainQ' = Append(mainQ, "MainSeatEnabled")
  /\ UNCHANGED <<daemonVars, envVars, udevReady, phase, drmVars, inputVars, readies>>

\* Mutation: the flag stays up until the message is handled.
DisableSeatCallbackKeepsFlag ==
  /\ phase = "seat"
  /\ seatEvents # <<>>
  /\ Head(seatEvents) = "disable"
  /\ seatEvents' = Tail(seatEvents)
  /\ acked' = TRUE
  /\ mainQ' = Append(mainQ, "MainSeatDisabled")
  /\ UNCHANGED <<active, epoch, envVars, udevReady, phase, enabled, drmVars, inputVars, readies>>

\* libseat_disable_seat, the acknowledgement, is called in the callback.
DisableSeatCallback ==
  /\ phase = "seat"
  /\ seatEvents # <<>>
  /\ Head(seatEvents) = "disable"
  /\ seatEvents' = Tail(seatEvents)
  /\ enabled' = FALSE
  /\ acked' = TRUE
  /\ mainQ' = Append(mainQ, "MainSeatDisabled")
  /\ UNCHANGED <<active, epoch, envVars, udevReady, phase, drmVars, inputVars, readies>>

\* libseat_dispatch returns when every pending event was delivered.
SeatDispatched ==
  /\ phase = "seat"
  /\ seatEvents = <<>>
  /\ phase' = "poll"
  /\ UNCHANGED <<daemonVars, seatEvents, envVars, udevReady, enabled, mainQ, drmVars,
                 inputVars, readies>>

----------------------------------------------------------------------------
(* handle_channel_messages: the channel is drained before anything else.   *)

StartDrain ==
  /\ phase = "poll"
  /\ mainQ # <<>>
  /\ phase' = "drain"
  /\ UNCHANGED <<daemonVars, seatEvents, envVars, udevReady, enabled, mainQ, drmVars,
                 inputVars, readies>>

Receive(msg) ==
  /\ phase = "drain"
  /\ mainQ # <<>>
  /\ Head(mainQ) = msg
  /\ mainQ' = Tail(mainQ)
  /\ UNCHANGED <<daemonVars, seatEvents, envVars, udevReady, phase, enabled>>

HandleSeatEnabled ==
  /\ Receive("MainSeatEnabled")
  /\ enabled
  /\ EnableInput
  /\ UNCHANGED paths
  /\ \E new \in OpenMissing(opened, paths) :
       LET o == WithOpened(opened, new)
           allOpen == paths \subseteq Opened(opened) \cup new
       IN /\ opened' = o
          /\ \E probed \in ProbeAll(o) :
               IF allOpen /\ probed
               THEN Present(o) /\ readies' = readies + 1
               ELSE UNCHANGED <<scanouts, readies>>

HandleStaleSeatEnabled ==
  /\ Receive("MainSeatEnabled")
  /\ ~enabled
  /\ UNCHANGED <<drmVars, inputVars, readies>>

\* Mutation: only the scanouts are dropped.
HandleSeatDisabledKeepsDevices ==
  /\ Receive("MainSeatDisabled")
  /\ ~enabled
  /\ DisableInput
  /\ scanouts' = {}
  /\ UNCHANGED <<paths, opened, readies>>

HandleSeatDisabled ==
  /\ Receive("MainSeatDisabled")
  /\ ~enabled
  /\ DisableInput
  /\ Deactivate
  /\ UNCHANGED readies

HandleStaleSeatDisabled ==
  /\ Receive("MainSeatDisabled")
  /\ enabled
  /\ UNCHANGED <<drmVars, inputVars, readies>>

HandleConfigure ==
  /\ Receive("Configure")
  /\ PresentIfOpen
  /\ UNCHANGED <<paths, opened, inputVars, readies>>

ChannelDrained ==
  /\ phase = "drain"
  /\ mainQ = <<>>
  /\ phase' = "poll"
  /\ UNCHANGED <<daemonVars, seatEvents, envVars, udevReady, enabled, mainQ, drmVars,
                 inputVars, readies>>

----------------------------------------------------------------------------
(* The udev monitor, client requests, and leaving the loop.                *)

\* RendererState::reconcile_drm, then present_enabled_outputs whatever it returned.
Reconcile(known) ==
  LET kept == [c \in Card |-> IF c \in known THEN opened[c] ELSE 0]
  IN \E new \in OpenMissing(kept, known) :
       LET o == WithOpened(kept, new)
       IN opened' = o /\ Present(o)

\* The caller's use of a dispatch that replaced the path list: nothing after a
\* failed probe (that the list changed is lost with it) or with the seat
\* disabled, a reconcile when the list changed, a presentation when only
\* connectors did.
AfterDispatch(probed, connectorsChanged) ==
  \/ /\ ~probed \/ ~enabled \/ (kernelCards = paths /\ ~connectorsChanged)
     /\ UNCHANGED <<opened, scanouts>>
  \/ /\ probed /\ enabled /\ kernelCards # paths
     /\ Reconcile(kernelCards)
  \/ /\ probed /\ enabled /\ kernelCards = paths /\ connectorsChanged
     /\ Present(opened)
     /\ UNCHANGED opened

\* DrmDevices::dispatch and its caller.  Connectors are probed when a device is open.
DispatchUdev ==
  /\ phase = "poll"
  /\ udevReady
  /\ udevReady' = FALSE
  /\ UNCHANGED <<daemonVars, seatEvents, envVars, phase, enabled, mainQ, inputVars, readies>>
  /\ \/ UNCHANGED drmVars                       \* the cards cannot be listed
     \/ /\ paths' = kernelCards
        /\ IF Opened(opened) = {}
           THEN AfterDispatch(TRUE, FALSE)
           ELSE \E probed \in ProbeAll(opened), connectorsChanged \in BOOLEAN :
                  AfterDispatch(probed, connectorsChanged)

\* A commit, or the removal of the presented surface or client, re-presents.
ClientUpdate ==
  /\ phase = "poll"
  /\ PresentIfOpen
  /\ UNCHANGED <<daemonVars, seatEvents, envVars, udevReady, phase, enabled, mainQ, paths,
                 opened, inputVars, readies>>

\* Mutation: the devices are left to the destructors.
ExitLeavesDevices ==
  /\ phase = "poll"
  /\ phase' = "exited"
  /\ DisableInput
  /\ UNCHANGED <<daemonVars, seatEvents, envVars, udevReady, enabled, mainQ, drmVars, readies>>

\* The loop ends: input and devices are released while libseat is still open.
Exit ==
  /\ phase = "poll"
  /\ phase' = "exited"
  /\ DisableInput
  /\ Deactivate
  /\ UNCHANGED <<daemonVars, seatEvents, envVars, udevReady, enabled, mainQ, readies>>

----------------------------------------------------------------------------

Environment == DaemonEnable \/ DaemonDisable \/ CardEvent \/ PostConfigure

SeatCallback == EnableSeatCallback \/ DisableSeatCallback

HandleMessage ==
  \/ HandleSeatEnabled
  \/ HandleStaleSeatEnabled
  \/ HandleSeatDisabled
  \/ HandleStaleSeatDisabled
  \/ HandleConfigure

Next ==
  \/ Environment
  \/ DispatchSeat
  \/ SeatCallback
  \/ SeatDispatched
  \/ StartDrain
  \/ HandleMessage
  \/ ChannelDrained
  \/ DispatchUdev
  \/ ClientUpdate
  \/ Exit

Spec == Init /\ [][Next]_vars

\* The main thread keeps polling, libseat_dispatch delivers what is pending,
\* and every handler returns.  Nothing is assumed of the environment.
FairSpec ==
  /\ Spec
  /\ WF_vars(DispatchSeat)
  /\ WF_vars(SeatCallback)
  /\ WF_vars(SeatDispatched)
  /\ WF_vars(StartDrain)
  /\ WF_vars(HandleMessage)
  /\ WF_vars(ChannelDrained)
  /\ WF_vars(DispatchUdev)

----------------------------------------------------------------------------
(* What the session promises.                                              *)

SeatMessage == {"MainSeatEnabled", "MainSeatDisabled"}

\* Nothing opened through the seat is held, but for what libinput holds after a
\* disable that did not get as far as suspending it.
Released == opened = AllClosed /\ scanouts = {} /\ (inputOpen = 0 \/ skipped)

\* A scanout's framebuffer and mode blob are freed through the descriptor of
\* the card they were made on: no scanout outlives its device
\* (RendererState::deactivate_drm and reconcile_drm clear them first).
ScanoutsBacked == scanouts \subseteq Opened(opened)

\* Dropping a MainSeatDisabled as stale never leaves a disabled seat holding
\* devices: with the flag down, either everything is released or a disable is
\* still queued (handle_channel_messages).
DisabledReleases == ~enabled => Released \/ Contains(mainQ, "MainSeatDisabled")

\* The newest seat message in the channel always agrees with the flag the
\* stale checks read, so only superseded messages are dropped.
NewestNotStale ==
  LET newest == SelectLastInSeq(mainQ, LAMBDA msg : msg \in SeatMessage)
  IN newest # 0 => (mainQ[newest] = "MainSeatEnabled") = enabled

\* When the loop ends, every DRM device is closed while libseat is still open, and
\* libinput's too unless its disable failed (run_event_loop's last lines, which
\* guard against a crash at teardown).
ExitReleases == phase = "exited" => Released

\* A session that is taken away is released, unless it is given back first.
EventuallyReleased == ~active ~> (active \/ Released)

\* DrmDevices::activate's comment: after a VT switch the devices were closed
\* and are reopened, so each device of an activated seat is of this session.
ActivatedAfresh ==
  [][readies' # readies => \A c \in Opened(opened') : opened'[c] = epoch]_vars
============================================================================
