--------------------------- MODULE EventLoopProofs --------------------------
(***************************************************************************)
(* Proofs for the two modules of the main thread's loop.                   *)
(*                                                                         *)
(* Lifecycle: what holds when the compositor leaves its loop, that no      *)
(* request puts the end off, that no message of another thread waits       *)
(* unnoticed, and that the key bindings of the input are those that        *)
(* clients were told, through the messages on their way.                   *)
(*                                                                         *)
(* Connections: the kinds and sizes of sockets and buffers, that what was  *)
(* written for a client reaches it in order, with its descriptors, and     *)
(* that an edge is there or will come for all that waits.                  *)
(***************************************************************************)
EXTENDS Lifecycle, Connections, TLAPS

\* UNCHANGED waker is about its two parts.
USE DEF waker

----------------------------------------------------------------------------
(* Lifecycle.                                                              *)

\* From the first request on, the config process is told to end and the time is set.
ShutdownBegun ==
  /\ shuttingDown => killed \/ config = "none"
  /\ timeout # "none" => shuttingDown

\* CheckForShutdown found this when it ended the loop, and it stays.
EndJustified ==
  main = "ended" => shuttingDown /\ (timeout = "passed" \/ Stopped)

Inv == ShutdownBegun /\ EndJustified

LEMMA InvInit == Init => Inv
BY DEF Init, Inv, ShutdownBegun, EndJustified

\* The end of the thread and of the process is final.
LEMMA StoppedStays == Stopped /\ [Next]_vars => Stopped'
<1> SUFFICES ASSUME Stopped, [Next]_vars PROVE Stopped'
  OBVIOUS
<1> USE DEF Stopped
<1>1. CASE Inputs
  BY <1>1 DEF Inputs, Quit, Post, ClearServedKeymaps, FileChanged, MainSend, dbusVars, configVars
<1>2. CASE Start
  BY <1>2 DEF Start, StartService, StartLoop, StartFails, dbusVars, configVars
<1>3. CASE MainLoop
  BY <1>3 DEF MainLoop, CheckForShutdown, PollChannel, PollTimesOut, Drain, HandleSeatEnabled,
              HandleAddKeymap, HandleClearKeymaps, HandleShutdown, Drained, dbusVars, configVars
<1>4. CASE \/ PollOther \/ (\E key \in Key : PollKey(key)) \/ TimeoutPasses
           \/ (\E sender \in Sender : Wake(sender)) \/ UNCHANGED vars
  BY <1>4 DEF PollOther, PollKey, TimeoutPasses, Wake, vars, dbusVars, configVars
<1>5. CASE Dbus
  BY <1>5 DEF Dbus, DbusHandle, DbusLeaves, DbusDrops, DbusPosts, DbusFinishes, Receiving, configVars
<1>6. CASE Config
  BY <1>6 DEF Config, SetDefaultKeymaps, LoadConfig, MapKeys, MapKey, Subscribe, Reload, TakeSignal,
              dbusVars
<1>7. CASE ConfigDies
  BY <1>7 DEF ConfigDies, dbusVars
<1> QED BY <1>1, <1>2, <1>3, <1>4, <1>5, <1>6, <1>7 DEF Next

\* A configuration process that was never started does not start, and only the first
\* request touches what a shutdown sets.
LEMMA ShutdownBegunStep == ShutdownBegun /\ [Next]_vars => ShutdownBegun'
<1> SUFFICES ASSUME ShutdownBegun, [Next]_vars PROVE ShutdownBegun'
  OBVIOUS
<1> USE DEF ShutdownBegun
<1>1. CASE Inputs
  BY <1>1 DEF Inputs, Quit, Post, ClearServedKeymaps, FileChanged, mainVars, configVars
<1>2. CASE Start
  BY <1>2 DEF Start, StartService, StartLoop, StartFails, mainVars, configVars
<1>3. CASE MainLoop
  <2>1. CASE HandleShutdown
    <3>1. CASE shuttingDown
      BY <2>1, <3>1 DEF HandleShutdown, Drain
    <3>2. CASE ~shuttingDown
      BY <2>1, <3>2 DEF HandleShutdown, InitShutdown, Drain
    <3> QED BY <3>1, <3>2
  <2>2. CASE HandleSeatEnabled \/ HandleAddKeymap \/ HandleClearKeymaps
    BY <2>2 DEF HandleSeatEnabled, HandleAddKeymap, HandleClearKeymaps, Drain
  <2>3. CASE CheckForShutdown \/ PollChannel \/ PollTimesOut \/ Drained
    BY <2>3 DEF CheckForShutdown, PollChannel, PollTimesOut, Drained, configVars
  <2> QED BY <1>3, <2>1, <2>2, <2>3 DEF MainLoop
<1>4. CASE \/ PollOther \/ (\E key \in Key : PollKey(key))
           \/ (\E sender \in Sender : Wake(sender)) \/ UNCHANGED vars
  BY <1>4 DEF PollOther, PollKey, Wake, vars, mainVars, configVars
<1>5. CASE TimeoutPasses
  BY <1>5 DEF TimeoutPasses, configVars
<1>6. CASE Dbus
  BY <1>6 DEF Dbus, DbusHandle, DbusLeaves, DbusDrops, DbusPosts, DbusFinishes, mainVars, configVars
<1>7. CASE Config
  BY <1>7 DEF Config, SetDefaultKeymaps, LoadConfig, MapKeys, MapKey, Subscribe, Reload, TakeSignal,
              mainVars
<1>8. CASE ConfigDies
  BY <1>8 DEF ConfigDies, mainVars
<1> QED BY <1>1, <1>2, <1>3, <1>4, <1>5, <1>6, <1>7, <1>8 DEF Next

LEMMA EndJustifiedStep == EndJustified /\ [Next]_vars => EndJustified'
<1> SUFFICES ASSUME EndJustified, [Next]_vars, main' = "ended"
             PROVE  shuttingDown' /\ (timeout' = "passed" \/ Stopped')
  BY DEF EndJustified
<1>1. CASE main # "ended"
  <2>1. CheckForShutdown
    BY <1>1 DEF Next, Wake, Inputs, Quit, Post, ClearServedKeymaps, FileChanged, Start, StartService, StartLoop,
                StartFails, MainLoop, PollChannel, PollTimesOut, Drain, HandleSeatEnabled,
                HandleAddKeymap, HandleClearKeymaps, HandleShutdown, Drained, PollOther, PollKey,
                TimeoutPasses, Dbus, DbusHandle, DbusLeaves, DbusDrops, DbusPosts, DbusFinishes,
                Config, SetDefaultKeymaps, LoadConfig, MapKeys, MapKey, Subscribe, Reload, TakeSignal,
                ConfigDies, vars, mainVars
  <2> QED BY <2>1 DEF CheckForShutdown, Stopped, dbusVars, configVars
<1>2. CASE main = "ended"
  <2>1. UNCHANGED <<shuttingDown, timeout>>
    BY <1>2 DEF Next, Wake, Inputs, Quit, Post, ClearServedKeymaps, FileChanged, Start, StartService, StartLoop,
                StartFails, MainLoop, CheckForShutdown, PollChannel, PollTimesOut, Drain,
                HandleSeatEnabled, HandleAddKeymap, HandleClearKeymaps, HandleShutdown, Drained,
                PollOther, PollKey, TimeoutPasses, Running, Dbus, DbusHandle, DbusLeaves, DbusDrops,
                DbusPosts, DbusFinishes, Config, SetDefaultKeymaps, LoadConfig, MapKeys, MapKey,
                Subscribe, Reload, TakeSignal, ConfigDies, vars, mainVars
  <2> QED BY <1>2, <2>1, StoppedStays DEF EndJustified
<1> QED BY <1>1, <1>2

LEMMA InvAlways == Spec => []Inv
<1>1. Inv /\ [Next]_vars => Inv'
  BY ShutdownBegunStep, EndJustifiedStep DEF Inv
<1> QED BY <1>1, InvInit, PTL DEF Spec

\* The loop is left only with the config process told to end, and with it and the D-Bus
\* thread gone unless the time is up.
THEOREM ExitAlwaysStopsAll == Spec => []ExitStopsAll
<1>1. Inv => ExitStopsAll
  BY DEF Inv, ShutdownBegun, EndJustified, Stopped, ExitStopsAll
<1> QED BY <1>1, InvAlways, PTL

\* A time that is up stays up, whatever is requested.
THEOREM EndNeverPutOff == Spec => EndNotPutOff
<1>1. Inv /\ [Next]_vars => [timeout = "passed" => timeout' = "passed"]_vars
  <2> SUFFICES ASSUME Inv, [Next]_vars, timeout = "passed" PROVE timeout' = "passed"
    OBVIOUS
  <2>1. shuttingDown
    BY DEF Inv, ShutdownBegun
  <2> QED
    BY <2>1 DEF Next, Wake, Inputs, Quit, Post, ClearServedKeymaps, FileChanged, Start, StartService, StartLoop,
                StartFails, MainLoop, CheckForShutdown, PollChannel, PollTimesOut, Drain,
                HandleSeatEnabled, HandleAddKeymap, HandleClearKeymaps, HandleShutdown, Drained,
                PollOther, PollKey, TimeoutPasses, Dbus, DbusHandle, DbusLeaves, DbusDrops, DbusPosts,
                DbusFinishes, Config, SetDefaultKeymaps, LoadConfig, MapKeys, MapKey, Subscribe,
                Reload, TakeSignal, ConfigDies, vars, mainVars
<1> QED BY <1>1, InvAlways, PTL DEF Spec, EndNotPutOff

----------------------------------------------------------------------------
(* The waker of the main thread's channel.                                 *)

\* Only a drain takes an edge, and it ends with the channel empty.
LEMMA DbusSendWakes ==
  ASSUME NEW msgs, NEW rest, DbusSend(msgs, rest), rest # <<>> => woken \/ waking # {},
         msgs # <<>>
  PROVE  mainQ' # <<>> => woken' \/ waking' # {}
BY DEF DbusSend

\* A sender is about to wake, or has woken.
LEMMA MainSendWakes ==
  ASSUME NEW sender, NEW msg, MainSend(sender, msg)
  PROVE  waking' # {}
BY DEF MainSend

LEMMA MessagesWakeStep == MessagesWake /\ [Next]_vars => MessagesWake'
<1> SUFFICES ASSUME MessagesWake, [Next]_vars PROVE MessagesWake'
  OBVIOUS
<1> USE DEF MessagesWake
<1>1. CASE Inputs
  <2>1. ASSUME NEW sender \in {"signals", "service"}, Quit(sender) PROVE MessagesWake'
    BY <2>1, MainSendWakes DEF Quit
  <2>2. CASE ClearServedKeymaps
    BY <2>2, MainSendWakes DEF ClearServedKeymaps
  <2>3. ASSUME NEW kind, Post(kind) PROVE MessagesWake'
    BY <2>3 DEF Post
  <2>4. CASE FileChanged
    BY <2>4 DEF FileChanged, mainVars
  <2>5. QED
    BY <1>1, <2>1, <2>2, <2>3, <2>4 DEF Inputs
<1>2. CASE StartService \/ StartFails \/ TimeoutPasses \/ UNCHANGED vars
  BY <1>2 DEF StartService, StartFails, TimeoutPasses, vars, mainVars
<1>3. CASE StartLoop
  BY <1>3, DbusSendWakes DEF StartLoop
<1>4. CASE CheckForShutdown \/ PollTimesOut \/ PollOther \/ Drained \/ PollChannel
  BY <1>4 DEF CheckForShutdown, PollTimesOut, PollOther, Drained, PollChannel
<1>5. CASE HandleSeatEnabled \/ HandleAddKeymap \/ HandleClearKeymaps \/ HandleShutdown
  BY <1>5 DEF HandleSeatEnabled, HandleAddKeymap, HandleClearKeymaps, HandleShutdown, Drain
<1>6. ASSUME NEW key \in Key, PollKey(key) PROVE MessagesWake'
  BY <1>6, DbusSendWakes DEF PollKey
<1>7. CASE Dbus
  <2>1. CASE DbusPosts
    BY <2>1, MainSendWakes DEF DbusPosts
  <2>2. CASE DbusHandle \/ DbusLeaves \/ DbusDrops \/ DbusFinishes
    BY <2>2 DEF DbusHandle, DbusLeaves, DbusDrops, DbusFinishes, mainVars
  <2>3. QED
    BY <1>7, <2>1, <2>2 DEF Dbus
<1>8. CASE Config \/ ConfigDies
  <2>1. ASSUME NEW key, MapKey(key) PROVE MessagesWake'
    <3>1. CASE key \in KnownKey
      BY <2>1, <3>1, MainSendWakes DEF MapKey
    <3>2. CASE key \notin KnownKey
      BY <2>1, <3>2 DEF MapKey
    <3>3. QED
      BY <3>1, <3>2
  <2>2. CASE ~(\E key : MapKey(key))
    BY <1>8, <2>2 DEF Config, SetDefaultKeymaps, LoadConfig, MapKeys, Subscribe, Reload, TakeSignal,
                      ConfigDies, mainVars
  <2>3. QED
    BY <2>1, <2>2
<1>9. CASE \E sender \in Sender : Wake(sender)
  BY <1>9 DEF Wake
<1>10. QED
  BY <1>1, <1>2, <1>3, <1>4, <1>5, <1>6, <1>7, <1>8, <1>9 DEF Next, Start, MainLoop

\* No message waits unnoticed in the channel while the main thread waits, whoever sent it:
\* the D-Bus thread, the object server, a handler of the loop itself (MessageSender::send
\* wakes after it has sent, handle_channel_messages receives until there is none).
THEOREM MessagesAlwaysWake == Spec => []MessagesWake
<1>1. Init => MessagesWake
  BY DEF Init, MessagesWake
<1>2. QED
  BY <1>1, MessagesWakeStep, PTL DEF Spec

----------------------------------------------------------------------------
(* Types.                                                                  *)

\* The next signal exists whenever one is subscribed to or waited for.
StepInSignals ==
  /\ step >= 1
  /\ config \in {"subscribe", "wait"} => step <= Len(Signals)
  /\ config = "reload" => step = 1

LEMMA Kinds ==
  /\ \A kind \in {"Shutdown", "MainSeatEnabled", "ClearKeymaps"} : [kind |-> kind] \in MainMessage
  /\ \A binding \in KeyBinding : [kind |-> "AddKeymap", binding |-> binding] \in MainMessage
  /\ \A msg \in MainMessage : msg.kind = "AddKeymap" => msg.binding \in KeyBinding
BY DEF MainMessage

LEMMA SignalsAre ==
  /\ Len(Signals) = 4
  /\ Signal = {"Ready", "OutputChanged", "DrmDevicesChanged", "BindingActivated"}
  /\ \A n \in 1..4 : Signals[n] \in Signal
<1>1. DOMAIN Signals = 1..4 /\ Len(Signals) = 4
  BY DEF Signals
<1>2. Signal = {Signals[n] : n \in 1..4}
  BY <1>1 DEF Signal, ToSet
<1>3. Signal = {Signals[1], Signals[2], Signals[3], Signals[4]}
  <2>1. 1..4 = {1, 2, 3, 4}
    OBVIOUS
  <2> QED BY <1>2, <2>1
<1>4. Signals[1] = "Ready" /\ Signals[2] = "OutputChanged" /\ Signals[3] = "DrmDevicesChanged"
        /\ Signals[4] = "BindingActivated"
  BY DEF Signals
<1> QED BY <1>1, <1>2, <1>3, <1>4

\* What a send leaves in the channels.
LEMMA MainSendTypes ==
  ASSUME TypeOK, NEW msg \in MainMessage, NEW sender \in Sender, MainSend(sender, msg)
  PROVE  mainQ' \in Seq(MainMessage) /\ woken' \in BOOLEAN /\ waking' \subseteq Sender
BY DEF TypeOK, MainSend

LEMMA DbusSendTypes ==
  ASSUME TypeOK, NEW msgs \in Seq(DbusMessage), NEW rest \in Seq(MainMessage), DbusSend(msgs, rest)
  PROVE  /\ mainQ' \in Seq(MainMessage) /\ dbusQ' \in Seq(DbusMessage)
         /\ woken' \in BOOLEAN /\ waking' \subseteq Sender
<1>1. CASE Receiving
  <2>1. dbusQ' = dbusQ \o msgs /\ mainQ' = rest /\ woken' = woken /\ waking' = waking
    BY <1>1 DEF DbusSend
  <2>2. dbusQ' \in Seq(DbusMessage)
    BY <2>1 DEF TypeOK
  <2> QED BY <2>1, <2>2 DEF TypeOK
<1>2. CASE ~Receiving
  <2> DEFINE requests == [n \in DOMAIN msgs |-> [kind |-> "Shutdown"]]
  <2>1. requests \in Seq(MainMessage)
    <3>1. [kind |-> "Shutdown"] \in MainMessage
      BY Kinds
    <3>2. DOMAIN msgs = 1..Len(msgs) /\ Len(msgs) \in Nat
      OBVIOUS
    <3> QED BY <3>1, <3>2
  <2>2. mainQ' = rest \o requests /\ UNCHANGED <<dbusQ, waking>> /\ woken' = (woken \/ msgs # <<>>)
    BY <1>2 DEF DbusSend
  <2>3. mainQ' \in Seq(MainMessage)
    BY <2>1, <2>2
  <2>4. dbusQ' \in Seq(DbusMessage)
    BY <2>2 DEF TypeOK
  <2>5. woken' \in BOOLEAN
    BY <2>2, Zenon DEF TypeOK
  <2>6. waking' \subseteq Sender
    BY <2>2 DEF TypeOK
  <2> QED BY <2>3, <2>4, <2>5, <2>6
<1> QED BY <1>1, <1>2

LEMMA TypesInit == Init => TypeOK /\ StepInSignals
<1> SUFFICES ASSUME Init PROVE TypeOK /\ StepInSignals
  OBVIOUS
<1>1. streams \in [Signal -> Nat]
  BY DEF Init
<1>2. TypeOK
  <2>1. main \in MainPhase /\ dbus \in DbusPhase /\ config \in ConfigPhase
    BY DEF Init, MainPhase, DbusPhase, ConfigPhase
  <2>2. mainQ \in Seq(MainMessage) /\ dbusQ \in Seq(DbusMessage)
    BY DEF Init
  <2>3. keymaps \in Seq(KeyBinding) /\ served \in Seq(KeyBinding)
    BY DEF Init
  <2>4. woken \in BOOLEAN /\ waking \subseteq Sender /\ shuttingDown \in BOOLEAN /\ killed \in BOOLEAN
    BY DEF Init
  <2>5. subscribed \subseteq Signal
    BY DEF Init
  <2> QED BY <1>1, <2>1, <2>2, <2>3, <2>4, <2>5 DEF Init, TypeOK
<1>3. StepInSignals
  BY DEF Init, StepInSignals
<1> QED BY <1>2, <1>3

LEMMA TypesInputs == TypeOK /\ StepInSignals /\ Inputs => TypeOK' /\ StepInSignals'
<1> SUFFICES ASSUME TypeOK, StepInSignals, Inputs PROVE TypeOK' /\ StepInSignals'
  OBVIOUS
<1>1. ASSUME NEW sender \in {"signals", "service"}, Quit(sender)
      PROVE  TypeOK' /\ StepInSignals'
  <2>1. mainQ' \in Seq(MainMessage) /\ woken' \in BOOLEAN /\ waking' \subseteq Sender
    BY <1>1, Kinds, MainSendTypes DEF Quit, Sender
  <2>2. inputs' \in Nat
    BY <1>1 DEF Quit, Input, TypeOK
  <2> QED BY <1>1, <2>1, <2>2 DEF Quit, TypeOK, StepInSignals, dbusVars, configVars
<1>2. CASE ClearServedKeymaps
  <2>1. mainQ' \in Seq(MainMessage) /\ woken' \in BOOLEAN /\ waking' \subseteq Sender
    BY <1>2, Kinds, MainSendTypes DEF ClearServedKeymaps, Sender
  <2>2. inputs' \in Nat /\ served' \in Seq(KeyBinding)
    BY <1>2 DEF ClearServedKeymaps, Input, TypeOK
  <2> QED BY <1>2, <2>1, <2>2 DEF ClearServedKeymaps, TypeOK, StepInSignals, configVars
<1>3. ASSUME NEW kind \in {"Shutdown", "MainSeatEnabled"}, Post(kind)
      PROVE  TypeOK' /\ StepInSignals'
  <2>1. mainQ' \in Seq(MainMessage)
    BY <1>3, Kinds DEF Post, TypeOK
  <2>2. inputs' \in Nat
    BY <1>3 DEF Post, Input, TypeOK
  <2> QED BY <1>3, <2>1, <2>2 DEF Post, TypeOK, StepInSignals, dbusVars, configVars
<1>4. CASE FileChanged
  BY <1>4 DEF FileChanged, Input, TypeOK, StepInSignals, mainVars, dbusVars
<1> QED BY <1>1, <1>2, <1>3, <1>4 DEF Inputs

\* A wake.
LEMMA TypesWake ==
  ASSUME TypeOK, StepInSignals, NEW sender \in Sender, Wake(sender)
  PROVE  TypeOK' /\ StepInSignals'
BY DEF Wake, TypeOK, StepInSignals, dbusVars, configVars

LEMMA TypesStart == TypeOK /\ StepInSignals /\ Start => TypeOK' /\ StepInSignals'
<1> SUFFICES ASSUME TypeOK, StepInSignals, Start PROVE TypeOK' /\ StepInSignals'
  OBVIOUS
<1>1. CASE StartService
  BY <1>1 DEF StartService, TypeOK, StepInSignals, DbusPhase, mainVars, configVars
<1>2. CASE StartLoop
  <2>1. /\ mainQ' \in Seq(MainMessage) /\ dbusQ' \in Seq(DbusMessage)
        /\ woken' \in BOOLEAN /\ waking' \subseteq Sender
    <3>1. <<"SetDrmDevices">> \in Seq(DbusMessage) /\ mainQ \in Seq(MainMessage)
      BY DEF DbusMessage, TypeOK
    <3> QED BY <1>2, <3>1, DbusSendTypes DEF StartLoop
  <2> QED BY <1>2, <2>1 DEF StartLoop, TypeOK, StepInSignals, MainPhase, configVars
<1>3. CASE StartFails
  BY <1>3 DEF StartFails, TypeOK, StepInSignals, MainPhase, dbusVars, configVars
<1> QED BY <1>1, <1>2, <1>3 DEF Start

\* What is behind the message that is handled.
LEMMA DrainTypes ==
  ASSUME TypeOK, NEW kind, Drain(kind)
  PROVE  Tail(mainQ) \in Seq(MainMessage) /\ Head(mainQ) \in MainMessage /\ Head(mainQ).kind = kind
BY DEF TypeOK, Drain

LEMMA TypesMainLoop == TypeOK /\ StepInSignals /\ MainLoop => TypeOK' /\ StepInSignals'
<1> SUFFICES ASSUME TypeOK, StepInSignals, MainLoop PROVE TypeOK' /\ StepInSignals'
  OBVIOUS
<1>1. CASE CheckForShutdown \/ PollTimesOut \/ Drained
  BY <1>1 DEF CheckForShutdown, PollTimesOut, Drained, TypeOK, StepInSignals, MainPhase, dbusVars,
              configVars
<1>2. CASE PollChannel
  BY <1>2 DEF PollChannel, TypeOK, StepInSignals, MainPhase, dbusVars, configVars
<1>3. CASE HandleSeatEnabled
  <2>1. Tail(mainQ) \in Seq(MainMessage)
    BY <1>3, DrainTypes DEF HandleSeatEnabled
  <2>2. <<>> \in Seq(DbusMessage) /\ <<"DrmDevicesChanged", "Ready">> \in Seq(DbusMessage)
    BY SignalsAre DEF DbusMessage
  <2>3. /\ mainQ' \in Seq(MainMessage) /\ dbusQ' \in Seq(DbusMessage)
        /\ woken' \in BOOLEAN /\ waking' \subseteq Sender
    BY <1>3, <2>1, <2>2, DbusSendTypes DEF HandleSeatEnabled
  <2> QED BY <1>3, <2>3 DEF HandleSeatEnabled, Drain, TypeOK, StepInSignals
<1>4. CASE HandleAddKeymap
  <2>1. Tail(mainQ) \in Seq(MainMessage) /\ Head(mainQ).binding \in KeyBinding
    BY <1>4, DrainTypes, Kinds DEF HandleAddKeymap
  <2>2. mainQ' \in Seq(MainMessage) /\ keymaps' \in Seq(KeyBinding)
    BY <1>4, <2>1 DEF HandleAddKeymap, TypeOK
  <2> QED BY <1>4, <2>2 DEF HandleAddKeymap, Drain, TypeOK, StepInSignals
<1>5. CASE HandleClearKeymaps
  <2>1. mainQ' \in Seq(MainMessage) /\ keymaps' \in Seq(KeyBinding)
    BY <1>5, DrainTypes DEF HandleClearKeymaps
  <2> QED BY <1>5, <2>1 DEF HandleClearKeymaps, Drain, TypeOK, StepInSignals
<1>6. CASE HandleShutdown
  <2>1. Tail(mainQ) \in Seq(MainMessage)
    BY <1>6, DrainTypes DEF HandleShutdown
  <2>2. CASE shuttingDown
    <3>1. mainQ' \in Seq(MainMessage)
      BY <1>6, <2>1, <2>2 DEF HandleShutdown
    <3> QED BY <1>6, <2>2, <3>1 DEF HandleShutdown, Drain, TypeOK, StepInSignals
  <2>3. CASE ~shuttingDown
    <3>1. InitShutdown
      BY <1>6, <2>3 DEF HandleShutdown
    <3>2. /\ mainQ' \in Seq(MainMessage) /\ dbusQ' \in Seq(DbusMessage)
          /\ woken' \in BOOLEAN /\ waking' \subseteq Sender
      <4>1. <<"Shutdown">> \in Seq(DbusMessage)
        BY DEF DbusMessage
      <4> QED BY <2>1, <3>1, <4>1, DbusSendTypes DEF InitShutdown
    <3>3. shuttingDown' \in BOOLEAN /\ killed' \in BOOLEAN /\ timeout' \in {"none", "armed", "passed"}
      BY <3>1 DEF InitShutdown
    <3> QED BY <1>6, <3>2, <3>3 DEF HandleShutdown, Drain, TypeOK, StepInSignals
  <2> QED BY <2>2, <2>3
<1> QED BY <1>1, <1>2, <1>3, <1>4, <1>5, <1>6 DEF MainLoop

LEMMA TypesEvents ==
  /\ TypeOK /\ StepInSignals
  /\ PollOther \/ (\E key \in Key : PollKey(key)) \/ TimeoutPasses \/ ConfigDies \/ UNCHANGED vars
  => TypeOK' /\ StepInSignals'
<1> SUFFICES ASSUME TypeOK, StepInSignals,
                    PollOther \/ (\E key \in Key : PollKey(key)) \/ TimeoutPasses \/ ConfigDies
                      \/ UNCHANGED vars
             PROVE  TypeOK' /\ StepInSignals'
  OBVIOUS
<1>1. CASE PollOther
  BY <1>1 DEF PollOther, TypeOK, StepInSignals, MainPhase, dbusVars, configVars
<1>2. ASSUME NEW key \in Key, PollKey(key) PROVE TypeOK' /\ StepInSignals'
  <2>1. <<"BindingActivated">> \in Seq(DbusMessage) /\ mainQ \in Seq(MainMessage)
    BY SignalsAre DEF DbusMessage, TypeOK
  <2>2. /\ mainQ' \in Seq(MainMessage) /\ dbusQ' \in Seq(DbusMessage)
        /\ woken' \in BOOLEAN /\ waking' \subseteq Sender
    BY <1>2, <2>1, DbusSendTypes DEF PollKey
  <2>3. inputs' \in Nat
    BY <1>2 DEF PollKey, Input, TypeOK
  <2> QED BY <1>2, <2>2, <2>3 DEF PollKey, TypeOK, StepInSignals, MainPhase, configVars
<1>3. CASE TimeoutPasses
  BY <1>3 DEF TimeoutPasses, TypeOK, StepInSignals, dbusVars, configVars
<1>4. CASE ConfigDies
  BY <1>4 DEF ConfigDies, TypeOK, StepInSignals, ConfigPhase, mainVars, dbusVars
<1>5. CASE UNCHANGED vars
  BY <1>5 DEF vars, TypeOK, StepInSignals, mainVars, dbusVars, configVars
<1> QED BY <1>1, <1>2, <1>3, <1>4, <1>5

LEMMA TypesDbus == TypeOK /\ StepInSignals /\ Dbus => TypeOK' /\ StepInSignals'
<1> SUFFICES ASSUME TypeOK, StepInSignals, Dbus PROVE TypeOK' /\ StepInSignals'
  OBVIOUS
<1>1. CASE DbusHandle
  <2>1. dbusQ' \in Seq(DbusMessage)
    BY <1>1 DEF DbusHandle, TypeOK
  <2>2. streams' \in [Signal -> Nat]
    BY <1>1 DEF DbusHandle, TypeOK
  <2>3. dbus' \in DbusPhase
    BY <1>1 DEF DbusHandle, TypeOK, DbusPhase
  <2> QED BY <1>1, <2>1, <2>2, <2>3 DEF DbusHandle, TypeOK, StepInSignals, mainVars
<1>2. CASE DbusLeaves \/ DbusFinishes
  BY <1>2 DEF DbusLeaves, DbusFinishes, TypeOK, StepInSignals, DbusPhase, mainVars, configVars
<1>3. CASE DbusDrops
  BY <1>3 DEF DbusDrops, TypeOK, StepInSignals, DbusPhase, mainVars, configVars
<1>4. CASE DbusPosts
  <2>1. mainQ' \in Seq(MainMessage) /\ woken' \in BOOLEAN /\ waking' \subseteq Sender
    BY <1>4, Kinds, MainSendTypes DEF DbusPosts, Sender
  <2> QED BY <1>4, <2>1 DEF DbusPosts, TypeOK, StepInSignals, DbusPhase, configVars
<1> QED BY <1>1, <1>2, <1>3, <1>4 DEF Dbus

\* A phase that maps keys, one of which is next unless all are mapped.
LEMMA TypesMapKeys ==
  ASSUME TypeOK, StepInSignals, NEW from \in {"defaults", "load"}, NEW keys \in Seq(Key),
         NEW next \in {"load", "subscribe", "reload"}, MapKeys(from, keys, next)
  PROVE  TypeOK' /\ StepInSignals'
<1>1. CASE step <= Len(keys) /\ MapKey(keys[step]) /\ step' = step + 1 /\ UNCHANGED config
  <2> DEFINE binding == [key |-> keys[step], id |-> callbacks]
  <2>1. binding \in KeyBinding
    BY <1>1 DEF TypeOK, StepInSignals, KeyBinding
  <2>2. served' = Append(served, binding) /\ callbacks' = callbacks + 1
    BY <1>1 DEF MapKey
  <2>3. served' \in Seq(KeyBinding) /\ callbacks' \in Nat
    BY <2>1, <2>2 DEF TypeOK
  <2>4. mainQ' \in Seq(MainMessage) /\ woken' \in BOOLEAN /\ waking' \subseteq Sender
    <3>1. [kind |-> "AddKeymap", binding |-> binding] \in MainMessage
      BY <2>1, Kinds
    <3>2. CASE MainSend("service", [kind |-> "AddKeymap", binding |-> binding])
      BY <3>1, <3>2, MainSendTypes DEF Sender
    <3>3. CASE UNCHANGED <<mainQ, waker>>
      BY <3>3 DEF TypeOK
    <3> QED BY <1>1, <3>2, <3>3 DEF MapKey
  <2>5. step' \in Nat /\ StepInSignals'
    BY <1>1 DEF MapKeys, TypeOK, StepInSignals
  <2> QED BY <1>1, <2>3, <2>4, <2>5 DEF MapKeys, MapKey, TypeOK
<1>2. CASE callbacks' \in Nat /\ config' = next /\ step' = 1 /\ UNCHANGED <<mainVars, dbusVars>>
  <2>1. config' \in ConfigPhase /\ step' \in Nat
    BY <1>2 DEF ConfigPhase
  <2>2. StepInSignals'
    BY <1>2, SignalsAre DEF StepInSignals
  <2> QED BY <1>2, <2>1, <2>2 DEF MapKeys, TypeOK, mainVars, dbusVars
<1>3. callbacks \in Nat /\ callbacks + 1 \in Nat
  BY DEF TypeOK
<1> QED BY <1>1, <1>2, <1>3 DEF MapKeys

LEMMA TypesConfig == TypeOK /\ StepInSignals /\ Config => TypeOK' /\ StepInSignals'
<1> SUFFICES ASSUME TypeOK, StepInSignals, Config PROVE TypeOK' /\ StepInSignals'
  OBVIOUS
<1>1. CASE SetDefaultKeymaps
  BY <1>1, TypesMapKeys, ScriptAssumption DEF SetDefaultKeymaps
<1>2. CASE LoadConfig
  BY <1>2, TypesMapKeys, ScriptAssumption DEF LoadConfig
<1>3. CASE Subscribe
  <2>1. step \in 1..4
    BY <1>3, SignalsAre DEF Subscribe, TypeOK, StepInSignals
  <2>2. subscribed' \subseteq Signal
    BY <1>3, <2>1, SignalsAre DEF Subscribe, TypeOK
  <2>3. config' \in ConfigPhase /\ step' \in Nat /\ StepInSignals'
    BY <1>3, <2>1, SignalsAre DEF Subscribe, TypeOK, StepInSignals, ConfigPhase
  <2> QED BY <1>3, <2>2, <2>3 DEF Subscribe, TypeOK, mainVars, dbusVars
<1>4. CASE Reload
  <2>1. config' \in ConfigPhase /\ reloads' \in Nat
    BY <1>4 DEF Reload, TypeOK, ConfigPhase
  <2>2. StepInSignals'
    BY <1>4, SignalsAre DEF Reload, StepInSignals
  <2> QED BY <1>4, <2>1, <2>2 DEF Reload, TypeOK, mainVars, dbusVars
<1>5. CASE TakeSignal
  <2>1. step \in 1..4
    BY <1>5, SignalsAre DEF TakeSignal, TypeOK, StepInSignals
  <2>2. streams' \in [Signal -> Nat]
    <3>1. /\ Signals[step] \in Signal /\ streams \in [Signal -> Nat]
          /\ streams[Signals[step]] > 0
          /\ streams' = [streams EXCEPT ![Signals[step]] = streams[Signals[step]] - 1]
      BY <1>5, <2>1, SignalsAre DEF TakeSignal, TypeOK
    <3>2. streams[Signals[step]] - 1 \in Nat
      BY <3>1
    <3>3. QED
      BY <3>1, <3>2
  <2>3. config' \in ConfigPhase /\ step' \in Nat /\ StepInSignals'
    <3>1. CASE step < Len(Signals)
      <4>1. config' = "wait" /\ step' = step + 1
        BY <1>5, <3>1 DEF TakeSignal
      <4>2. step' \in 1..4
        BY <2>1, <3>1, <4>1, SignalsAre
      <4>3. QED
        BY <4>1, <4>2, SignalsAre DEF StepInSignals, ConfigPhase
    <3>2. CASE ~(step < Len(Signals))
      <4>1. config' = "reload" /\ step' = 1
        BY <1>5, <3>2 DEF TakeSignal
      <4>2. QED
        BY <4>1, SignalsAre DEF StepInSignals, ConfigPhase
    <3>3. QED
      BY <3>1, <3>2
  <2> QED BY <1>5, <2>2, <2>3 DEF TakeSignal, TypeOK, mainVars, dbusVars
<1> QED BY <1>1, <1>2, <1>3, <1>4, <1>5 DEF Config

\* Every message and signal is of its kind, and the process waits for a signal that exists.
THEOREM TypeCorrect == Spec => []TypeOK
<1>1. TypeOK /\ StepInSignals /\ [Next]_vars => (TypeOK /\ StepInSignals)'
  BY TypesInputs, TypesWake, TypesStart, TypesMainLoop, TypesEvents, TypesDbus, TypesConfig DEF Next
<1> QED BY <1>1, TypesInit, PTL DEF Spec

----------------------------------------------------------------------------
(* The key bindings.                                                       *)

\* The bindings that a line of messages adds to stay are those of the list that the
\* input can know, both are in the order of their ids, and no id is used up to next.
Agree(line, list, next) ==
  /\ {line[n].binding : n \in Additions(line)} = {list[n] : n \in {m \in DOMAIN list : list[m].key \in KnownKey}}
  /\ \A m, n \in Additions(line) : m < n => line[m].binding.id < line[n].binding.id
  /\ \A m, n \in DOMAIN list : m < n => list[m].id < list[n].id
  /\ \A n \in Additions(line) : line[n].binding.id < next
  /\ \A n \in DOMAIN list : list[n].id < next

\* The line of a list of bindings and a channel.
LineOf(bindings, queue) ==
  [n \in DOMAIN bindings |-> [kind |-> "AddKeymap", binding |-> bindings[n]]] \o queue

LEMMA IdNumbers ==
  ASSUME NEW list \in Seq(KeyBinding)
  PROVE  \A n \in DOMAIN list : list[n].id \in Nat
<1>1. \A n \in DOMAIN list : list[n] \in KeyBinding
  OBVIOUS
<1>2. QED
  BY <1>1 DEF KeyBinding

LEMMA LineElements ==
  ASSUME NEW bindings \in Seq(KeyBinding), NEW queue \in Seq(MainMessage)
  PROVE  /\ LineOf(bindings, queue) \in Seq(MainMessage)
         /\ Len(LineOf(bindings, queue)) = Len(bindings) + Len(queue)
         /\ \A n \in 1..Len(bindings) :
              LineOf(bindings, queue)[n] = [kind |-> "AddKeymap", binding |-> bindings[n]]
         /\ \A n \in 1..Len(queue) : LineOf(bindings, queue)[Len(bindings) + n] = queue[n]
<1> DEFINE front == [n \in 1..Len(bindings) |-> [kind |-> "AddKeymap", binding |-> bindings[n]]]
<1>1. Len(bindings) \in Nat /\ DOMAIN bindings = 1..Len(bindings)
  OBVIOUS
<1>2. \A n \in 1..Len(bindings) : bindings[n] \in KeyBinding
  OBVIOUS
<1>3. \A n \in 1..Len(bindings) : [kind |-> "AddKeymap", binding |-> bindings[n]] \in MainMessage
  BY <1>2, Kinds
<1>4. front \in Seq(MainMessage) /\ Len(front) = Len(bindings)
  BY <1>1, <1>3
<1>5. LineOf(bindings, queue) = front \o queue
  BY <1>1 DEF LineOf
<1>6. \A n \in 1..Len(bindings) : front[n] = [kind |-> "AddKeymap", binding |-> bindings[n]]
  OBVIOUS
<1> HIDE DEF front
<1>7. /\ front \o queue \in Seq(MainMessage) /\ Len(front \o queue) = Len(front) + Len(queue)
      /\ \A n \in 1..Len(front) : (front \o queue)[n] = front[n]
      /\ \A n \in 1..Len(queue) : (front \o queue)[Len(front) + n] = queue[n]
  BY <1>4
<1>8. QED
  BY <1>1, <1>4, <1>5, <1>6, <1>7

\* kept is what is left of line without messages that neither add a binding to stay nor
\* clear one that is kept; from tells where each comes from.
Keeps(line, kept, from) ==
  /\ from \in [1..Len(kept) -> 1..Len(line)]
  /\ \A n \in 1..Len(kept) : kept[n] = line[from[n]]
  /\ \A m, n \in 1..Len(kept) : m < n => from[m] < from[n]
  /\ \A i \in Additions(line) : \E n \in 1..Len(kept) : i = from[n]
  /\ \A i \in 1..Len(line) : line[i].kind = "ClearKeymaps" =>
       (\E n \in 1..Len(kept) : i = from[n]) \/ (\A n \in 1..Len(kept) : i < from[n])

\* The messages that are kept, in their order, are all that matter: those that are not
\* add nothing to stay, and clear nothing that is kept.
LEMMA KeptLine ==
  ASSUME NEW line \in Seq(MainMessage), NEW kept \in Seq(MainMessage), NEW from,
         Keeps(line, kept, from), NEW list \in Seq(KeyBinding), NEW next \in Nat
  PROVE  Agree(line, list, next) <=> Agree(kept, list, next)
<1>0. /\ from \in [1..Len(kept) -> 1..Len(line)]
      /\ \A n \in 1..Len(kept) : kept[n] = line[from[n]]
      /\ \A m, n \in 1..Len(kept) : m < n => from[m] < from[n]
      /\ \A i \in Additions(line) : \E n \in 1..Len(kept) : i = from[n]
      /\ \A i \in 1..Len(line) : line[i].kind = "ClearKeymaps" =>
           (\E n \in 1..Len(kept) : i = from[n]) \/ (\A n \in 1..Len(kept) : i < from[n])
  BY DEF Keeps
<1> USE <1>0
<1>1. Len(line) \in Nat /\ Len(kept) \in Nat /\ DOMAIN line = 1..Len(line) /\ DOMAIN kept = 1..Len(kept)
  OBVIOUS
<1>2. \A n \in 1..Len(kept) : from[n] \in 1..Len(line) /\ from[n] \in Int
  BY <1>1
<1>3. \A m, n \in 1..Len(kept) : from[m] < from[n] => m < n
  <2> SUFFICES ASSUME NEW m \in 1..Len(kept), NEW n \in 1..Len(kept), from[m] < from[n], ~(m < n)
               PROVE  FALSE
    OBVIOUS
  <2>1. n = m \/ n < m
    OBVIOUS
  <2>2. from[n] = from[m] \/ from[n] < from[m]
    BY <2>1
  <2>3. QED
    BY <1>2, <2>2
<1>4. ASSUME NEW n \in 1..Len(kept) PROVE n \in Additions(kept) <=> from[n] \in Additions(line)
  <2>1. kept[n] = line[from[n]]
    OBVIOUS
  <2>2. ASSUME \A m \in 1..Len(kept) : m > n => kept[m].kind # "ClearKeymaps",
               NEW i \in 1..Len(line), i > from[n], line[i].kind = "ClearKeymaps"
        PROVE  FALSE
    <3>1. ~(i < from[n])
      BY <1>2, <2>2
    <3>2. PICK m \in 1..Len(kept) : i = from[m]
      BY <2>2, <3>1
    <3>3. m > n
      BY <1>3, <2>2, <3>2
    <3>4. QED
      BY <2>2, <3>2, <3>3
  <2>3. ASSUME \A i \in 1..Len(line) : i > from[n] => line[i].kind # "ClearKeymaps",
               NEW m \in 1..Len(kept), m > n
        PROVE  kept[m].kind # "ClearKeymaps"
    <3>1. from[m] > from[n] /\ from[m] \in 1..Len(line)
      BY <1>2, <2>3
    <3>2. QED
      BY <2>3, <3>1
  <2>4. QED
    BY <1>1, <1>2, <2>1, <2>2, <2>3 DEF Additions
<1>5. /\ Additions(line) \subseteq 1..Len(line) /\ Additions(kept) \subseteq 1..Len(kept)
      /\ \A n \in Additions(kept) : from[n] \in Additions(line) /\ kept[n] = line[from[n]]
      /\ \A i \in Additions(line) : \E n \in Additions(kept) : i = from[n]
  <2>1. Additions(line) \subseteq 1..Len(line) /\ Additions(kept) \subseteq 1..Len(kept)
    BY <1>1 DEF Additions
  <2>2. ASSUME NEW i \in Additions(line) PROVE \E n \in Additions(kept) : i = from[n]
    <3>1. PICK n \in 1..Len(kept) : i = from[n]
      OBVIOUS
    <3>2. n \in Additions(kept)
      BY <1>4, <3>1
    <3>3. QED
      BY <3>1, <3>2
  <2>3. QED
    BY <1>4, <2>1, <2>2
<1>6. {line[n].binding : n \in Additions(line)} = {kept[n].binding : n \in Additions(kept)}
  <2>1. ASSUME NEW i \in Additions(line)
        PROVE  line[i].binding \in {kept[n].binding : n \in Additions(kept)}
    <3>1. PICK n \in Additions(kept) : i = from[n]
      BY <1>5
    <3>2. kept[n].binding = line[i].binding
      BY <1>5, <3>1
    <3>3. QED
      BY <3>2
  <2>2. ASSUME NEW n \in Additions(kept)
        PROVE  kept[n].binding \in {line[i].binding : i \in Additions(line)}
    <3>1. from[n] \in Additions(line) /\ line[from[n]].binding = kept[n].binding
      BY <1>5
    <3>2. QED
      BY <3>1
  <2>3. {line[n].binding : n \in Additions(line)} \subseteq {kept[n].binding : n \in Additions(kept)}
    BY <2>1
  <2>4. {kept[n].binding : n \in Additions(kept)} \subseteq {line[n].binding : n \in Additions(line)}
    BY <2>2
  <2>5. QED
    BY <2>3, <2>4
<1>7. (\A m, n \in Additions(line) : m < n => line[m].binding.id < line[n].binding.id)
        <=> (\A m, n \in Additions(kept) : m < n => kept[m].binding.id < kept[n].binding.id)
  <2>1. ASSUME \A m, n \in Additions(line) : m < n => line[m].binding.id < line[n].binding.id,
               NEW m \in Additions(kept), NEW n \in Additions(kept), m < n
        PROVE  kept[m].binding.id < kept[n].binding.id
    <3>1. from[m] < from[n]
      BY <1>5, <2>1
    <3>2. line[from[m]].binding.id < line[from[n]].binding.id
      BY <1>5, <2>1, <3>1
    <3>3. QED
      BY <1>5, <3>2
  <2>2. ASSUME \A m, n \in Additions(kept) : m < n => kept[m].binding.id < kept[n].binding.id,
               NEW i \in Additions(line), NEW j \in Additions(line), i < j
        PROVE  line[i].binding.id < line[j].binding.id
    <3>1. PICK m \in Additions(kept), n \in Additions(kept) : i = from[m] /\ j = from[n]
      BY <1>5
    <3>2. m < n
      BY <1>3, <1>5, <2>2, <3>1
    <3>3. kept[m].binding.id < kept[n].binding.id
      BY <2>2, <3>2
    <3>4. QED
      BY <1>5, <3>1, <3>3
  <2>3. QED
    BY <2>1, <2>2
<1>8. (\A n \in Additions(line) : line[n].binding.id < next)
        <=> (\A n \in Additions(kept) : kept[n].binding.id < next)
  <2>1. ASSUME \A n \in Additions(line) : line[n].binding.id < next, NEW n \in Additions(kept)
        PROVE  kept[n].binding.id < next
    BY <1>5, <2>1
  <2>2. ASSUME \A n \in Additions(kept) : kept[n].binding.id < next, NEW i \in Additions(line)
        PROVE  line[i].binding.id < next
    <3>1. PICK n \in Additions(kept) : i = from[n]
      BY <1>5
    <3>2. kept[n] = line[i] /\ kept[n].binding.id < next
      BY <1>5, <2>2, <3>1
    <3>3. QED
      BY <3>2
  <2>3. QED
    BY <2>1, <2>2
<1>9. QED
  BY <1>6, <1>7, <1>8 DEF Agree

\* Messages behind the line that neither add nor clear.
LEMMA InertBehind ==
  ASSUME NEW line \in Seq(MainMessage), NEW longer \in Seq(MainMessage),
         Len(line) <= Len(longer),
         \A n \in 1..Len(line) : longer[n] = line[n],
         \A n \in Len(line) + 1..Len(longer) : longer[n].kind \notin {"AddKeymap", "ClearKeymaps"},
         NEW list \in Seq(KeyBinding), NEW next \in Nat
  PROVE  Agree(line, list, next) <=> Agree(longer, list, next)
<1> DEFINE from == [n \in 1..Len(line) |-> n]
<1>1. Len(line) \in Nat /\ Len(longer) \in Nat /\ DOMAIN longer = 1..Len(longer)
  OBVIOUS
<1>2. from \in [1..Len(line) -> 1..Len(longer)] /\ \A n \in 1..Len(line) : from[n] = n
  BY <1>1
<1> HIDE DEF from
<1>3. \A i \in 1..Len(longer) : longer[i].kind \in {"AddKeymap", "ClearKeymaps"} => i \in 1..Len(line)
  BY <1>1
<1>4. \A i \in Additions(longer) : i \in 1..Len(line)
  BY <1>1, <1>3 DEF Additions
<1>5. /\ \A n \in 1..Len(line) : line[n] = longer[from[n]]
      /\ \A m, n \in 1..Len(line) : m < n => from[m] < from[n]
      /\ \A i \in Additions(longer) : \E n \in 1..Len(line) : i = from[n]
      /\ \A i \in 1..Len(longer) : longer[i].kind = "ClearKeymaps" =>
           (\E n \in 1..Len(line) : i = from[n]) \/ (\A n \in 1..Len(line) : i < from[n])
  BY <1>1, <1>2, <1>3, <1>4
<1>6. Keeps(longer, line, from)
  BY <1>2, <1>5 DEF Keeps
<1>7. QED
  BY <1>6, KeptLine

\* A message at the head of the channel that neither adds nor clears.
LEMMA InertTaken ==
  ASSUME NEW bindings \in Seq(KeyBinding), NEW queue \in Seq(MainMessage), queue # <<>>,
         Head(queue).kind \notin {"AddKeymap", "ClearKeymaps"},
         NEW list \in Seq(KeyBinding), NEW next \in Nat
  PROVE  Agree(LineOf(bindings, queue), list, next) <=> Agree(LineOf(bindings, Tail(queue)), list, next)
<1> DEFINE line == LineOf(bindings, queue)
           kept == LineOf(bindings, Tail(queue))
           k == Len(bindings)
           from == [n \in 1..Len(kept) |-> IF n <= k THEN n ELSE n + 1]
<1>1. k \in Nat /\ Len(queue) \in Nat \ {0} /\ Tail(queue) \in Seq(MainMessage)
        /\ Len(Tail(queue)) = Len(queue) - 1
        /\ \A n \in 1..Len(queue) - 1 : Tail(queue)[n] = queue[n + 1]
  OBVIOUS
<1>2. /\ line \in Seq(MainMessage) /\ Len(line) = k + Len(queue)
      /\ \A n \in 1..k : line[n] = [kind |-> "AddKeymap", binding |-> bindings[n]]
      /\ \A n \in 1..Len(queue) : line[k + n] = queue[n]
  BY LineElements
<1>3. /\ kept \in Seq(MainMessage) /\ Len(kept) = k + Len(queue) - 1
      /\ \A n \in 1..k : kept[n] = [kind |-> "AddKeymap", binding |-> bindings[n]]
      /\ \A n \in 1..Len(queue) - 1 : kept[k + n] = queue[n + 1]
  <2>1. /\ kept \in Seq(MainMessage) /\ Len(kept) = k + Len(Tail(queue))
        /\ \A n \in 1..k : kept[n] = [kind |-> "AddKeymap", binding |-> bindings[n]]
        /\ \A n \in 1..Len(Tail(queue)) : kept[k + n] = Tail(queue)[n]
    BY <1>1, LineElements
  <2> HIDE DEF kept, k
  <2>2. QED
    BY <1>1, <2>1
<1>4. from \in [1..Len(kept) -> 1..Len(line)]
        /\ \A n \in 1..Len(kept) : from[n] = IF n <= k THEN n ELSE n + 1
  BY <1>1, <1>2, <1>3
<1> HIDE DEF line, kept, k, from
<1>5. ASSUME NEW n \in 1..Len(kept) PROVE kept[n] = line[from[n]]
  <2>1. CASE n <= k
    <3>1. n \in 1..k /\ from[n] = n
      BY <1>4, <2>1
    <3>2. kept[n] = [kind |-> "AddKeymap", binding |-> bindings[n]]
      BY <1>3, <3>1
    <3>3. line[n] = [kind |-> "AddKeymap", binding |-> bindings[n]]
      BY <1>2, <3>1
    <3>4. QED
      BY <3>1, <3>2, <3>3
  <2>2. CASE ~(n <= k)
    <3>1. n - k \in 1..Len(queue) - 1 /\ n - k + 1 \in 1..Len(queue) /\ k + (n - k) = n
            /\ k + (n - k + 1) = n + 1
      BY <1>1, <1>3, <2>2
    <3>2. kept[n] = queue[n - k + 1] /\ line[n + 1] = queue[n - k + 1]
      BY <1>2, <1>3, <3>1
    <3>3. QED
      BY <1>4, <2>2, <3>2
  <2>3. QED
    BY <2>1, <2>2
<1>6. ASSUME NEW m \in 1..Len(kept), NEW n \in 1..Len(kept), m < n PROVE from[m] < from[n]
  <2>1. k \in Nat /\ Len(kept) \in Nat
    BY <1>1, <1>3
  <2>2. from[m] = (IF m <= k THEN m ELSE m + 1) /\ from[n] = (IF n <= k THEN n ELSE n + 1)
    BY <1>4
  <2>3. QED
    BY <1>6, <2>1, <2>2
<1>7. ASSUME NEW i \in 1..Len(line), line[i].kind \in {"AddKeymap", "ClearKeymaps"}
      PROVE  \E n \in 1..Len(kept) : i = from[n]
  <2>1. line[k + 1] = Head(queue)
    BY <1>1, <1>2
  <2>2. i # k + 1
    BY <1>7, <2>1
  <2>3. CASE i <= k
    <3>1. i \in 1..Len(kept) /\ from[i] = i
      BY <1>1, <1>3, <1>4, <2>3
    <3>2. QED
      BY <3>1
  <2>4. CASE i > k + 1
    <3>1. i - 1 \in 1..Len(kept) /\ ~(i - 1 <= k) /\ i - 1 + 1 = i
      BY <1>1, <1>2, <1>3, <2>4
    <3>2. from[i - 1] = i
      BY <1>4, <3>1
    <3>3. QED
      BY <3>1, <3>2
  <2>5. QED
    BY <1>1, <2>2, <2>3, <2>4
<1>8. \A i \in Additions(line) : i \in 1..Len(line) /\ line[i].kind = "AddKeymap"
  BY <1>2 DEF Additions
<1>9. /\ \A i \in Additions(line) : \E n \in 1..Len(kept) : i = from[n]
      /\ \A i \in 1..Len(line) : line[i].kind = "ClearKeymaps" =>
           (\E n \in 1..Len(kept) : i = from[n]) \/ (\A n \in 1..Len(kept) : i < from[n])
  BY <1>7, <1>8
<1>10. Keeps(line, kept, from)
  BY <1>4, <1>5, <1>6, <1>9 DEF Keeps
<1>11. Agree(line, list, next) <=> Agree(kept, list, next)
  BY <1>2, <1>3, <1>10, KeptLine
<1>12. QED
  BY <1>11 DEF line, kept

\* An addition that is handled stays where it was in the line.
LEMMA AdditionTaken ==
  ASSUME NEW bindings \in Seq(KeyBinding), NEW queue \in Seq(MainMessage), queue # <<>>,
         Head(queue).kind = "AddKeymap",
         NEW list \in Seq(KeyBinding), NEW next \in Nat
  PROVE  Agree(LineOf(bindings, queue), list, next)
           <=> Agree(LineOf(Append(bindings, Head(queue).binding), Tail(queue)), list, next)
<1> DEFINE line == LineOf(bindings, queue)
           added == Append(bindings, Head(queue).binding)
           kept == LineOf(added, Tail(queue))
           k == Len(bindings)
<1>1. /\ k \in Nat /\ Len(queue) \in Nat \ {0} /\ Tail(queue) \in Seq(MainMessage)
      /\ Len(Tail(queue)) = Len(queue) - 1
      /\ \A n \in 1..Len(queue) - 1 : Tail(queue)[n] = queue[n + 1]
      /\ queue[1] = Head(queue) /\ Head(queue) \in MainMessage
  OBVIOUS
<1>2. Head(queue).binding \in KeyBinding
        /\ Head(queue) = [kind |-> "AddKeymap", binding |-> Head(queue).binding]
  BY <1>1 DEF MainMessage
<1>3. /\ added \in Seq(KeyBinding) /\ Len(added) = k + 1 /\ added[k + 1] = Head(queue).binding
      /\ \A n \in 1..k : added[n] = bindings[n]
  BY <1>2
<1>4. /\ line \in Seq(MainMessage) /\ Len(line) = k + Len(queue)
      /\ \A n \in 1..k : line[n] = [kind |-> "AddKeymap", binding |-> bindings[n]]
      /\ \A n \in 1..Len(queue) : line[k + n] = queue[n]
  BY LineElements
<1> HIDE DEF line, added, k
<1>5. /\ kept \in Seq(MainMessage) /\ Len(kept) = k + 1 + (Len(queue) - 1)
      /\ \A n \in 1..k + 1 : kept[n] = [kind |-> "AddKeymap", binding |-> added[n]]
      /\ \A n \in 1..Len(queue) - 1 : kept[k + 1 + n] = queue[n + 1]
  <2>1. /\ kept \in Seq(MainMessage) /\ Len(kept) = Len(added) + Len(Tail(queue))
        /\ \A n \in 1..Len(added) : kept[n] = [kind |-> "AddKeymap", binding |-> added[n]]
        /\ \A n \in 1..Len(Tail(queue)) : kept[Len(added) + n] = Tail(queue)[n]
    BY <1>1, <1>3, LineElements
  <2> HIDE DEF kept
  <2>2. QED
    BY <1>1, <1>3, <2>1
<1> HIDE DEF kept
<1>6. ASSUME NEW n \in 1..Len(line) PROVE kept[n] = line[n]
  <2>1. CASE n <= k
    <3>1. n \in 1..k /\ n \in 1..k + 1
      BY <1>1, <2>1
    <3>2. QED
      BY <1>3, <1>4, <1>5, <3>1
  <2>2. CASE n = k + 1
    <3>1. line[n] = queue[1]
      BY <1>1, <1>4, <2>2
    <3>2. kept[n] = [kind |-> "AddKeymap", binding |-> added[k + 1]]
      BY <1>1, <1>5, <2>2
    <3>3. QED
      BY <1>1, <1>2, <1>3, <3>1, <3>2
  <2>3. CASE n > k + 1
    <3>1. n - k - 1 \in 1..Len(queue) - 1 /\ k + 1 + (n - k - 1) = n
            /\ n - k - 1 + 1 \in 1..Len(queue) /\ k + (n - k - 1 + 1) = n
      BY <1>1, <1>4, <2>3
    <3>2. kept[n] = queue[n - k - 1 + 1] /\ line[n] = queue[n - k - 1 + 1]
      BY <1>4, <1>5, <3>1
    <3>3. QED
      BY <3>2
  <2>4. QED
    BY <1>1, <1>4, <2>1, <2>2, <2>3
<1>7. Len(kept) = Len(line) /\ Len(line) \in Nat
  BY <1>1, <1>4, <1>5
<1>8. Len(line) <= Len(kept) /\ \A n \in Len(line) + 1..Len(kept) : FALSE
  BY <1>7
<1>9. Agree(line, list, next) <=> Agree(kept, list, next)
  BY <1>4, <1>5, <1>6, <1>8, InertBehind
<1>10. QED
  BY <1>9 DEF line, kept, added

\* A clearing that is handled takes what is before it, which added nothing to stay.
LEMMA ClearingTaken ==
  ASSUME NEW bindings \in Seq(KeyBinding), NEW queue \in Seq(MainMessage), queue # <<>>,
         Head(queue).kind = "ClearKeymaps",
         NEW list \in Seq(KeyBinding), NEW next \in Nat
  PROVE  Agree(LineOf(bindings, queue), list, next) <=> Agree(LineOf(<<>>, Tail(queue)), list, next)
<1> DEFINE line == LineOf(bindings, queue)
           none == <<>>
           kept == LineOf(none, Tail(queue))
           k == Len(bindings)
           from == [n \in 1..Len(kept) |-> k + (n + 1)]
<1>1. /\ k \in Nat /\ Len(queue) \in Nat \ {0} /\ Tail(queue) \in Seq(MainMessage)
      /\ Len(Tail(queue)) = Len(queue) - 1
      /\ \A n \in 1..Len(queue) - 1 : Tail(queue)[n] = queue[n + 1]
      /\ queue[1] = Head(queue)
  OBVIOUS
<1>2. /\ line \in Seq(MainMessage) /\ Len(line) = k + Len(queue)
      /\ \A n \in 1..Len(queue) : line[k + n] = queue[n]
  BY LineElements
<1>3. /\ kept \in Seq(MainMessage) /\ Len(kept) = Len(queue) - 1
      /\ \A n \in 1..Len(queue) - 1 : kept[n] = queue[n + 1]
  <2>1. none \in Seq(KeyBinding) /\ Len(none) = 0
    OBVIOUS
  <2> HIDE DEF none
  <2>2. /\ kept \in Seq(MainMessage) /\ Len(kept) = Len(none) + Len(Tail(queue))
        /\ \A n \in 1..Len(Tail(queue)) : kept[Len(none) + n] = Tail(queue)[n]
    BY <1>1, <2>1, LineElements
  <2> HIDE DEF kept
  <2>3. \A n \in 1..Len(queue) - 1 : Len(none) + n = n
    BY <1>1, <2>1
  <2>4. QED
    BY <1>1, <2>1, <2>2, <2>3
<1>4. from \in [1..Len(kept) -> 1..Len(line)] /\ \A n \in 1..Len(kept) : from[n] = k + (n + 1)
  BY <1>1, <1>2, <1>3
<1> HIDE DEF line, kept, k, from
<1>5. ASSUME NEW n \in 1..Len(kept) PROVE kept[n] = line[from[n]]
  <2>1. n \in 1..Len(queue) - 1 /\ n + 1 \in 1..Len(queue)
    BY <1>1, <1>3
  <2>2. QED
    BY <1>2, <1>3, <1>4, <2>1
<1>6. \A m, n \in 1..Len(kept) : m < n => from[m] < from[n]
  BY <1>1, <1>3, <1>4
<1>7. ASSUME NEW i \in 1..Len(line), i > k + 1 PROVE \E n \in 1..Len(kept) : i = from[n]
  <2>1. i - k - 1 \in 1..Len(kept) /\ k + (i - k - 1 + 1) = i
    BY <1>1, <1>2, <1>3, <1>7
  <2>2. from[i - k - 1] = i
    BY <1>4, <2>1
  <2>3. QED
    BY <2>1, <2>2
<1>8. k + 1 \in 1..Len(line) /\ line[k + 1].kind = "ClearKeymaps"
  BY <1>1, <1>2
<1>9. ASSUME NEW i \in Additions(line) PROVE \E n \in 1..Len(kept) : i = from[n]
  <2>1. i \in 1..Len(line) /\ line[i].kind = "AddKeymap" /\ ~(k + 1 > i)
    BY <1>2, <1>8 DEF Additions
  <2>2. i > k + 1
    <3>1. i # k + 1
      BY <1>8, <2>1
    <3>2. QED
      BY <1>1, <1>2, <2>1, <3>1
  <2>3. QED
    BY <1>7, <2>1, <2>2
<1>10. ASSUME NEW i \in 1..Len(line)
       PROVE  (\E n \in 1..Len(kept) : i = from[n]) \/ (\A n \in 1..Len(kept) : i < from[n])
  <2>1. CASE i > k + 1
    BY <1>7, <2>1
  <2>2. CASE ~(i > k + 1)
    BY <1>1, <1>2, <1>3, <1>4, <2>2
  <2>3. QED
    BY <2>1, <2>2
<1>11. Keeps(line, kept, from)
  BY <1>4, <1>5, <1>6, <1>9, <1>10 DEF Keeps
<1>12. Agree(line, list, next) <=> Agree(kept, list, next)
  BY <1>2, <1>3, <1>11, KeptLine
<1>13. QED
  BY <1>12 DEF line, kept

\* Messages sent behind the channel that neither add nor clear.
LEMMA InertSent ==
  ASSUME NEW bindings \in Seq(KeyBinding), NEW queue \in Seq(MainMessage),
         NEW extra \in Seq(MainMessage),
         \A n \in 1..Len(extra) : extra[n].kind \notin {"AddKeymap", "ClearKeymaps"},
         NEW list \in Seq(KeyBinding), NEW next \in Nat,
         Agree(LineOf(bindings, queue), list, next)
  PROVE  Agree(LineOf(bindings, queue \o extra), list, next)
<1> DEFINE sent == queue \o extra
           line == LineOf(bindings, queue)
           longer == LineOf(bindings, sent)
           k == Len(bindings)
<1>1. /\ k \in Nat /\ Len(queue) \in Nat /\ Len(extra) \in Nat
      /\ sent \in Seq(MainMessage) /\ Len(sent) = Len(queue) + Len(extra)
      /\ \A n \in 1..Len(queue) : sent[n] = queue[n]
      /\ \A n \in 1..Len(extra) : sent[Len(queue) + n] = extra[n]
  OBVIOUS
<1> HIDE DEF sent
<1>2. /\ line \in Seq(MainMessage) /\ Len(line) = k + Len(queue)
      /\ \A n \in 1..k : line[n] = [kind |-> "AddKeymap", binding |-> bindings[n]]
      /\ \A n \in 1..Len(queue) : line[k + n] = queue[n]
  BY LineElements
<1>3. /\ longer \in Seq(MainMessage) /\ Len(longer) = k + Len(sent)
      /\ \A n \in 1..k : longer[n] = [kind |-> "AddKeymap", binding |-> bindings[n]]
      /\ \A n \in 1..Len(sent) : longer[k + n] = sent[n]
  BY <1>1, LineElements
<1> HIDE DEF line, longer, k
<1>4. ASSUME NEW n \in 1..Len(line) PROVE longer[n] = line[n]
  <2>1. CASE n <= k
    <3>1. n \in 1..k
      BY <1>1, <1>2, <2>1
    <3>2. QED
      BY <1>2, <1>3, <3>1
  <2>2. CASE n > k
    <3>1. n - k \in 1..Len(queue) /\ n - k \in 1..Len(sent) /\ k + (n - k) = n
      BY <1>1, <1>2, <2>2
    <3>2. line[n] = queue[n - k] /\ longer[n] = sent[n - k]
      BY <1>2, <1>3, <3>1
    <3>3. QED
      BY <1>1, <3>1, <3>2
  <2>3. QED
    BY <1>1, <1>2, <2>1, <2>2
<1>5. ASSUME NEW n \in Len(line) + 1..Len(longer)
      PROVE  longer[n].kind \notin {"AddKeymap", "ClearKeymaps"}
  <2>1. /\ n - k \in 1..Len(sent) /\ k + (n - k) = n
        /\ n - k - Len(queue) \in 1..Len(extra) /\ Len(queue) + (n - k - Len(queue)) = n - k
    BY <1>1, <1>2, <1>3
  <2>2. longer[n] = sent[n - k] /\ sent[n - k] = extra[n - k - Len(queue)]
    BY <1>1, <1>3, <2>1
  <2>3. QED
    BY <2>1, <2>2
<1>6. Len(line) <= Len(longer)
  BY <1>1, <1>2, <1>3
<1>7. Agree(line, list, next) <=> Agree(longer, list, next)
  BY <1>2, <1>3, <1>4, <1>5, <1>6, InertBehind
<1>8. QED
  BY <1>7 DEF line, longer, sent

\* The line of the step's state, and what it says in the terms of the lemmas.
KeymapsInv == Agree(Line, served, callbacks)

LEMMA LineIs == Line = LineOf(keymaps, mainQ)
BY DEF Line, LineOf

LEMMA KeymapsInvAgrees == KeymapsInv => KeymapsAgree
<1> SUFFICES ASSUME KeymapsInv PROVE KeymapsAgree
  OBVIOUS
<1>1. \A m, n \in KnownServed : m \in DOMAIN served /\ n \in DOMAIN served
  BY DEF KnownServed
<1>2. QED
  BY <1>1 DEF KeymapsInv, Agree, KeymapsAgree, KnownServed

\* The requests to clients' D-Bus thread leave the bindings as they are.
LEMMA DbusSendKeeps ==
  ASSUME NEW bindings \in Seq(KeyBinding), NEW rest \in Seq(MainMessage),
         NEW msgs \in Seq(DbusMessage), DbusSend(msgs, rest),
         NEW list \in Seq(KeyBinding), NEW next \in Nat,
         Agree(LineOf(bindings, rest), list, next)
  PROVE  Agree(LineOf(bindings, mainQ'), list, next)
<1>1. CASE mainQ' = rest
  BY <1>1
<1>2. CASE mainQ' = rest \o [n \in DOMAIN msgs |-> [kind |-> "Shutdown"]]
  <2> DEFINE extra == [n \in DOMAIN msgs |-> [kind |-> "Shutdown"]]
  <2>1. [kind |-> "Shutdown"] \in MainMessage
    BY Kinds
  <2>2. DOMAIN msgs = 1..Len(msgs) /\ Len(msgs) \in Nat
    OBVIOUS
  <2>3. extra \in Seq(MainMessage) /\ \A n \in 1..Len(extra) : extra[n].kind = "Shutdown"
    BY <2>1, <2>2
  <2> HIDE DEF extra
  <2>4. Agree(LineOf(bindings, rest \o extra), list, next)
    BY <2>3, InertSent
  <2>5. QED
    BY <1>2, <2>4 DEF extra
<1>3. QED
  BY <1>1, <1>2 DEF DbusSend

\* A message to the main thread that is no key binding's.
LEMMA MainSendKeeps ==
  ASSUME TypeOK, KeymapsInv, NEW kind \in {"Shutdown", "MainSeatEnabled"},
         mainQ' = Append(mainQ, [kind |-> kind]), UNCHANGED <<keymaps, served, callbacks>>
  PROVE  KeymapsInv'
<1> DEFINE extra == <<[kind |-> kind]>>
<1>1. [kind |-> kind] \in MainMessage
  BY Kinds
<1>2. extra \in Seq(MainMessage) /\ \A n \in 1..Len(extra) : extra[n].kind \notin {"AddKeymap", "ClearKeymaps"}
  BY <1>1
<1>3. mainQ' = mainQ \o extra
  BY <1>1 DEF TypeOK
<1> HIDE DEF extra
<1>4. Agree(LineOf(keymaps, mainQ \o extra), served, callbacks)
  BY <1>2, InertSent, LineIs DEF TypeOK, KeymapsInv
<1>5. QED
  BY <1>3, <1>4, LineIs DEF KeymapsInv, LineOf, Line

\* The next binding is the newest, behind all that are on their way.
LEMMA MapKeyKeeps ==
  ASSUME TypeOK, KeymapsInv, NEW key \in Key, MapKey(key)
  PROVE  KeymapsInv'
<1> DEFINE binding == [key |-> key, id |-> callbacks]
           msg == [kind |-> "AddKeymap", binding |-> binding]
           line == Line
           longer == Line'
<1>1. /\ binding \in KeyBinding /\ binding.id = callbacks /\ binding.key = key
      /\ msg \in MainMessage /\ msg.kind = "AddKeymap" /\ msg.binding = binding
  <2>1. binding \in KeyBinding /\ binding.id = callbacks /\ binding.key = key
    BY DEF TypeOK, KeyBinding
  <2>2. QED
    BY <2>1, Kinds
<1> HIDE DEF binding, msg
<1>2. /\ callbacks \in Nat /\ callbacks' = callbacks + 1 /\ UNCHANGED keymaps
      /\ served \in Seq(KeyBinding) /\ served' = Append(served, binding)
      /\ IF key \in KnownKey THEN mainQ' = Append(mainQ, msg) ELSE UNCHANGED mainQ
  BY DEF MapKey, MainSend, TypeOK, binding, msg
<1>3. /\ Len(served) \in Nat /\ DOMAIN served = 1..Len(served)
      /\ DOMAIN served' = 1..Len(served) + 1 /\ served'[Len(served) + 1] = binding
      /\ \A n \in 1..Len(served) : served'[n] = served[n]
  BY <1>1, <1>2
<1>4. /\ \A m, n \in DOMAIN served' : m < n => served'[m].id < served'[n].id
      /\ \A n \in DOMAIN served' : served'[n].id < callbacks'
  <2>1. /\ \A m, n \in 1..Len(served) : m < n => served[m].id < served[n].id
        /\ \A n \in 1..Len(served) : served[n].id < callbacks
    BY <1>3 DEF KeymapsInv, Agree
  <2>2. \A n \in 1..Len(served) : served[n].id \in Nat
    BY <1>2, <1>3, IdNumbers
  <2>3. ASSUME NEW n \in DOMAIN served' PROVE served'[n].id < callbacks'
    BY <1>1, <1>2, <1>3, <2>1, <2>2
  <2>4. ASSUME NEW m \in DOMAIN served', NEW n \in DOMAIN served', m < n
        PROVE  served'[m].id < served'[n].id
    BY <1>1, <1>2, <1>3, <2>1, <2>4
  <2>5. QED
    BY <2>3, <2>4
<1>5. line \in Seq(MainMessage) /\ DOMAIN line = 1..Len(line) /\ Len(line) \in Nat
  <2>1. line \in Seq(MainMessage)
    BY LineElements, LineIs DEF TypeOK
  <2>2. QED
    BY <2>1
<1>6. /\ \A m, n \in Additions(line) : m < n => line[m].binding.id < line[n].binding.id
      /\ \A n \in Additions(line) : line[n].binding.id < callbacks
      /\ {line[n].binding : n \in Additions(line)}
           = {served[n] : n \in {m \in DOMAIN served : served[m].key \in KnownKey}}
      /\ Additions(line) \subseteq 1..Len(line)
      /\ \A n \in Additions(line) : line[n].binding.id \in Nat
  <2>1. Additions(line) \subseteq 1..Len(line)
    BY <1>5 DEF Additions
  <2>2. ASSUME NEW n \in Additions(line) PROVE line[n].binding.id \in Nat
    <3>1. line[n] \in MainMessage /\ line[n].kind = "AddKeymap"
      BY <1>5, <2>1 DEF Additions
    <3>2. QED
      BY <3>1, Kinds DEF KeyBinding
  <2>3. QED
    BY <2>1, <2>2 DEF KeymapsInv, Agree
<1>7. CASE key \notin KnownKey
  <2>1. longer = line
    BY <1>2, <1>7 DEF Line
  <2>2. {served'[n] : n \in {m \in DOMAIN served' : served'[m].key \in KnownKey}}
          = {served[n] : n \in {m \in DOMAIN served : served[m].key \in KnownKey}}
    BY <1>1, <1>3, <1>7
  <2>3. \A n \in Additions(line) : line[n].binding.id < callbacks'
    BY <1>2, <1>6
  <2> HIDE DEF line, longer
  <2>4. QED
    BY <1>4, <1>6, <2>1, <2>2, <2>3 DEF KeymapsInv, Agree, longer
<1>8. CASE key \in KnownKey
  <2>1. /\ longer \in Seq(MainMessage) /\ Len(longer) = Len(line) + 1
        /\ DOMAIN longer = 1..Len(line) + 1 /\ longer[Len(line) + 1] = msg
        /\ \A n \in 1..Len(line) : longer[n] = line[n]
    <3>1. longer = Append(line, msg)
      <4> DEFINE front == [n \in DOMAIN keymaps |-> [kind |-> "AddKeymap", binding |-> keymaps[n]]]
      <4>1. line = front \o mainQ /\ longer = front \o Append(mainQ, msg)
        BY <1>2, <1>8 DEF Line
      <4>2. front \in Seq(MainMessage)
        <5>1. \A n \in 1..Len(keymaps) : keymaps[n] \in KeyBinding
          BY DEF TypeOK
        <5>2. \A n \in 1..Len(keymaps) : [kind |-> "AddKeymap", binding |-> keymaps[n]] \in MainMessage
          BY <5>1, Kinds
        <5>3. DOMAIN keymaps = 1..Len(keymaps) /\ Len(keymaps) \in Nat
          BY DEF TypeOK
        <5>4. QED
          BY <5>2, <5>3
      <4> HIDE DEF front, line, longer
      <4>3. mainQ \in Seq(MainMessage)
        BY DEF TypeOK
      <4>4. front \o Append(mainQ, msg) = Append(front \o mainQ, msg)
        BY <1>1, <4>2, <4>3
      <4>5. QED
        BY <4>1, <4>4
    <3> HIDE DEF line, longer
    <3>2. QED
      BY <1>1, <1>5, <3>1
  <2> HIDE DEF line, longer
  <2>2. Additions(longer) = Additions(line) \cup {Len(line) + 1}
    <3>1. ASSUME NEW n \in 1..Len(line) PROVE n \in Additions(longer) <=> n \in Additions(line)
      <4>1. longer[n] = line[n] /\ longer[Len(line) + 1].kind # "ClearKeymaps"
        BY <1>1, <1>5, <2>1
      <4>2. \A m \in DOMAIN longer : m \in DOMAIN line \/ m = Len(line) + 1
        BY <1>5, <2>1
      <4>3. \A m \in DOMAIN line : m \in DOMAIN longer /\ longer[m] = line[m]
        BY <1>5, <2>1
      <4>4. n \in DOMAIN line /\ n \in DOMAIN longer
        BY <1>5, <4>3
      <4>5. QED
        BY <4>1, <4>2, <4>3, <4>4 DEF Additions
    <3>2. Len(line) + 1 \in Additions(longer)
      BY <1>1, <1>5, <2>1 DEF Additions
    <3>3. Additions(longer) \subseteq 1..Len(line) + 1
      BY <2>1 DEF Additions
    <3>4. \A n \in 1..Len(line) + 1 : n \in 1..Len(line) \/ n = Len(line) + 1
      BY <1>5
    <3>5. QED
      BY <1>6, <3>1, <3>2, <3>3, <3>4
  <2>3. {longer[n].binding : n \in Additions(longer)}
          = {line[n].binding : n \in Additions(line)} \cup {binding}
    BY <1>1, <1>6, <2>1, <2>2
  <2>4. {served'[n] : n \in {m \in DOMAIN served' : served'[m].key \in KnownKey}}
          = {served[n] : n \in {m \in DOMAIN served : served[m].key \in KnownKey}} \cup {binding}
    BY <1>1, <1>3, <1>8
  <2>5. ASSUME NEW n \in Additions(longer) PROVE longer[n].binding.id < callbacks'
    <3>1. CASE n \in Additions(line)
      <4>1. longer[n] = line[n] /\ line[n].binding.id < callbacks /\ line[n].binding.id \in Nat
        BY <1>6, <2>1, <3>1
      <4>2. QED
        BY <1>1, <1>2, <4>1
    <3>2. CASE n = Len(line) + 1
      BY <1>1, <1>2, <2>1, <3>2
    <3>3. QED
      BY <2>2, <3>1, <3>2
  <2>6. ASSUME NEW m \in Additions(longer), NEW n \in Additions(longer), m < n
        PROVE  longer[m].binding.id < longer[n].binding.id
    BY <1>1, <1>2, <1>5, <1>6, <2>1, <2>2, <2>6
  <2>7. QED
    BY <1>4, <1>6, <2>3, <2>4, <2>5, <2>6 DEF KeymapsInv, Agree, longer
<1>9. QED
  BY <1>7, <1>8

LEMMA MapKeysKeeps ==
  ASSUME TypeOK, StepInSignals, KeymapsInv, NEW from, NEW keys \in Seq(Key), NEW next,
         MapKeys(from, keys, next)
  PROVE  KeymapsInv'
<1>1. CASE step <= Len(keys) /\ MapKey(keys[step])
  <2>1. keys[step] \in Key
    BY <1>1 DEF TypeOK, StepInSignals
  <2>2. QED
    BY <1>1, <2>1, MapKeyKeeps
<1>2. CASE callbacks' \in {callbacks, callbacks + 1} /\ UNCHANGED <<mainVars, dbusVars>>
  <2>1. Line' = Line /\ served' = served
    BY <1>2 DEF Line, mainVars, dbusVars
  <2>2. callbacks \in Nat /\ callbacks' \in Nat /\ callbacks <= callbacks'
    BY <1>2 DEF TypeOK
  <2>3. \A n \in DOMAIN served : served[n].id \in Nat
    BY IdNumbers DEF TypeOK
  <2>4. ASSUME NEW n \in Additions(Line) PROVE Line[n].binding.id \in Nat
    <3>1. Line \in Seq(MainMessage)
      BY LineElements, LineIs DEF TypeOK
    <3>2. Line[n] \in MainMessage /\ Line[n].kind = "AddKeymap"
      BY <2>4, <3>1 DEF Additions
    <3>3. QED
      BY <3>2, Kinds DEF KeyBinding
  <2>5. \A n \in Additions(Line) : Line[n].binding.id < callbacks'
    BY <2>2, <2>4 DEF KeymapsInv, Agree
  <2>6. \A n \in DOMAIN served : served[n].id < callbacks'
    BY <2>2, <2>3 DEF KeymapsInv, Agree
  <2>7. QED
    BY <2>1, <2>5, <2>6 DEF KeymapsInv, Agree
<1>3. QED
  BY <1>1, <1>2 DEF MapKeys

\* Steps that leave the bindings and the main channel alone.
LEMMA ElsewhereKeeps == KeymapsInv /\ UNCHANGED <<keymaps, mainQ, served, callbacks>> => KeymapsInv'
BY DEF KeymapsInv, Line

LEMMA KeymapsInputs == TypeOK /\ KeymapsInv /\ Inputs => KeymapsInv'
<1> SUFFICES ASSUME TypeOK, KeymapsInv, Inputs PROVE KeymapsInv'
  OBVIOUS
<1>1. ASSUME NEW kind \in {"Shutdown", "MainSeatEnabled"}, Post(kind) PROVE KeymapsInv'
  BY <1>1, MainSendKeeps DEF Post, dbusVars, configVars
<1>2. ASSUME NEW sender, Quit(sender) PROVE KeymapsInv'
  BY <1>2, MainSendKeeps DEF Quit, MainSend, dbusVars, configVars
<1>3. CASE ClearServedKeymaps
  <2> DEFINE clear == [kind |-> "ClearKeymaps"]
             queue == Append(mainQ, clear)
             none == <<>>
  <2>1. clear \in MainMessage /\ clear.kind = "ClearKeymaps"
    BY Kinds
  <2> HIDE DEF clear
  <2>2. queue \in Seq(MainMessage) /\ Len(queue) \in Nat \ {0} /\ queue[Len(queue)] = clear
    BY <2>1 DEF TypeOK
  <2>3. keymaps' = keymaps /\ served' = none /\ callbacks' = callbacks /\ mainQ' = queue
    BY <1>3 DEF ClearServedKeymaps, MainSend, configVars, clear
  <2> HIDE DEF queue
  <2>4. Line' = LineOf(keymaps, queue)
    BY <2>3 DEF Line, LineOf
  <2>5. Additions(LineOf(keymaps, queue)) = {}
    <3> DEFINE line == LineOf(keymaps, queue)
               k == Len(keymaps)
    <3>1. /\ k \in Nat /\ line \in Seq(MainMessage) /\ Len(line) = k + Len(queue)
          /\ \A n \in 1..Len(queue) : line[k + n] = queue[n]
      <4>1. keymaps \in Seq(KeyBinding)
        BY DEF TypeOK
      <4>2. QED
        BY <2>2, <4>1, LineElements
    <3> HIDE DEF line, k
    <3>2. Len(line) \in DOMAIN line /\ line[Len(line)].kind = "ClearKeymaps"
      BY <2>1, <2>2, <3>1
    <3>3. ASSUME NEW n \in Additions(line) PROVE FALSE
      <4>1. n \in 1..Len(line) /\ line[n].kind = "AddKeymap" /\ ~(Len(line) > n)
        BY <3>1, <3>2 DEF Additions
      <4>2. n = Len(line)
        BY <3>1, <4>1
      <4>3. QED
        BY <3>2, <4>1, <4>2
    <3>4. QED
      BY <3>3 DEF line
  <2>6. QED
    BY <2>3, <2>4, <2>5 DEF KeymapsInv, Agree
<1>4. CASE FileChanged
  BY <1>4, ElsewhereKeeps DEF FileChanged, mainVars, dbusVars
<1>5. QED
  BY <1>1, <1>2, <1>3, <1>4 DEF Inputs

LEMMA KeymapsMainLoop == TypeOK /\ KeymapsInv /\ MainLoop => KeymapsInv'
<1> SUFFICES ASSUME TypeOK, KeymapsInv, MainLoop PROVE KeymapsInv'
  OBVIOUS
<1>1. /\ keymaps \in Seq(KeyBinding) /\ mainQ \in Seq(MainMessage) /\ served \in Seq(KeyBinding)
      /\ callbacks \in Nat /\ Agree(LineOf(keymaps, mainQ), served, callbacks)
  BY LineIs DEF TypeOK, KeymapsInv
<1>2. ASSUME Agree(LineOf(keymaps', mainQ'), served', callbacks') PROVE KeymapsInv'
  BY <1>2 DEF KeymapsInv, Line, LineOf
<1>3. ASSUME Agree(LineOf(keymaps, Tail(mainQ)), served, callbacks), NEW msgs \in Seq(DbusMessage),
             mainQ # <<>>, DbusSend(msgs, Tail(mainQ)), UNCHANGED <<keymaps, served, callbacks>>
      PROVE  KeymapsInv'
  <2>1. Tail(mainQ) \in Seq(MainMessage)
    BY <1>1, <1>3
  <2>2. Agree(LineOf(keymaps, mainQ'), served, callbacks)
    BY <1>1, <1>3, <2>1, DbusSendKeeps
  <2>3. QED
    BY <1>2, <1>3, <2>2
<1>4. CASE HandleSeatEnabled
  <2>1. mainQ # <<>> /\ Head(mainQ).kind = "MainSeatEnabled" /\ UNCHANGED <<keymaps, served, callbacks>>
    BY <1>4 DEF HandleSeatEnabled, Drain
  <2>2. Agree(LineOf(keymaps, Tail(mainQ)), served, callbacks)
    BY <1>1, <2>1, InertTaken
  <2>3. <<>> \in Seq(DbusMessage) /\ <<"DrmDevicesChanged", "Ready">> \in Seq(DbusMessage)
    BY SignalsAre DEF DbusMessage
  <2>4. PICK msgs \in Seq(DbusMessage) : DbusSend(msgs, Tail(mainQ))
    BY <1>4, <2>3 DEF HandleSeatEnabled
  <2>5. QED
    BY <1>3, <2>1, <2>2, <2>4
<1>5. CASE HandleAddKeymap
  <2>1. /\ mainQ # <<>> /\ Head(mainQ).kind = "AddKeymap" /\ UNCHANGED <<served, callbacks>>
        /\ mainQ' = Tail(mainQ) /\ keymaps' = Append(keymaps, Head(mainQ).binding)
    BY <1>5 DEF HandleAddKeymap, Drain
  <2>2. Agree(LineOf(keymaps', mainQ'), served, callbacks)
    BY <1>1, <2>1, AdditionTaken
  <2>3. QED
    BY <1>2, <2>1, <2>2
<1>6. CASE HandleClearKeymaps
  <2>1. /\ mainQ # <<>> /\ Head(mainQ).kind = "ClearKeymaps" /\ UNCHANGED <<served, callbacks>>
        /\ mainQ' = Tail(mainQ) /\ keymaps' = <<>>
    BY <1>6 DEF HandleClearKeymaps, Drain
  <2>2. Agree(LineOf(keymaps', mainQ'), served, callbacks)
    BY <1>1, <2>1, ClearingTaken
  <2>3. QED
    BY <1>2, <2>1, <2>2
<1>7. CASE HandleShutdown
  <2>1. mainQ # <<>> /\ Head(mainQ).kind = "Shutdown" /\ UNCHANGED <<keymaps, served, callbacks>>
    BY <1>7 DEF HandleShutdown, Drain
  <2>2. Agree(LineOf(keymaps, Tail(mainQ)), served, callbacks)
    BY <1>1, <2>1, InertTaken
  <2>3. CASE shuttingDown
    <3>1. mainQ' = Tail(mainQ)
      BY <1>7, <2>3 DEF HandleShutdown
    <3>2. QED
      BY <1>2, <2>1, <2>2, <3>1
  <2>4. CASE ~shuttingDown
    <3>1. DbusSend(<<"Shutdown">>, Tail(mainQ))
      BY <1>7, <2>4 DEF HandleShutdown, InitShutdown
    <3>2. <<"Shutdown">> \in Seq(DbusMessage)
      BY DEF DbusMessage
    <3>3. QED
      BY <1>3, <2>1, <2>2, <3>1, <3>2
  <2>5. QED
    BY <2>3, <2>4
<1>8. CASE CheckForShutdown \/ PollChannel \/ PollTimesOut \/ Drained
  BY <1>8, ElsewhereKeeps
     DEF CheckForShutdown, PollChannel, PollTimesOut, Drained, dbusVars, configVars
<1>9. QED
  BY <1>4, <1>5, <1>6, <1>7, <1>8 DEF MainLoop

LEMMA KeymapsDbus == TypeOK /\ KeymapsInv /\ Dbus => KeymapsInv'
<1> SUFFICES ASSUME TypeOK, KeymapsInv, Dbus PROVE KeymapsInv'
  OBVIOUS
<1>1. CASE DbusHandle \/ DbusLeaves \/ DbusDrops \/ DbusFinishes
  BY <1>1, ElsewhereKeeps
     DEF DbusHandle, DbusLeaves, DbusDrops, DbusFinishes, mainVars, configVars
<1>2. CASE DbusPosts
  BY <1>2, MainSendKeeps DEF DbusPosts, MainSend, configVars
<1>3. QED
  BY <1>1, <1>2 DEF Dbus

LEMMA KeymapsConfig == TypeOK /\ StepInSignals /\ KeymapsInv /\ Config => KeymapsInv'
<1> SUFFICES ASSUME TypeOK, StepInSignals, KeymapsInv, Config PROVE KeymapsInv'
  OBVIOUS
<1>1. CASE SetDefaultKeymaps \/ LoadConfig
  BY <1>1, MapKeysKeeps, ScriptAssumption DEF SetDefaultKeymaps, LoadConfig
<1>2. CASE Subscribe \/ Reload \/ TakeSignal
  BY <1>2, ElsewhereKeeps DEF Subscribe, Reload, TakeSignal, mainVars, dbusVars
<1>3. QED
  BY <1>1, <1>2 DEF Config

LEMMA KeymapsStep == TypeOK /\ StepInSignals /\ KeymapsInv /\ [Next]_vars => KeymapsInv'
<1> SUFFICES ASSUME TypeOK, StepInSignals, KeymapsInv, [Next]_vars PROVE KeymapsInv'
  OBVIOUS
<1>1. /\ keymaps \in Seq(KeyBinding) /\ mainQ \in Seq(MainMessage) /\ served \in Seq(KeyBinding)
      /\ callbacks \in Nat /\ Agree(LineOf(keymaps, mainQ), served, callbacks)
  BY LineIs DEF TypeOK, KeymapsInv
<1>2. ASSUME NEW msgs \in Seq(DbusMessage), DbusSend(msgs, mainQ), UNCHANGED <<keymaps, served, callbacks>>
      PROVE  KeymapsInv'
  <2>1. Agree(LineOf(keymaps, mainQ'), served, callbacks)
    BY <1>1, <1>2, DbusSendKeeps
  <2>2. QED
    BY <1>2, <2>1 DEF KeymapsInv, Line, LineOf
<1>3. CASE \/ StartService \/ StartFails \/ PollOther \/ TimeoutPasses \/ ConfigDies
           \/ (\E sender \in Sender : Wake(sender)) \/ UNCHANGED vars
  BY <1>3, ElsewhereKeeps
     DEF StartService, StartFails, PollOther, TimeoutPasses, ConfigDies, Wake, vars, mainVars, dbusVars, configVars
<1>4. CASE StartLoop
  <2>1. <<"SetDrmDevices">> \in Seq(DbusMessage)
    BY DEF DbusMessage
  <2>2. QED
    BY <1>2, <1>4, <2>1 DEF StartLoop, configVars
<1>5. ASSUME NEW key \in Key, PollKey(key) PROVE KeymapsInv'
  <2>1. <<"BindingActivated">> \in Seq(DbusMessage)
    BY SignalsAre DEF DbusMessage
  <2>2. QED
    BY <1>2, <1>5, <2>1 DEF PollKey, configVars
<1>6. QED
  BY <1>3, <1>4, <1>5, KeymapsInputs, KeymapsMainLoop, KeymapsDbus, KeymapsConfig DEF Next, Start

LEMMA KeymapsInit == Init => KeymapsInv
<1> SUFFICES ASSUME Init PROVE KeymapsInv
  OBVIOUS
<1>1. keymaps = <<>> /\ mainQ = <<>> /\ served = <<>>
  BY DEF Init
<1>2. Len(Line) = 0 /\ Line \in Seq(MainMessage)
  <2> DEFINE none == <<>>
  <2>1. none \in Seq(KeyBinding) /\ none \in Seq(MainMessage) /\ Len(none) = 0
    OBVIOUS
  <2> HIDE DEF none
  <2>2. LineOf(none, none) \in Seq(MainMessage) /\ Len(LineOf(none, none)) = Len(none) + Len(none)
    BY <2>1, LineElements
  <2>3. Line = LineOf(none, none)
    BY <1>1, LineIs DEF none
  <2>4. QED
    BY <2>1, <2>2, <2>3
<1>3. Additions(Line) = {}
  BY <1>2 DEF Additions
<1>4. QED
  BY <1>1, <1>3 DEF KeymapsInv, Agree

\* Whatever is mapped, cleared and reloaded while messages are under way, the bindings
\* that clients are told (ServiceState.keymaps) are those that InputState will have,
\* in the same order, without those of unknown keys.
THEOREM KeymapsAlwaysAgree == Spec => []KeymapsAgree
<1>1. TypeOK /\ StepInSignals /\ [Next]_vars => (TypeOK /\ StepInSignals)'
  BY TypesInputs, TypesWake, TypesStart, TypesMainLoop, TypesEvents, TypesDbus, TypesConfig DEF Next
<1>2. Spec => [](TypeOK /\ StepInSignals /\ KeymapsInv)
  BY <1>1, TypesInit, KeymapsInit, KeymapsStep, PTL DEF Spec
<1>3. QED
  BY <1>2, KeymapsInvAgrees, PTL

----------------------------------------------------------------------------
(* Connections.                                                            *)

\* Sequences: tables, joined ones, the rest of one.
LEMMA Tabulated ==
  ASSUME NEW S, NEW r \in Nat, NEW s \in [1..r -> S]
  PROVE  s \in Seq(S) /\ Len(s) = r
OBVIOUS

LEMMA RestElements ==
  ASSUME NEW S, NEW s \in Seq(S), NEW r \in 1..Len(s)
  PROVE  \A n \in 1..Len(s) - r : SubSeq(s, r + 1, Len(s))[n] = s[r + n]
OBVIOUS

LEMMA SeqJoined ==
  ASSUME NEW S, NEW s \in Seq(S), NEW t \in Seq(S)
  PROVE  s \o t \in Seq(S) /\ Len(s \o t) = Len(s) + Len(t)
OBVIOUS

LEMMA JoinedElements ==
  ASSUME NEW S, NEW s \in Seq(S), NEW t \in Seq(S)
  PROVE  /\ \A n \in 1..Len(s) : (s \o t)[n] = s[n]
         /\ \A n \in 1..Len(t) : (s \o t)[Len(s) + n] = t[n]
OBVIOUS

\* The sequence of one client is replaced.
LEMMA SeqReplaced ==
  ASSUME NEW S, NEW table \in [Client -> Seq(S)], NEW c \in Client, NEW seq \in Seq(S),
         NEW limit \in Nat, \A d \in Client : Len(table[d]) <= limit, Len(seq) <= limit,
         NEW new, new = [table EXCEPT ![c] = seq]
  PROVE  new \in [Client -> Seq(S)] /\ \A d \in Client : Len(new[d]) <= limit
OBVIOUS

LEMMA SeqCleared ==
  ASSUME NEW S, NEW table \in [Client -> Seq(S)], NEW c \in Client,
         NEW limit \in Nat, \A d \in Client : Len(table[d]) <= limit,
         NEW new, new = [table EXCEPT ![c] = <<>>]
  PROVE  new \in [Client -> Seq(S)] /\ \A d \in Client : Len(new[d]) <= limit
<1> DEFINE none == <<>>
<1>1. none \in Seq(S) /\ Len(none) = 0 /\ new = [table EXCEPT ![c] = none]
  OBVIOUS
<1> HIDE DEF none
<1>2. Len(none) <= limit
  BY <1>1
<1>3. QED
  BY <1>1, <1>2, SeqReplaced

\* What was written for a client is what it has, then what is on the way, then what the
\* writer holds, if the client is still written to (live).  cut tells how many of the
\* descriptors have gone with the first words on the way; those that have not are for
\* events that have not arrived by then.
Flows(w, g, o, b, f, live, cut) ==
  /\ \A n \in 1..Len(g.words) : g.words[n] = n
  /\ \A n \in 1..Len(o) : o[n].word = Len(g.words) + n
  /\ Len(g.words) + Len(o) <= Len(w.words)
  /\ live => /\ Len(g.words) + Len(o) + Len(b) = Len(w.words)
             /\ \A n \in 1..Len(b) : b[n] = Len(g.words) + Len(o) + n
  /\ cut[0] = Len(g.fds)
  /\ \A i \in 1..Len(g.fds) : g.fds[i] = w.fds[i]
  /\ \A n \in 1..Len(o) :
       /\ cut[n] = cut[n - 1] + Len(o[n].fds)
       /\ \A i \in 1..Len(o[n].fds) : o[n].fds[i] = w.fds[cut[n - 1] + i]
  /\ \A n \in 0..Len(o) : \A i \in 1..Len(w.fds) : i > cut[n] => w.fds[i] > Len(g.words) + n
  /\ live => /\ Len(w.fds) = cut[Len(o)] + Len(f)
             /\ \A i \in 1..Len(f) : f[i] = w.fds[cut[Len(o)] + i]

Flow(w, g, o, b, f, live) ==
  \E cut \in [0..Len(o) -> 0..Len(w.fds)] : Flows(w, g, o, b, f, live, cut)

LEMMA StreamParts ==
  ASSUME NEW s \in Stream
  PROVE  /\ s.words \in Seq(Nat) /\ Len(s.words) \in Nat
         /\ s.fds \in Seq(Nat) /\ Len(s.fds) \in Nat
         /\ \A n \in 1..Len(s.words) : s.words[n] \in Nat
         /\ \A n \in 1..Len(s.fds) : s.fds[n] \in Nat
<1>1. s.words \in Seq(Nat) /\ s.fds \in Seq(Nat)
  BY DEF Stream
<1>2. QED
  BY <1>1

LEMMA MessageParts ==
  ASSUME NEW o \in Seq(Message), NEW n \in 1..Len(o)
  PROVE  /\ o[n] \in Message /\ o[n].word \in Nat /\ o[n].fds \in Seq(Nat) /\ Len(o[n].fds) \in Nat
         /\ \A i \in 1..Len(o[n].fds) : o[n].fds[i] \in Nat
<1>1. o[n] \in Message
  OBVIOUS
<1>2. o[n].word \in Nat /\ o[n].fds \in Seq(Nat)
  BY <1>1 DEF Message
<1>3. QED
  BY <1>1, <1>2

\* At first there is nothing.
LEMMA FlowEmpty ==
  ASSUME NEW live \in BOOLEAN
  PROVE  Flow(Empty, Empty, <<>>, <<>>, <<>>, live)
<1> DEFINE none == <<>>
           cut == [n \in 0..0 |-> 0]
<1>1. none \in Seq(Nat) /\ Len(none) = 0
  OBVIOUS
<1>2. Empty.words = none /\ Empty.fds = none
  BY DEF Empty
<1> HIDE DEF none
<1>3. cut \in [0..Len(none) -> 0..Len(Empty.fds)] /\ cut[0] = 0
  BY <1>1, <1>2
<1> HIDE DEF cut
<1>4. Flows(Empty, Empty, none, none, none, live, cut)
  BY <1>1, <1>2, <1>3 DEF Flows
<1>5. Flow(Empty, Empty, none, none, none, live)
  BY <1>3, <1>4 DEF Flow
<1>6. QED
  BY <1>5 DEF none

\* What the writer holds does not matter for a client that is not written to any more.
LEMMA FlowEnds ==
  ASSUME NEW w, NEW g, NEW o, NEW b, NEW f, NEW b2, NEW f2, NEW live,
         Flow(w, g, o, b, f, live)
  PROVE  Flow(w, g, o, b2, f2, FALSE)
<1>1. PICK cut \in [0..Len(o) -> 0..Len(w.fds)] : Flows(w, g, o, b, f, live, cut)
  BY DEF Flow
<1>2. Flows(w, g, o, b2, f2, FALSE, cut)
  BY <1>1 DEF Flows
<1>3. QED
  BY <1>2 DEF Flow

\* The first r words of b go to o, all of f with the first of them.
Sends(o, b, f, r, o2, b2, f2) ==
  /\ Len(o2) = Len(o) + r /\ Len(b2) = Len(b) - r /\ Len(f2) = 0
  /\ \A n \in 1..Len(o) : o2[n] = o[n]
  /\ \A n \in 1..r : o2[Len(o) + n].word = b[n]
  /\ \A n \in 2..r : Len(o2[Len(o) + n].fds) = 0
  /\ o2[Len(o) + 1].fds = f
  /\ \A n \in 1..Len(b2) : b2[n] = b[r + n]

LEMMA FlowSends ==
  ASSUME NEW w \in Stream, NEW g \in Stream, NEW o \in Seq(Message),
         NEW b \in Seq(Nat), NEW f \in Seq(Nat), NEW r \in 1..Len(b),
         NEW o2 \in Seq(Message), NEW b2 \in Seq(Nat), NEW f2 \in Seq(Nat),
         Flow(w, g, o, b, f, TRUE), Sends(o, b, f, r, o2, b2, f2)
  PROVE  Flow(w, g, o2, b2, f2, TRUE)
<1>1. PICK cut \in [0..Len(o) -> 0..Len(w.fds)] : Flows(w, g, o, b, f, TRUE, cut)
  BY DEF Flow
<1> DEFINE k == Len(o)
           k2 == Len(o2)
           all == Len(w.fds)
           had == Len(g.words)
           cut2 == [n \in 0..k2 |-> IF n <= k THEN cut[n] ELSE all]
<1>2. /\ k \in Nat /\ k2 \in Nat /\ Len(b) \in Nat /\ Len(f) \in Nat /\ r \in Nat
      /\ Len(b2) \in Nat /\ r >= 1 /\ r <= Len(b) /\ k2 = k + r /\ Len(b2) = Len(b) - r
      /\ Len(f2) = 0
  BY DEF Sends
<1>3. all \in Nat /\ had \in Nat /\ Len(w.words) \in Nat /\ Len(g.fds) \in Nat
  BY StreamParts
<1>4. /\ \A n \in 1..had : g.words[n] = n
      /\ \A n \in 1..k : o[n].word = had + n
      /\ \A n \in 1..Len(b) : b[n] = had + k + n
  BY <1>1 DEF Flows
<1>5. /\ cut[0] = Len(g.fds)
      /\ \A i \in 1..Len(g.fds) : g.fds[i] = w.fds[i]
      /\ \A n \in 1..k : /\ cut[n] = cut[n - 1] + Len(o[n].fds)
                         /\ \A i \in 1..Len(o[n].fds) : o[n].fds[i] = w.fds[cut[n - 1] + i]
  BY <1>1 DEF Flows
<1>6. \A n \in 0..k : \A i \in 1..all : i > cut[n] => w.fds[i] > had + n
  BY <1>1 DEF Flows
<1>7. all = cut[k] + Len(f) /\ \A i \in 1..Len(f) : f[i] = w.fds[cut[k] + i]
  BY <1>1 DEF Flows
<1>8. had + k + Len(b) = Len(w.words)
  BY <1>1 DEF Flows
<1>9. \A n \in 1..k : o2[n] = o[n]
  BY DEF Sends
<1>10. /\ \A n \in 1..r : o2[k + n].word = b[n]
       /\ \A n \in 2..r : Len(o2[k + n].fds) = 0
       /\ o2[k + 1].fds = f
  BY DEF Sends
<1>11. cut \in [0..k -> 0..all]
  OBVIOUS
<1> HIDE DEF k, k2, all, had
<1>12. \A n \in 0..k : cut[n] \in Nat /\ cut[n] <= all
  <2>1. \A n \in 0..k : cut[n] \in 0..all
    BY <1>11
  <2>2. QED
    BY <1>3, <2>1
<1>13. /\ cut2 \in [0..k2 -> 0..all]
       /\ \A n \in 0..k : cut2[n] = cut[n]
       /\ \A n \in k + 1..k2 : cut2[n] = all
  <2>1. ASSUME NEW n \in 0..k2
        PROVE  (IF n <= k THEN cut[n] ELSE all) \in 0..all
    BY <1>2, <1>3, <1>12
  <2>2. cut2 \in [0..k2 -> 0..all]
    BY <2>1
  <2>3. \A n \in 0..k : n \in 0..k2 /\ n <= k
    BY <1>2
  <2>4. \A n \in k + 1..k2 : n \in 0..k2 /\ ~(n <= k)
    BY <1>2
  <2>5. QED
    BY <2>2, <2>3, <2>4
<1> HIDE DEF cut2
<1>14. ASSUME NEW n \in 1..k2 PROVE o2[n].word = had + n
  <2>1. CASE n \in 1..k
    BY <1>4, <1>9, <2>1
  <2>2. CASE n > k
    <3>1. n - k \in 1..r /\ n - k \in 1..Len(b) /\ k + (n - k) = n
      BY <1>2, <2>2
    <3>2. o2[n].word = b[n - k]
      BY <1>10, <3>1
    <3>3. b[n - k] = had + k + (n - k)
      BY <1>4, <3>1
    <3>4. QED
      BY <1>2, <1>3, <3>2, <3>3
  <2>3. QED
    BY <1>2, <2>1, <2>2
<1>15. had + k2 + Len(b2) = Len(w.words) /\ had + k2 <= Len(w.words)
  <2> DEFINE m == Len(b)
             m2 == Len(b2)
             size == Len(w.words)
  <2>1. m \in Nat /\ m2 \in Nat /\ size \in Nat /\ k2 = k + r /\ m2 = m - r /\ had + k + m = size
    BY <1>2, <1>3, <1>8
  <2> HIDE DEF m, m2, size
  <2>2. had + k2 + m2 = size /\ had + k2 <= size
    BY <1>2, <1>3, <2>1
  <2>3. QED
    BY <2>2 DEF m2, size
<1>16. ASSUME NEW n \in 1..Len(b2) PROVE b2[n] = had + k2 + n
  <2>1. r + n \in 1..Len(b)
    BY <1>2
  <2>2. b2[n] = b[r + n] /\ b[r + n] = had + k + (r + n)
    BY <1>4, <2>1 DEF Sends
  <2>3. n \in Nat
    OBVIOUS
  <2>4. QED
    BY <1>2, <1>3, <2>2, <2>3
<1>17. ASSUME NEW n \in 1..k2
       PROVE  /\ cut2[n] = cut2[n - 1] + Len(o2[n].fds)
              /\ \A i \in 1..Len(o2[n].fds) : o2[n].fds[i] = w.fds[cut2[n - 1] + i]
  <2>1. CASE n <= k
    <3>1. n \in 1..k /\ n \in 0..k /\ n - 1 \in 0..k
      BY <1>2, <2>1
    <3>2. cut2[n] = cut[n] /\ cut2[n - 1] = cut[n - 1] /\ o2[n] = o[n]
      BY <1>9, <1>13, <3>1
    <3>3. QED
      BY <1>5, <3>1, <3>2
  <2>2. CASE n = k + 1
    <3>1. n \in k + 1..k2 /\ k \in 0..k /\ n - 1 = k
      BY <1>2, <2>2
    <3>2. cut2[n] = all /\ cut2[n - 1] = cut[k]
      BY <1>13, <3>1
    <3>3. o2[n].fds = f
      BY <1>10, <2>2
    <3>4. QED
      BY <1>7, <3>2, <3>3
  <2>3. CASE n > k + 1
    <3>1. n \in k + 1..k2 /\ n - 1 \in k + 1..k2 /\ n - k \in 2..r /\ k + (n - k) = n
      BY <1>2, <2>3
    <3>2. cut2[n] = all /\ cut2[n - 1] = all
      BY <1>13, <3>1
    <3>3. Len(o2[n].fds) = 0
      BY <1>10, <3>1
    <3>4. QED
      BY <1>3, <3>2, <3>3
  <2>4. QED
    BY <1>2, <2>1, <2>2, <2>3
<1>18. ASSUME NEW n \in 0..k2, NEW i \in 1..all, i > cut2[n]
       PROVE  w.fds[i] > had + n
  <2>1. CASE n \in 0..k
    <3>1. cut2[n] = cut[n]
      BY <1>13, <2>1
    <3>2. QED
      BY <1>6, <1>18, <2>1, <3>1
  <2>2. CASE n \in k + 1..k2
    <3>1. cut2[n] = all
      BY <1>13, <2>2
    <3>2. QED
      BY <1>3, <1>18, <3>1
  <2>3. QED
    BY <1>2, <2>1, <2>2
<1>19. cut2[0] = Len(g.fds) /\ cut2[k2] = all
  <2>1. 0 \in 0..k /\ k2 \in k + 1..k2
    BY <1>2
  <2>2. QED
    BY <1>5, <1>13, <2>1
<1>20. all = cut2[k2] + Len(f2) /\ \A i \in 1..Len(f2) : f2[i] = w.fds[cut2[k2] + i]
  BY <1>2, <1>3, <1>19
<1>21. Flows(w, g, o2, b2, f2, TRUE, cut2)
  BY <1>4, <1>5, <1>14, <1>15, <1>16, <1>17, <1>18, <1>19, <1>20 DEF Flows, k, k2, all, had
<1>22. QED
  BY <1>13, <1>21 DEF Flow, k2, all

\* The client takes the first message on the way.
LEMMA FlowReceives ==
  ASSUME NEW w \in Stream, NEW g \in Stream, NEW o \in Seq(Message), o # <<>>,
         NEW b, NEW f, NEW live \in BOOLEAN, Flow(w, g, o, b, f, live)
  PROVE  Flow(w, [words |-> Append(g.words, Head(o).word), fds |-> g.fds \o Head(o).fds],
              Tail(o), b, f, live)
<1>1. PICK cut \in [0..Len(o) -> 0..Len(w.fds)] : Flows(w, g, o, b, f, live, cut)
  BY DEF Flow
<1> DEFINE g2 == [words |-> Append(g.words, Head(o).word), fds |-> g.fds \o Head(o).fds]
           o2 == Tail(o)
           k == Len(o)
           all == Len(w.fds)
           had == Len(g.words)
           cut2 == [n \in 0..Len(o2) |-> cut[n + 1]]
<1>2. k \in Nat \ {0} /\ Len(o2) = k - 1 /\ \A n \in 1..k - 1 : o2[n] = o[n + 1]
  OBVIOUS
<1>3. all \in Nat /\ had \in Nat /\ Len(g.fds) \in Nat /\ g.words \in Seq(Nat) /\ g.fds \in Seq(Nat)
  BY StreamParts
<1>4. Head(o) = o[1] /\ o[1].word \in Nat /\ o[1].fds \in Seq(Nat) /\ Len(o[1].fds) \in Nat
  <2>1. 1 \in 1..Len(o) /\ Head(o) = o[1]
    BY <1>2
  <2>2. QED
    BY <2>1, MessageParts
<1>5. /\ Len(g2.words) = had + 1 /\ g2.words[had + 1] = o[1].word
      /\ \A n \in 1..had : g2.words[n] = g.words[n]
  BY <1>3, <1>4
<1>6. /\ Len(g2.fds) = Len(g.fds) + Len(o[1].fds)
      /\ \A n \in 1..Len(g.fds) : g2.fds[n] = g.fds[n]
      /\ \A n \in 1..Len(o[1].fds) : g2.fds[Len(g.fds) + n] = o[1].fds[n]
  <2> DEFINE s == g.fds
             t == o[1].fds
  <2>1. s \in Seq(Nat) /\ t \in Seq(Nat) /\ g2.fds = s \o t
    BY <1>3, <1>4
  <2> HIDE DEF s, t, g2
  <2>2. /\ Len(g2.fds) = Len(s) + Len(t)
        /\ \A n \in 1..Len(s) : g2.fds[n] = s[n]
        /\ \A n \in 1..Len(t) : g2.fds[Len(s) + n] = t[n]
    BY <2>1, SeqJoined, JoinedElements
  <2>3. QED
    BY <2>2 DEF s, t
<1>7. /\ \A n \in 1..had : g.words[n] = n
      /\ \A n \in 1..k : o[n].word = had + n
      /\ had + k <= Len(w.words)
      /\ live => /\ had + k + Len(b) = Len(w.words)
                 /\ \A n \in 1..Len(b) : b[n] = had + k + n
  BY <1>1 DEF Flows
<1>8. /\ cut[0] = Len(g.fds)
      /\ \A i \in 1..Len(g.fds) : g.fds[i] = w.fds[i]
      /\ \A n \in 1..k : /\ cut[n] = cut[n - 1] + Len(o[n].fds)
                         /\ \A i \in 1..Len(o[n].fds) : o[n].fds[i] = w.fds[cut[n - 1] + i]
      /\ live => /\ all = cut[k] + Len(f)
                 /\ \A i \in 1..Len(f) : f[i] = w.fds[cut[k] + i]
  BY <1>1 DEF Flows
<1>9. \A n \in 0..k : \A i \in 1..all : i > cut[n] => w.fds[i] > had + n
  BY <1>1 DEF Flows
<1>10. cut \in [0..k -> 0..all]
  OBVIOUS
<1>11. cut2 \in [0..Len(o2) -> 0..all] /\ \A n \in 0..k - 1 : cut2[n] = cut[n + 1]
  <2>1. \A n \in 0..k - 1 : n + 1 \in 0..k
    BY <1>2
  <2>2. \A n \in 0..k - 1 : cut[n + 1] \in 0..all
    BY <1>10, <2>1
  <2>3. QED
    BY <1>2, <2>2
<1> HIDE DEF g2, o2, k, all, had, cut2
<1>12. ASSUME NEW n \in 1..Len(g2.words) PROVE g2.words[n] = n
  <2>1. n \in 1..had \/ n = had + 1
    BY <1>3, <1>5
  <2>2. 1 \in 1..k
    BY <1>2
  <2>3. QED
    BY <1>5, <1>7, <2>1, <2>2
<1>13. ASSUME NEW n \in 1..Len(o2) PROVE o2[n].word = Len(g2.words) + n
  <2>1. n \in 1..k - 1 /\ n + 1 \in 1..k
    BY <1>2
  <2>2. o2[n].word = had + (n + 1)
    BY <1>2, <1>7, <2>1
  <2>3. QED
    BY <1>3, <1>5, <2>2
<1>14. Len(g2.words) + Len(o2) = had + k
  BY <1>2, <1>3, <1>5
<1>15. cut2[0] = Len(g2.fds) /\ \A i \in 1..Len(g2.fds) : g2.fds[i] = w.fds[i]
  <2>1. /\ cut[1] = cut[0] + Len(o[1].fds)
        /\ \A i \in 1..Len(o[1].fds) : o[1].fds[i] = w.fds[cut[0] + i]
    <3>1. 1 \in 1..k /\ 1 - 1 = 0
      BY <1>2
    <3>2. /\ cut[1] = cut[1 - 1] + Len(o[1].fds)
          /\ \A i \in 1..Len(o[1].fds) : o[1].fds[i] = w.fds[cut[1 - 1] + i]
      BY <1>8, <3>1
    <3>3. QED
      BY <3>1, <3>2
  <2>2. cut2[0] = cut[1]
    BY <1>2, <1>11
  <2>3. ASSUME NEW i \in 1..Len(g2.fds) PROVE g2.fds[i] = w.fds[i]
    <3>1. CASE i \in 1..Len(g.fds)
      BY <1>6, <1>8, <3>1
    <3>2. CASE i > Len(g.fds)
      <4>1. i - Len(g.fds) \in 1..Len(o[1].fds) /\ Len(g.fds) + (i - Len(g.fds)) = i
        <5> DEFINE m == Len(g.fds)
                   m1 == Len(o[1].fds)
        <5>1. m \in Nat /\ m1 \in Nat /\ i \in 1..m + m1 /\ i > m
          BY <1>3, <1>4, <1>6, <3>2
        <5> HIDE DEF m, m1
        <5>2. i - m \in 1..m1 /\ m + (i - m) = i
          BY <5>1
        <5>3. QED
          BY <5>2 DEF m, m1
      <4>2. g2.fds[i] = o[1].fds[i - Len(g.fds)]
        BY <1>6, <4>1
      <4>3. o[1].fds[i - Len(g.fds)] = w.fds[i]
        BY <1>8, <2>1, <4>1
      <4>4. QED
        BY <4>2, <4>3
    <3>3. QED
      BY <1>3, <3>1, <3>2
  <2>4. QED
    BY <1>6, <1>8, <2>1, <2>2, <2>3
<1>16. ASSUME NEW n \in 1..Len(o2)
       PROVE  /\ cut2[n] = cut2[n - 1] + Len(o2[n].fds)
              /\ \A i \in 1..Len(o2[n].fds) : o2[n].fds[i] = w.fds[cut2[n - 1] + i]
  <2>1. n \in 1..k - 1 /\ n + 1 \in 1..k /\ n \in 0..k - 1 /\ n - 1 \in 0..k - 1
          /\ (n - 1) + 1 = n /\ (n + 1) - 1 = n
    BY <1>2
  <2>2. cut2[n] = cut[n + 1] /\ cut2[n - 1] = cut[n] /\ o2[n] = o[n + 1]
    BY <1>2, <1>11, <2>1
  <2>3. /\ cut[n + 1] = cut[n] + Len(o[n + 1].fds)
        /\ \A i \in 1..Len(o[n + 1].fds) : o[n + 1].fds[i] = w.fds[cut[n] + i]
    BY <1>8, <2>1
  <2>4. QED
    BY <2>2, <2>3
<1>17. ASSUME NEW n \in 0..Len(o2), NEW i \in 1..all, i > cut2[n]
       PROVE  w.fds[i] > Len(g2.words) + n
  <2>1. n \in 0..k - 1 /\ n + 1 \in 0..k
    BY <1>2
  <2>2. cut2[n] = cut[n + 1]
    BY <1>11, <2>1
  <2>3. w.fds[i] > had + (n + 1)
    BY <1>9, <1>17, <2>1, <2>2
  <2>4. had + (n + 1) = Len(g2.words) + n
    BY <1>3, <1>5
  <2>5. QED
    BY <2>3, <2>4
<1>18. cut2[Len(o2)] = cut[k]
  <2>1. k - 1 \in 0..k - 1 /\ (k - 1) + 1 = k
    BY <1>2
  <2>2. QED
    BY <1>2, <1>11, <2>1
<1>19. Flows(w, g2, o2, b, f, live, cut2)
  BY <1>7, <1>8, <1>12, <1>13, <1>14, <1>15, <1>16, <1>17, <1>18 DEF Flows, all
<1>20. Flow(w, g2, o2, b, f, live)
  BY <1>11, <1>19 DEF Flow, all
<1>21. QED
  BY <1>20 DEF g2, o2

\* The words of an event are written behind the others: with its descriptor, if the
\* client is still written to.
Writes(w, b, f, live, w2, b2, f2, live2) ==
  /\ b \in Seq(Nat) /\ f \in Seq(Nat) /\ live \in BOOLEAN
  /\ w2 \in Stream /\ b2 \in Seq(Nat) /\ f2 \in Seq(Nat) /\ live2 \in BOOLEAN
  /\ Len(w2.words) >= Len(w.words)
  /\ Len(w2.fds) \in {Len(w.fds), Len(w.fds) + 1}
  /\ \A n \in 1..Len(w.fds) : w2.fds[n] = w.fds[n]
  /\ Len(w2.fds) > Len(w.fds) => w2.fds[Len(w2.fds)] > Len(w.words)
  /\ live2 => /\ live
              /\ Len(b2) = Len(b) + (Len(w2.words) - Len(w.words))
              /\ \A n \in 1..Len(b) : b2[n] = b[n]
              /\ \A n \in Len(b) + 1..Len(b2) : b2[n] = Len(w.words) + (n - Len(b))
              /\ Len(f2) = Len(f) + (Len(w2.fds) - Len(w.fds))
              /\ \A n \in 1..Len(f) : f2[n] = f[n]
              /\ Len(f2) > Len(f) => f2[Len(f2)] = w2.fds[Len(w2.fds)]

LEMMA FlowWrites ==
  ASSUME NEW w \in Stream, NEW g \in Stream, NEW o \in Seq(Message),
         NEW b, NEW f, NEW live, NEW w2, NEW b2, NEW f2, NEW live2,
         Flow(w, g, o, b, f, live), Writes(w, b, f, live, w2, b2, f2, live2)
  PROVE  Flow(w2, g, o, b2, f2, live2)
<1>0. /\ b \in Seq(Nat) /\ f \in Seq(Nat) /\ live \in BOOLEAN
      /\ w2 \in Stream /\ b2 \in Seq(Nat) /\ f2 \in Seq(Nat) /\ live2 \in BOOLEAN
  BY DEF Writes
<1>1. PICK cut \in [0..Len(o) -> 0..Len(w.fds)] : Flows(w, g, o, b, f, live, cut)
  BY DEF Flow
<1> DEFINE k == Len(o)
           all == Len(w.fds)
           all2 == Len(w2.fds)
           had == Len(g.words)
           size == Len(w.words)
           size2 == Len(w2.words)
           m == Len(b)
           m2 == Len(b2)
           p == Len(f)
           p2 == Len(f2)
<1>2. /\ k \in Nat /\ m \in Nat /\ p \in Nat /\ m2 \in Nat /\ p2 \in Nat
  BY <1>0
<1>3. /\ all \in Nat /\ all2 \in Nat /\ had \in Nat /\ size \in Nat /\ size2 \in Nat
      /\ Len(g.fds) \in Nat
  BY <1>0, StreamParts
<1>4. /\ \A n \in 1..had : g.words[n] = n
      /\ \A n \in 1..k : o[n].word = had + n
      /\ had + k <= size
      /\ live => had + k + m = size /\ \A n \in 1..m : b[n] = had + k + n
  BY <1>1 DEF Flows
<1>5. /\ cut[0] = Len(g.fds)
      /\ \A i \in 1..Len(g.fds) : g.fds[i] = w.fds[i]
      /\ \A n \in 1..k : /\ cut[n] = cut[n - 1] + Len(o[n].fds)
                         /\ \A i \in 1..Len(o[n].fds) : o[n].fds[i] = w.fds[cut[n - 1] + i]
  BY <1>1 DEF Flows
<1>6. \A n \in 0..k : \A i \in 1..all : i > cut[n] => w.fds[i] > had + n
  BY <1>1 DEF Flows
<1>7. live => all = cut[k] + p /\ \A i \in 1..p : f[i] = w.fds[cut[k] + i]
  BY <1>1 DEF Flows
<1>8. cut \in [0..k -> 0..all]
  OBVIOUS
<1>9. /\ size2 >= size /\ all2 \in {all, all + 1}
      /\ \A n \in 1..all : w2.fds[n] = w.fds[n]
      /\ all2 > all => w2.fds[all2] > size
  BY DEF Writes
<1>10. live2 => /\ live
                /\ m2 = m + (size2 - size)
                /\ \A n \in 1..m : b2[n] = b[n]
                /\ \A n \in m + 1..m2 : b2[n] = size + (n - m)
  BY DEF Writes
<1>11. live2 => /\ live
                /\ p2 = p + (all2 - all)
                /\ \A n \in 1..p : f2[n] = f[n]
                /\ p2 > p => f2[p2] = w2.fds[all2]
  BY DEF Writes
<1>12. \A i \in 1..all2 : w2.fds[i] \in Nat
  BY <1>0, StreamParts
<1> HIDE DEF k, all, all2, had, size, size2, m, m2, p, p2
<1>13. cut \in [0..k -> 0..all2] /\ \A n \in 0..k : cut[n] \in 0..all
  <2>1. \A i \in 0..all : i \in 0..all2
    BY <1>3, <1>9
  <2>2. \A n \in 0..k : cut[n] \in 0..all
    BY <1>8
  <2>3. QED
    BY <1>8, <2>1, <2>2
<1>14. had + k <= size2
  BY <1>2, <1>3, <1>4, <1>9
<1>15. live2 => had + k + m2 = size2
  BY <1>2, <1>3, <1>4, <1>10
<1>16. ASSUME live2, NEW n \in 1..m2 PROVE b2[n] = had + k + n
  <2>1. CASE n \in 1..m
    BY <1>4, <1>10, <1>16, <2>1
  <2>2. CASE n \in m + 1..m2
    <3>1. b2[n] = size + (n - m) /\ had + k + m = size
      BY <1>4, <1>10, <1>16, <2>2
    <3>2. n \in Nat
      OBVIOUS
    <3>3. QED
      BY <1>2, <1>3, <3>1, <3>2
  <2>3. QED
    BY <1>2, <2>1, <2>2
<1>17. cut[0] <= all /\ cut[0] = Len(g.fds)
  <2>1. 0 \in 0..k
    BY <1>2
  <2>2. QED
    BY <1>3, <1>5, <1>13, <2>1
<1>18. ASSUME NEW i \in 1..Len(g.fds) PROVE g.fds[i] = w2.fds[i]
  <2>1. i \in 1..all
    BY <1>3, <1>17
  <2>2. g.fds[i] = w.fds[i] /\ w2.fds[i] = w.fds[i]
    BY <1>5, <1>9, <2>1
  <2>3. QED
    BY <2>2
<1>19. ASSUME NEW n \in 1..k
       PROVE  /\ cut[n] = cut[n - 1] + Len(o[n].fds)
              /\ \A i \in 1..Len(o[n].fds) : o[n].fds[i] = w2.fds[cut[n - 1] + i]
  <2>1. Len(o[n].fds) \in Nat
    BY MessageParts DEF k
  <2>2. n \in 0..k /\ n - 1 \in 0..k
    BY <1>2
  <2>3. cut[n] \in 0..all /\ cut[n - 1] \in 0..all
    BY <1>13, <2>2
  <2>4. cut[n] = cut[n - 1] + Len(o[n].fds)
    BY <1>5
  <2>5. ASSUME NEW i \in 1..Len(o[n].fds) PROVE o[n].fds[i] = w2.fds[cut[n - 1] + i]
    <3>1. o[n].fds[i] = w.fds[cut[n - 1] + i]
      BY <1>5
    <3>2. cut[n - 1] + i \in 1..all
      <4> DEFINE len == Len(o[n].fds)
                 at == cut[n - 1]
      <4>1. len \in Nat /\ at \in Nat /\ at + len <= all /\ i \in 1..len
        BY <1>3, <2>1, <2>3, <2>4
      <4> HIDE DEF len, at
      <4>2. at + i \in 1..all
        BY <1>3, <4>1
      <4>3. QED
        BY <4>2 DEF at
    <3>3. QED
      BY <1>9, <3>1, <3>2
  <2>6. QED
    BY <2>4, <2>5
<1>20. ASSUME NEW n \in 0..k, NEW i \in 1..all2, i > cut[n]
       PROVE  w2.fds[i] > had + n
  <2>1. CASE i \in 1..all
    BY <1>6, <1>9, <1>20, <2>1
  <2>2. CASE i \notin 1..all
    <3>1. i = all2 /\ all2 > all
      BY <1>3, <1>9, <2>2
    <3>2. w2.fds[i] > size
      BY <1>9, <3>1
    <3>3. size >= had + n /\ n \in Nat
      BY <1>2, <1>3, <1>4
    <3>4. QED
      BY <1>3, <1>12, <3>2, <3>3
  <2>3. QED
    BY <2>1, <2>2
<1>21. ASSUME live2
       PROVE  all2 = cut[k] + p2 /\ \A i \in 1..p2 : f2[i] = w2.fds[cut[k] + i]
  <2> DEFINE at == cut[k]
  <2>1. at \in Nat
    BY <1>2, <1>3, <1>13
  <2>2. all = at + p /\ \A i \in 1..p : f[i] = w.fds[at + i]
    BY <1>7, <1>11, <1>21
  <2>3. p2 = p + (all2 - all) /\ \A n \in 1..p : f2[n] = f[n]
    BY <1>11, <1>21
  <2>4. p2 > p => f2[p2] = w2.fds[all2]
    BY <1>11, <1>21
  <2> HIDE DEF at
  <2>5. all2 = at + p2
    BY <1>2, <1>3, <2>1, <2>2, <2>3
  <2>6. ASSUME NEW i \in 1..p2 PROVE f2[i] = w2.fds[at + i]
    <3>1. CASE i \in 1..p
      <4>1. at + i \in 1..all
        BY <1>2, <1>3, <2>1, <2>2, <3>1
      <4>2. QED
        BY <1>9, <2>2, <2>3, <3>1, <4>1
    <3>2. CASE i \notin 1..p
      <4>1. i = p2 /\ p2 > p
        BY <1>2, <1>3, <1>9, <2>3, <3>2
      <4>2. f2[i] = w2.fds[all2]
        BY <2>4, <4>1
      <4>3. QED
        BY <2>5, <4>1, <4>2
    <3>3. QED
      BY <3>1, <3>2
  <2>7. QED
    BY <2>5, <2>6 DEF at
<1>22. Flows(w2, g, o, b2, f2, live2, cut)
  BY <1>4, <1>5, <1>14, <1>15, <1>16, <1>18, <1>19, <1>20, <1>21 DEF Flows, k, all2, had, size2, m2, p2
<1>23. QED
  BY <1>13, <1>22 DEF Flow, k, all2

\* What Writer::flush sends and what it keeps.
LEMMA FlushTypes ==
  ASSUME ConnTypeOK, NEW c \in Client
  PROVE  /\ Room(c) \in Nat /\ Room(c) <= Len(buffer[c])
         /\ Sent(c) \in Seq(Message) /\ Len(Sent(c)) <= OutSize
         /\ Len(Sent(c)) = Len(outbox[c]) + Room(c)
         /\ Unsent(c) \in Seq(Nat) /\ Len(Unsent(c)) = Len(buffer[c]) - Room(c)
         /\ Len(Unsent(c)) <= BufferSize
         /\ FdsUnsent(c) \in Seq(Nat) /\ Len(FdsUnsent(c)) <= MaxFds
<1> DEFINE o == outbox[c]
           b == buffer[c]
           f == fds[c]
           r == Room(c)
           chunk == [n \in 1..r |-> [word |-> b[n], fds |-> IF n = 1 THEN f ELSE <<>>]]
<1>1. o \in Seq(Message) /\ b \in Seq(Nat) /\ f \in Seq(Nat)
      /\ Len(o) <= OutSize /\ Len(b) <= BufferSize /\ Len(f) <= MaxFds
  BY DEF ConnTypeOK
<1>2. OutSize \in Nat /\ MaxFds \in Nat /\ BufferSize \in Nat
  BY SizeAssumption DEF BufferSize
<1>3. Len(o) \in Nat /\ Len(b) \in Nat
  BY <1>1
<1>4. r = IF OutSize - Len(o) < Len(b) THEN OutSize - Len(o) ELSE Len(b)
  BY DEF Room, Least
<1> HIDE DEF r
<1>5. r \in Nat /\ r <= Len(b) /\ Len(o) + r <= OutSize
  <2> DEFINE l == Len(o)
             m == Len(b)
  <2>1. l \in Nat /\ m \in Nat /\ l <= OutSize
    BY <1>1, <1>3
  <2>2. r = IF OutSize - l < m THEN OutSize - l ELSE m
    BY <1>4
  <2> HIDE DEF l, m
  <2>3. r \in Nat /\ r <= m /\ l + r <= OutSize
    BY <1>2, <2>1, <2>2
  <2>4. QED
    BY <2>3 DEF l, m
<1>6. chunk \in Seq(Message) /\ Len(chunk) = r
  <2> DEFINE none == <<>>
  <2>1. none \in Seq(Nat)
    OBVIOUS
  <2> HIDE DEF none
  <2>2. ASSUME NEW n \in 1..r PROVE [word |-> b[n], fds |-> IF n = 1 THEN f ELSE none] \in Message
    <3>1. n \in 1..Len(b)
      BY <1>3, <1>5
    <3>2. b[n] \in Nat
      BY <1>1, <3>1
    <3>3. (IF n = 1 THEN f ELSE none) \in Seq(Nat)
      BY <1>1, <2>1
    <3>4. QED
      BY <3>2, <3>3 DEF Message
  <2>3. chunk \in [1..r -> Message]
    BY <2>2 DEF none
  <2>4. QED
    BY <1>5, <2>3, Tabulated
<1>7. Sent(c) = o \o chunk
  BY DEF Sent, r
<1>8. Unsent(c) = SubSeq(b, r + 1, Len(b))
  BY DEF Unsent, r
<1>9. FdsUnsent(c) \in Seq(Nat) /\ Len(FdsUnsent(c)) <= MaxFds
  BY <1>1, <1>2 DEF FdsUnsent
<1> HIDE DEF o, b, f, chunk
<1>10. Sent(c) \in Seq(Message) /\ Len(Sent(c)) = Len(o) + r
  BY <1>1, <1>6, <1>7
<1>11. Unsent(c) \in Seq(Nat) /\ Len(Unsent(c)) = Len(b) - r
  BY <1>1, <1>3, <1>5, <1>8
<1>12. Len(Unsent(c)) <= BufferSize /\ Len(Sent(c)) <= OutSize
  BY <1>1, <1>2, <1>3, <1>5, <1>10, <1>11
<1>13. QED
  BY <1>5, <1>9, <1>10, <1>11, <1>12 DEF o, b, r

LEMMA FlushSends ==
  ASSUME ConnTypeOK, NEW c \in Client, Room(c) \in 1..Len(buffer[c])
  PROVE  Sends(outbox[c], buffer[c], fds[c], Room(c), Sent(c), Unsent(c), FdsUnsent(c))
<1> DEFINE o == outbox[c]
           b == buffer[c]
           f == fds[c]
           r == Room(c)
           none == <<>>
           chunk == [n \in 1..r |-> [word |-> b[n], fds |-> IF n = 1 THEN f ELSE none]]
           o2 == o \o chunk
           b2 == SubSeq(b, r + 1, Len(b))
<1>1. o \in Seq(Message) /\ b \in Seq(Nat) /\ f \in Seq(Nat) /\ Len(o) \in Nat /\ Len(b) \in Nat
  <2>1. o \in Seq(Message) /\ b \in Seq(Nat) /\ f \in Seq(Nat)
    BY DEF ConnTypeOK
  <2>2. QED
    BY <2>1
<1>2. r \in 1..Len(b) /\ r \in Nat
  BY <1>1
<1>3. o2 = Sent(c) /\ b2 = Unsent(c)
  BY DEF Sent, Unsent
<1>4. FdsUnsent(c) = none
  BY <1>2 DEF FdsUnsent
<1>5. Len(none) = 0
  OBVIOUS
<1>6. Len(o2) = Len(o) + r /\ Len(b2) = Len(b) - r
  BY <1>3, FlushTypes
<1>7. Len(chunk) = r /\ \A n \in 1..r : chunk[n] = [word |-> b[n], fds |-> IF n = 1 THEN f ELSE none]
  BY <1>2
<1> HIDE DEF none, r, o, b, f
<1>8. chunk \in Seq([word : {b[n] : n \in 1..r}, fds : {f, none}])
  BY <1>2
<1>9. o \in Seq(Message \cup [word : {b[n] : n \in 1..r}, fds : {f, none}])
  BY <1>1
<1> HIDE DEF chunk
<1>10. /\ \A n \in 1..Len(o) : o2[n] = o[n]
       /\ \A n \in 1..r : o2[Len(o) + n] = chunk[n]
  BY <1>1, <1>2, <1>7, <1>8
<1>11. \A n \in 1..Len(b) - r : b2[n] = b[r + n]
  BY <1>1, <1>2, RestElements
<1> HIDE DEF o2, b2
<1>12. \A n \in 1..r : o2[Len(o) + n].word = b[n]
  BY <1>7, <1>10
<1>13. o2[Len(o) + 1].fds = f
  <2>1. 1 \in 1..r
    BY <1>2
  <2>2. QED
    BY <1>7, <1>10, <2>1
<1>14. ASSUME NEW n \in 2..r PROVE Len(o2[Len(o) + n].fds) = 0
  <2>1. n \in 1..r /\ n # 1
    BY <1>2
  <2>2. o2[Len(o) + n].fds = none
    BY <1>7, <1>10, <2>1
  <2>3. QED
    BY <1>5, <2>2
<1>15. Sends(o, b, f, r, o2, b2, none)
  BY <1>5, <1>6, <1>10, <1>11, <1>12, <1>13, <1>14 DEF Sends
<1>16. QED
  BY <1>3, <1>4, <1>15 DEF o, b, f, r

LEMMA FlowFlushes ==
  ASSUME ConnTypeOK, NEW c \in Client,
         Flow(written[c], got[c], outbox[c], buffer[c], fds[c], TRUE)
  PROVE  Flow(written[c], got[c], Sent(c), Unsent(c), FdsUnsent(c), TRUE)
<1>1. /\ written[c] \in Stream /\ got[c] \in Stream /\ outbox[c] \in Seq(Message)
      /\ buffer[c] \in Seq(Nat) /\ fds[c] \in Seq(Nat) /\ Len(buffer[c]) \in Nat
  BY DEF ConnTypeOK
<1>2. /\ Room(c) \in Nat /\ Room(c) <= Len(buffer[c])
      /\ Sent(c) \in Seq(Message) /\ Unsent(c) \in Seq(Nat) /\ FdsUnsent(c) \in Seq(Nat)
  BY FlushTypes
<1>3. CASE Room(c) = 0
  <2> DEFINE o == outbox[c]
             b == buffer[c]
             none == <<>>
             chunk == [n \in 1..Room(c) |->
                        [word |-> b[n], fds |-> IF n = 1 THEN fds[c] ELSE <<>>]]
  <2>1. chunk = none
    BY <1>3
  <2>2. Sent(c) = o \o chunk
    BY DEF Sent
  <2> HIDE DEF chunk
  <2>3. Sent(c) = o
    BY <1>1, <2>1, <2>2
  <2>4. Unsent(c) = SubSeq(b, 1, Len(b))
    BY <1>3 DEF Unsent
  <2>5. Unsent(c) = b
    BY <1>1, <2>4
  <2>6. FdsUnsent(c) = fds[c]
    BY <1>3 DEF FdsUnsent
  <2>7. QED
    BY <2>3, <2>5, <2>6
<1>4. CASE Room(c) # 0
  <2>1. Room(c) \in 1..Len(buffer[c])
    BY <1>1, <1>2, <1>4
  <2>2. QED
    BY <1>1, <1>2, <2>1, FlushSends, FlowSends
<1>5. QED
  BY <1>3, <1>4

LEMMA SizeNumbers ==
  /\ MaxMessage \in Nat \ {0} /\ InSize \in Nat /\ OutSize \in Nat /\ MaxFds \in Nat
  /\ BufferSize \in Nat /\ \A c \in Client : MaxIn[c] \in Nat /\ MaxOut[c] \in Nat
BY SizeAssumption, ConnBoundsAssumption DEF BufferSize

LEMMA ConnTypeInit == ConnInit => ConnTypeOK
<1> SUFFICES ASSUME ConnInit PROVE ConnTypeOK
  OBVIOUS
<1> DEFINE none == <<>>
<1>1. none \in Seq(BOOLEAN) /\ none \in Seq(Nat) /\ none \in Seq(Message) /\ Len(none) = 0
  OBVIOUS
<1>2. Empty \in Stream
  <2>1. Empty = [words |-> none, fds |-> none]
    BY DEF Empty
  <2> HIDE DEF none
  <2>2. QED
    BY <1>1, <2>1 DEF Stream
<1>3. /\ asked = [c \in Client |-> 0] /\ inbox = [c \in Client |-> none]
      /\ unread = [c \in Client |-> none] /\ buffer = [c \in Client |-> none]
      /\ fds = [c \in Client |-> none] /\ outbox = [c \in Client |-> none]
      /\ written = [c \in Client |-> Empty] /\ got = [c \in Client |-> Empty]
      /\ failed = [c \in Client |-> FALSE] /\ conn = [c \in Client |-> "new"]
  BY DEF ConnInit
<1>4. /\ phase \in Phase /\ ready \subseteq Token /\ events \subseteq Token
      /\ handling \in Client \cup {Other, NoToken}
      /\ toFlush \subseteq Client /\ hungUp \subseteq Client /\ watched \subseteq Client
  BY DEF ConnInit, Phase
<1> HIDE DEF none
<1>5. QED
  BY <1>1, <1>2, <1>3, <1>4, SizeNumbers DEF ConnTypeOK

LEMMA ConnTypeClients ==
  ASSUME ConnTypeOK, NEW c \in Client,
         \/ Connect(c) \/ (\E last \in BOOLEAN : Ask(c, last)) \/ HangUp(c) \/ Receive(c)
  PROVE  ConnTypeOK'
<1>1. CASE Connect(c)
  BY <1>1 DEF Connect, ConnTypeOK, inVars, outVars, Token, Phase
<1>2. ASSUME NEW last \in BOOLEAN, Ask(c, last) PROVE ConnTypeOK'
  <2> DEFINE list == inbox[c]
  <2>1. list \in Seq(BOOLEAN) /\ Len(list) \in Nat /\ asked[c] \in Nat
    BY DEF ConnTypeOK
  <2>2. asked[c] < MaxIn[c] /\ Len(list) < InSize /\ MaxIn[c] \in Nat /\ InSize \in Nat
    BY <1>2, SizeNumbers DEF Ask
  <2> HIDE DEF list
  <2>3. Append(list, last) \in Seq(BOOLEAN) /\ Len(Append(list, last)) <= InSize
    BY <2>1, <2>2
  <2>4. inbox' = [inbox EXCEPT ![c] = Append(list, last)] /\ asked' = [asked EXCEPT ![c] = asked[c] + 1]
    BY <1>2 DEF Ask, list
  <2>5. inbox' \in [Client -> Seq(BOOLEAN)] /\ \A d \in Client : Len(inbox'[d]) <= InSize
    BY <2>3, <2>4 DEF ConnTypeOK
  <2>6. asked' \in [Client -> Nat] /\ \A d \in Client : asked'[d] <= MaxIn[d]
    <3>1. asked \in [Client -> Nat] /\ \A d \in Client : asked[d] <= MaxIn[d]
      BY DEF ConnTypeOK
    <3>2. asked[c] + 1 \in Nat /\ asked[c] + 1 <= MaxIn[c]
      BY <2>1, <2>2
    <3>3. QED
      BY <2>4, <3>1, <3>2
  <2>7. ready' \subseteq Token
    BY <1>2 DEF Ask, Edge, ConnTypeOK, Token
  <2>8. QED
    BY <1>2, <2>5, <2>6, <2>7 DEF Ask, ConnTypeOK, outVars
<1>3. CASE HangUp(c)
  <2> DEFINE none == <<>>
  <2>1. none \in Seq(Message) /\ Len(none) = 0 /\ outbox' = [outbox EXCEPT ![c] = none]
    BY <1>3 DEF HangUp
  <2> HIDE DEF none
  <2>2. outbox' \in [Client -> Seq(Message)] /\ \A d \in Client : Len(outbox'[d]) <= OutSize
    <3>1. outbox \in [Client -> Seq(Message)] /\ \A d \in Client : Len(outbox[d]) <= OutSize
      BY DEF ConnTypeOK
    <3>2. Len(none) <= OutSize
      BY <2>1, SizeNumbers
    <3>3. QED
      BY <2>1, <3>1, <3>2, SizeNumbers, SeqReplaced
  <2>3. ready' \subseteq Token /\ hungUp' \subseteq Client
    BY <1>3 DEF HangUp, Edge, ConnTypeOK, Token
  <2>4. QED
    BY <1>3, <2>2, <2>3 DEF HangUp, ConnTypeOK, inVars
<1>4. CASE Receive(c)
  <2> DEFINE o == outbox[c]
             g == got[c]
             g2 == [words |-> Append(g.words, Head(o).word), fds |-> g.fds \o Head(o).fds]
  <2>1. o \in Seq(Message) /\ o # <<>> /\ g \in Stream /\ Len(o) <= OutSize /\ OutSize \in Nat
    BY <1>4, SizeNumbers DEF Receive, ConnTypeOK
  <2> HIDE DEF o, g
  <2>2. Head(o) \in Message
    BY <2>1
  <2>3. Head(o).word \in Nat /\ Head(o).fds \in Seq(Nat) /\ g.words \in Seq(Nat) /\ g.fds \in Seq(Nat)
    BY <2>1, <2>2, StreamParts DEF Message
  <2>4. g2 \in Stream
    <3>1. Append(g.words, Head(o).word) \in Seq(Nat) /\ g.fds \o Head(o).fds \in Seq(Nat)
      BY <2>3
    <3>2. QED
      BY <3>1 DEF Stream
  <2>5. Tail(o) \in Seq(Message) /\ Len(Tail(o)) <= OutSize
    BY <2>1
  <2> HIDE DEF g2
  <2>6. outbox' = [outbox EXCEPT ![c] = Tail(o)] /\ got' = [got EXCEPT ![c] = g2]
    BY <1>4 DEF Receive, o, g, g2
  <2>7. outbox' \in [Client -> Seq(Message)] /\ \A d \in Client : Len(outbox'[d]) <= OutSize
    BY <2>5, <2>6 DEF ConnTypeOK
  <2>8. got' \in [Client -> Stream]
    BY <2>4, <2>6 DEF ConnTypeOK
  <2>9. ready' \subseteq Token
    BY <1>4 DEF Receive, Edge, ConnTypeOK, Token
  <2>10. QED
    BY <1>4, <2>7, <2>8, <2>9 DEF Receive, ConnTypeOK, inVars
<1>5. QED
  BY <1>1, <1>2, <1>3, <1>4

\* The part of a client in the tables of the writer is replaced.
LEMMA ConnTypeRemoved ==
  ASSUME ConnTypeOK, NEW c \in Client, Removed(c),
         phase' \in Phase, handling' \in Client \cup {Other, NoToken},
         outbox' \in [Client -> Seq(Message)], \A d \in Client : Len(outbox'[d]) <= OutSize
  PROVE  ConnTypeOK'
<1>1. /\ inbox \in [Client -> Seq(BOOLEAN)] /\ unread \in [Client -> Seq(BOOLEAN)]
      /\ buffer \in [Client -> Seq(Nat)] /\ fds \in [Client -> Seq(Nat)]
  BY DEF ConnTypeOK
<1>2. /\ \A d \in Client : Len(inbox[d]) <= InSize
      /\ \A d \in Client : Len(unread[d]) <= BufferSize
      /\ \A d \in Client : Len(buffer[d]) <= BufferSize
      /\ \A d \in Client : Len(fds[d]) <= MaxFds
  BY DEF ConnTypeOK
<1>3. /\ inbox' = [inbox EXCEPT ![c] = <<>>] /\ unread' = [unread EXCEPT ![c] = <<>>]
      /\ buffer' = [buffer EXCEPT ![c] = <<>>] /\ fds' = [fds EXCEPT ![c] = <<>>]
  BY DEF Removed
<1>4. inbox' \in [Client -> Seq(BOOLEAN)] /\ \A d \in Client : Len(inbox'[d]) <= InSize
  BY <1>1, <1>2, <1>3, SizeNumbers, SeqCleared
<1>5. unread' \in [Client -> Seq(BOOLEAN)] /\ \A d \in Client : Len(unread'[d]) <= BufferSize
  BY <1>1, <1>2, <1>3, SizeNumbers, SeqCleared
<1>6. buffer' \in [Client -> Seq(Nat)] /\ \A d \in Client : Len(buffer'[d]) <= BufferSize
  BY <1>1, <1>2, <1>3, SizeNumbers, SeqCleared
<1>7. fds' \in [Client -> Seq(Nat)] /\ \A d \in Client : Len(fds'[d]) <= MaxFds
  BY <1>1, <1>2, <1>3, SizeNumbers, SeqCleared
<1>8. /\ conn' \in [Client -> {"new", "backlog", "open", "gone"}] /\ failed' \in [Client -> BOOLEAN]
      /\ watched' \subseteq Client /\ ready' \subseteq Token /\ events' \subseteq Token
      /\ toFlush' \subseteq Client
  BY DEF Removed, ConnTypeOK
<1>9. QED
  BY <1>4, <1>5, <1>6, <1>7, <1>8 DEF Removed, ConnTypeOK

\* The outbox of a client after a flush.
LEMMA SentTypes ==
  ASSUME ConnTypeOK, NEW c \in Client, NEW box, box = [outbox EXCEPT ![c] = Sent(c)]
  PROVE  box \in [Client -> Seq(Message)] /\ \A d \in Client : Len(box[d]) <= OutSize
<1>1. Sent(c) \in Seq(Message) /\ Len(Sent(c)) <= OutSize
  BY FlushTypes
<1>2. QED
  BY <1>1 DEF ConnTypeOK

LEMMA ConnTypeHandlers ==
  ASSUME ConnTypeOK, Handler PROVE ConnTypeOK'
<1>1. CASE AcceptClient
  <2>1. conn' \in [Client -> {"new", "backlog", "open", "gone"}] /\ ready' \subseteq Token
    <3>1. CASE UNCHANGED <<conn, ready>>
      BY <3>1 DEF ConnTypeOK
    <3>2. CASE ~UNCHANGED <<conn, ready>>
      <4>1. PICK c \in Client : /\ conn' = [conn EXCEPT ![c] = "open"]
                              /\ ready' = IF Readable(c) THEN ready \cup {c} ELSE ready
        BY <1>1, <3>2 DEF AcceptClient
      <4>2. QED
        BY <4>1 DEF ConnTypeOK, Token
    <3>3. QED
      BY <3>1, <3>2
  <2>2. events' \subseteq Token
    BY <1>1 DEF AcceptClient, ConnTypeOK
  <2>3. QED
    BY <1>1, <2>1, <2>2 DEF AcceptClient, ConnTypeOK, inVars, outVars
<1>2. CASE StartOther \/ EndOther
  BY <1>2 DEF StartOther, EndOther, ConnTypeOK, inVars, outVars
<1>3. ASSUME NEW c \in Client, Read(c) PROVE ConnTypeOK'
  <2>1. PICK n \in 1..Least(Len(inbox[c]), BufferSize - Len(unread[c])) :
          /\ unread' = [unread EXCEPT ![c] = unread[c] \o SubSeq(inbox[c], 1, n)]
          /\ inbox' = [inbox EXCEPT ![c] = SubSeq(inbox[c], n + 1, Len(inbox[c]))]
    BY <1>3 DEF Read
  <2> DEFINE list == inbox[c]
             old == unread[c]
             l == Len(list)
             m == Len(old)
  <2>2. list \in Seq(BOOLEAN) /\ old \in Seq(BOOLEAN) /\ l \in Nat /\ m \in Nat
          /\ l <= InSize /\ m < BufferSize /\ BufferSize \in Nat /\ InSize \in Nat
    <3>1. list \in Seq(BOOLEAN) /\ old \in Seq(BOOLEAN) /\ l <= InSize
      BY DEF ConnTypeOK
    <3>2. m < BufferSize
      BY <1>3 DEF Read
    <3>3. QED
      BY <3>1, <3>2, SizeNumbers
  <2>3. n \in Nat /\ n >= 1 /\ n <= (IF l < BufferSize - m THEN l ELSE BufferSize - m)
    BY <2>1, <2>2 DEF Least
  <2> HIDE DEF l, m
  <2>4. n \in Nat /\ n >= 1 /\ n <= l /\ m + n <= BufferSize /\ l - n <= InSize
    BY <2>2, <2>3
  <2> DEFINE front == SubSeq(list, 1, n)
             back == SubSeq(list, n + 1, Len(list))
  <2> HIDE DEF list, old
  <2>5. front \in Seq(BOOLEAN) /\ Len(front) = n /\ back \in Seq(BOOLEAN) /\ Len(back) = l - n
    BY <2>2, <2>4 DEF l
  <2>6. unread' = [unread EXCEPT ![c] = old \o front] /\ inbox' = [inbox EXCEPT ![c] = back]
    BY <2>1 DEF list, old
  <2> HIDE DEF front, back
  <2>7. old \o front \in Seq(BOOLEAN) /\ Len(old \o front) = m + n
    <3>1. Len(old \o front) = Len(old) + Len(front) /\ old \o front \in Seq(BOOLEAN)
      BY <2>2, <2>5, SeqJoined
    <3>2. QED
      BY <2>5, <3>1 DEF m
  <2>8. inbox' \in [Client -> Seq(BOOLEAN)] /\ \A d \in Client : Len(inbox'[d]) <= InSize
    BY <2>4, <2>5, <2>6 DEF ConnTypeOK
  <2>9. unread' \in [Client -> Seq(BOOLEAN)] /\ \A d \in Client : Len(unread'[d]) <= BufferSize
    BY <2>4, <2>6, <2>7 DEF ConnTypeOK
  <2>10. QED
    BY <1>3, <2>8, <2>9 DEF Read, ConnTypeOK, outVars
<1>4. ASSUME NEW c \in Client, ReadNothing(c) \/ EndRequests(c) PROVE ConnTypeOK'
  BY <1>4 DEF ReadNothing, EndRequests, ConnTypeOK, inVars, outVars
<1>5. ASSUME NEW c \in Client, Disconnect(c) PROVE ConnTypeOK'
  <2>1. outbox' \in [Client -> Seq(Message)] /\ \A d \in Client : Len(outbox'[d]) <= OutSize
    BY <1>5, SentTypes DEF Disconnect, ConnTypeOK
  <2>2. phase' \in Phase /\ handling' \in Client \cup {Other, NoToken} /\ Removed(c)
    BY <1>5 DEF Disconnect, ConnTypeOK
  <2>3. QED
    BY <2>1, <2>2, ConnTypeRemoved
<1>6. ASSUME NEW c \in Client, HandleRequest(c) PROVE ConnTypeOK'
  <2> DEFINE list == unread[c]
  <2>1. list \in Seq(BOOLEAN) /\ Len(list) <= BufferSize /\ BufferSize \in Nat /\ Len(list) \in Nat
    BY SizeNumbers DEF ConnTypeOK
  <2>2. PICK n \in DOMAIN list : unread' = [unread EXCEPT ![c] = SubSeq(list, n + 1, Len(list))]
    BY <1>6 DEF HandleRequest
  <2> HIDE DEF list
  <2>3. n \in 1..Len(list)
    BY <2>1
  <2>4. SubSeq(list, n + 1, Len(list)) \in Seq(BOOLEAN) /\ Len(SubSeq(list, n + 1, Len(list))) <= BufferSize
    BY <2>1, <2>3
  <2>5. unread' \in [Client -> Seq(BOOLEAN)] /\ \A d \in Client : Len(unread'[d]) <= BufferSize
    BY <2>2, <2>4 DEF ConnTypeOK
  <2>6. QED
    BY <1>6, <2>5 DEF HandleRequest, ConnTypeOK, loopVars, outVars
<1>7. QED
  BY <1>1, <1>2, <1>3, <1>4, <1>5, <1>6 DEF Handler, ReadFails, FailRequest

LEMMA ConnTypeFlush ==
  ASSUME ConnTypeOK, Flush PROVE ConnTypeOK'
<1>1. CASE StartFlush
  BY <1>1 DEF StartFlush, ConnTypeOK, Open, Phase, inVars, outVars
<1>2. ASSUME NEW c \in Client, FlushClient(c) PROVE ConnTypeOK'
  <2>1. /\ Unsent(c) \in Seq(Nat) /\ Len(Unsent(c)) <= BufferSize
        /\ FdsUnsent(c) \in Seq(Nat) /\ Len(FdsUnsent(c)) <= MaxFds
    BY FlushTypes
  <2>2. outbox' \in [Client -> Seq(Message)] /\ \A d \in Client : Len(outbox'[d]) <= OutSize
    BY <1>2, SentTypes DEF FlushClient
  <2>3. buffer' \in [Client -> Seq(Nat)] /\ \A d \in Client : Len(buffer'[d]) <= BufferSize
    BY <1>2, <2>1 DEF FlushClient, ConnTypeOK
  <2>4. fds' \in [Client -> Seq(Nat)] /\ \A d \in Client : Len(fds'[d]) <= MaxFds
    BY <1>2, <2>1 DEF FlushClient, ConnTypeOK
  <2>5. ready' \subseteq Token /\ watched' \subseteq Client /\ toFlush' \subseteq Client
    BY <1>2 DEF FlushClient, ReportedAnew, ConnTypeOK, Token
  <2>6. QED
    BY <1>2, <2>2, <2>3, <2>4, <2>5 DEF FlushClient, ConnTypeOK, inVars
<1>3. ASSUME NEW c \in Client, FlushFails(c) PROVE ConnTypeOK'
  <2>1. /\ Removed(c) /\ phase' \in Phase /\ handling' \in Client \cup {Other, NoToken}
        /\ outbox' \in [Client -> Seq(Message)] /\ \A d \in Client : Len(outbox'[d]) <= OutSize
    BY <1>3 DEF FlushFails, ConnTypeOK
  <2>2. QED
    BY <2>1, ConnTypeRemoved
<1>4. CASE FlushDone
  BY <1>4 DEF FlushDone, ConnTypeOK, Phase, inVars, outVars
<1>5. QED
  BY <1>1, <1>2, <1>3, <1>4 DEF Flush

\* start_message: what is on the way, in the buffer and in the descriptors after its flush.
Flushes(c) == FlushNeeded(c) /\ ~Broken(c)
Gone(c) == IF Flushes(c) THEN Sent(c) ELSE outbox[c]
Kept(c) == IF Flushes(c) THEN Unsent(c) ELSE buffer[c]
KeptFds(c) == IF Flushes(c) THEN FdsUnsent(c) ELSE fds[c]
Refuses(c, refused) == failed[c] \/ refused \/ (FlushNeeded(c) /\ Broken(c))

\* The words that Write appends, and the history that it records.
Appended(c, size, refused) ==
  [n \in 1..size |-> IF Refuses(c, refused) THEN 0 ELSE Len(written[c].words) + 1 + n - 1]
Recorded(c, size, withFd) ==
  [words |-> written[c].words \o [n \in 1..size |-> Len(written[c].words) + 1 + n - 1],
   fds |-> IF withFd THEN Append(written[c].fds, Len(written[c].words) + size) ELSE written[c].fds]

LEMMA WriteIs ==
  ASSUME ConnTypeOK, NEW c \in Client, NEW size \in 1..MaxMessage, NEW withFd \in BOOLEAN,
         NEW refused \in BOOLEAN, Write(c, size, withFd, refused)
  PROVE  /\ phase = "events" /\ c \in Open
         /\ outbox' = [outbox EXCEPT ![c] = Gone(c)]
         /\ IF Len(Kept(c)) + size > BufferSize
            THEN /\ phase' = "crashed"
                 /\ buffer' = [buffer EXCEPT ![c] = Kept(c)]
                 /\ fds' = [fds EXCEPT ![c] = KeptFds(c)]
                 /\ UNCHANGED <<failed, written>>
            ELSE /\ UNCHANGED phase
                 /\ buffer' = [buffer EXCEPT ![c] = Kept(c) \o Appended(c, size, refused)]
                 /\ fds' = [fds EXCEPT ![c] = IF withFd /\ ~FdsFull(KeptFds(c))
                                              THEN Append(KeptFds(c), Len(written[c].words) + size)
                                              ELSE KeptFds(c)]
                 /\ failed' = [failed EXCEPT ![c] = Refuses(c, refused) \/ (withFd /\ FdsFull(KeptFds(c)))]
                 /\ written' = [written EXCEPT ![c] = Recorded(c, size, withFd)]
         /\ UNCHANGED <<ready, events, handling, toFlush, conn, hungUp, inVars, watched, got>>
<1>1. CASE Flushes(c)
  BY <1>1 DEF Write, Flushes, Gone, Kept, KeptFds, Refuses, Appended, Recorded
<1>2. CASE ~Flushes(c)
  <2>1. outbox' = outbox /\ Gone(c) = outbox[c]
    BY <1>2 DEF Write, Flushes, Gone
  <2>2. outbox' = [outbox EXCEPT ![c] = Gone(c)]
    BY <2>1 DEF ConnTypeOK
  <2>3. QED
    BY <1>2, <2>2 DEF Write, Flushes, Kept, KeptFds, Refuses, Appended, Recorded
<1>3. QED
  BY <1>1, <1>2

\* The values that Write leaves are of their kinds.
LEMMA WriteTypes ==
  ASSUME ConnTypeOK, NEW c \in Client, NEW size \in 1..MaxMessage, NEW withFd \in BOOLEAN,
         NEW refused \in BOOLEAN
  PROVE  /\ Gone(c) \in Seq(Message) /\ Len(Gone(c)) <= OutSize
         /\ Kept(c) \in Seq(Nat) /\ Len(Kept(c)) <= BufferSize
         /\ KeptFds(c) \in Seq(Nat) /\ Len(KeptFds(c)) <= MaxFds
         /\ Appended(c, size, refused) \in Seq(Nat) /\ Len(Appended(c, size, refused)) = size
         /\ Recorded(c, size, withFd) \in Stream
         /\ Len(Recorded(c, size, withFd).words) = Len(written[c].words) + size
         /\ size \in Nat \ {0} /\ Len(written[c].words) \in Nat
<1> DEFINE w == written[c].words
           l == Len(w)
           more == [n \in 1..size |-> l + 1 + n - 1]
           appended == [n \in 1..size |-> IF Refuses(c, refused) THEN 0 ELSE l + 1 + n - 1]
<1>1. size \in Nat \ {0}
  BY SizeNumbers
<1>2. w \in Seq(Nat) /\ l \in Nat /\ written[c].fds \in Seq(Nat)
  BY StreamParts DEF ConnTypeOK
<1>3. /\ Gone(c) \in Seq(Message) /\ Len(Gone(c)) <= OutSize
      /\ Kept(c) \in Seq(Nat) /\ Len(Kept(c)) <= BufferSize
      /\ KeptFds(c) \in Seq(Nat) /\ Len(KeptFds(c)) <= MaxFds
  BY FlushTypes DEF Gone, Kept, KeptFds, ConnTypeOK
<1> HIDE DEF l
<1>4. \A n \in 1..size : l + 1 + n - 1 \in Nat
  BY <1>1, <1>2
<1>5. more \in Seq(Nat) /\ Len(more) = size /\ appended \in Seq(Nat) /\ Len(appended) = size
  BY <1>1, <1>4
<1>6. Appended(c, size, refused) = appended
  BY DEF Appended, l
<1>7. Recorded(c, size, withFd)
        = [words |-> w \o more, fds |-> IF withFd THEN Append(written[c].fds, l + size) ELSE written[c].fds]
  BY DEF Recorded, l
<1> HIDE DEF w, more, appended
<1>8. w \o more \in Seq(Nat) /\ Len(w \o more) = l + size
  BY <1>2, <1>5, SeqJoined DEF l
<1>9. (IF withFd THEN Append(written[c].fds, l + size) ELSE written[c].fds) \in Seq(Nat)
  BY <1>1, <1>2
<1>10. Recorded(c, size, withFd) \in Stream
  BY <1>7, <1>8, <1>9 DEF Stream
<1>11. QED
  BY <1>1, <1>2, <1>3, <1>5, <1>6, <1>7, <1>8, <1>10 DEF w, l

LEMMA ConnTypeWrite ==
  ASSUME ConnTypeOK, NEW c \in Client, NEW size \in 1..MaxMessage, NEW withFd \in BOOLEAN,
         NEW refused \in BOOLEAN, Write(c, size, withFd, refused)
  PROVE  ConnTypeOK'
<1>1. /\ outbox \in [Client -> Seq(Message)] /\ buffer \in [Client -> Seq(Nat)]
      /\ fds \in [Client -> Seq(Nat)] /\ written \in [Client -> Stream] /\ failed \in [Client -> BOOLEAN]
      /\ \A d \in Client : Len(outbox[d]) <= OutSize
      /\ \A d \in Client : Len(buffer[d]) <= BufferSize
      /\ \A d \in Client : Len(fds[d]) <= MaxFds
  BY DEF ConnTypeOK
<1>2. outbox' \in [Client -> Seq(Message)] /\ \A d \in Client : Len(outbox'[d]) <= OutSize
  <2>1. outbox' = [outbox EXCEPT ![c] = Gone(c)]
    BY WriteIs
  <2>2. Gone(c) \in Seq(Message) /\ Len(Gone(c)) <= OutSize
    BY WriteTypes
  <2>3. QED
    BY <1>1, <2>1, <2>2, SizeNumbers, SeqReplaced
<1>3. phase' \in Phase
  BY WriteIs DEF ConnTypeOK, Phase
<1>4. /\ UNCHANGED <<ready, events, handling, toFlush, conn, hungUp, watched, got>>
      /\ UNCHANGED <<asked, inbox, unread>>
  BY WriteIs DEF inVars
<1>5. CASE Len(Kept(c)) + size > BufferSize
  <2>1. /\ buffer' = [buffer EXCEPT ![c] = Kept(c)] /\ fds' = [fds EXCEPT ![c] = KeptFds(c)]
        /\ UNCHANGED <<failed, written>>
    BY <1>5, WriteIs
  <2>2. buffer' \in [Client -> Seq(Nat)] /\ \A d \in Client : Len(buffer'[d]) <= BufferSize
    BY <1>1, <2>1, WriteTypes, SizeNumbers, SeqReplaced
  <2>3. fds' \in [Client -> Seq(Nat)] /\ \A d \in Client : Len(fds'[d]) <= MaxFds
    BY <1>1, <2>1, WriteTypes, SizeNumbers, SeqReplaced
  <2>4. QED
    BY <1>2, <1>3, <1>4, <2>1, <2>2, <2>3 DEF ConnTypeOK
<1>6. CASE ~(Len(Kept(c)) + size > BufferSize)
  <2> DEFINE b2 == Kept(c) \o Appended(c, size, refused)
             f2 == IF withFd /\ ~FdsFull(KeptFds(c))
                   THEN Append(KeptFds(c), Len(written[c].words) + size) ELSE KeptFds(c)
  <2>1. /\ buffer' = [buffer EXCEPT ![c] = b2] /\ fds' = [fds EXCEPT ![c] = f2]
        /\ failed' = [failed EXCEPT ![c] = Refuses(c, refused) \/ (withFd /\ FdsFull(KeptFds(c)))]
        /\ written' = [written EXCEPT ![c] = Recorded(c, size, withFd)]
    BY <1>6, WriteIs
  <2>2. b2 \in Seq(Nat) /\ Len(b2) <= BufferSize
    <3>1. b2 \in Seq(Nat) /\ Len(b2) = Len(Kept(c)) + size
      <4>1. Kept(c) \in Seq(Nat) /\ Appended(c, size, refused) \in Seq(Nat)
              /\ Len(Appended(c, size, refused)) = size
        BY WriteTypes
      <4>2. QED
        BY <4>1, SeqJoined
    <3>2. Len(Kept(c)) \in Nat /\ size \in Nat /\ BufferSize \in Nat
      BY WriteTypes, SizeNumbers
    <3>3. QED
      BY <1>6, <3>1, <3>2
  <2>3. f2 \in Seq(Nat) /\ Len(f2) <= MaxFds
    <3> DEFINE k == KeptFds(c)
               m == Len(k)
    <3>1. k \in Seq(Nat) /\ m <= MaxFds /\ m \in Nat /\ Len(written[c].words) + size \in Nat
      BY WriteTypes
    <3>2. FdsFull(k) <=> m = MaxFds
      BY DEF FdsFull
    <3> HIDE DEF k
    <3>3. Append(k, Len(written[c].words) + size) \in Seq(Nat)
            /\ Len(Append(k, Len(written[c].words) + size)) = m + 1
      BY <3>1
    <3> HIDE DEF m
    <3>4. m # MaxFds => m + 1 <= MaxFds
      BY <3>1, SizeNumbers
    <3>5. QED
      BY <3>1, <3>2, <3>3, <3>4 DEF k, m
  <2> HIDE DEF b2, f2
  <2>4. buffer' \in [Client -> Seq(Nat)] /\ \A d \in Client : Len(buffer'[d]) <= BufferSize
    BY <1>1, <2>1, <2>2, SizeNumbers, SeqReplaced
  <2>5. fds' \in [Client -> Seq(Nat)] /\ \A d \in Client : Len(fds'[d]) <= MaxFds
    BY <1>1, <2>1, <2>3, SizeNumbers, SeqReplaced
  <2>6. written' \in [Client -> Stream]
    BY <1>1, <2>1, WriteTypes
  <2>7. failed' \in [Client -> BOOLEAN]
    BY <1>1, <2>1
  <2>8. QED
    BY <1>2, <1>3, <1>4, <2>4, <2>5, <2>6, <2>7 DEF ConnTypeOK
<1>7. QED
  BY <1>5, <1>6

LEMMA ConnTypeNext == ConnTypeOK /\ [ConnNext]_connVars => ConnTypeOK'
<1> SUFFICES ASSUME ConnTypeOK, [ConnNext]_connVars PROVE ConnTypeOK'
  OBVIOUS
<1>1. CASE ClientStep
  BY <1>1, ConnTypeClients DEF ClientStep
<1>2. CASE OtherReady
  BY <1>2 DEF OtherReady, ConnTypeOK, Token, inVars, outVars
<1>3. CASE Poll
  BY <1>3 DEF Poll, ConnTypeOK, Phase, inVars, outVars
<1>4. CASE \E c \in Client, size \in 1..MaxMessage, withFd, refused \in BOOLEAN :
             Write(c, size, withFd, refused)
  BY <1>4, ConnTypeWrite
<1>5. CASE Handler \/ Flush
  BY <1>5, ConnTypeHandlers, ConnTypeFlush
<1>6. CASE UNCHANGED connVars
  BY <1>6 DEF connVars, ConnTypeOK, loopVars, inVars, outVars
<1>7. QED
  BY <1>1, <1>2, <1>3, <1>4, <1>5, <1>6 DEF ConnNext

\* Sockets and buffers hold words of their kinds and no more than they can: the writer's
\* buffer, its descriptors and the reader's buffer never go past their ends, except in
\* the panic that ends the program (Writer, Reader).
THEOREM ConnTypeCorrect == ConnSpec => []ConnTypeOK
BY ConnTypeInit, ConnTypeNext, PTL DEF ConnSpec

\* Whatever waits to be handled or flushed belongs to a client that is connected, and
\* handlers run between the poll and the flush only.
LoopInv ==
  /\ toFlush \subseteq Open
  /\ ready \cap Client \subseteq Open /\ events \cap Client \subseteq Open
  /\ handling \in events \cup {NoToken}
  /\ phase \in {"poll", "flush"} => events = {}

\* Nothing is written for a client that is not accepted.
NothingYet(c) ==
  /\ written[c] = Empty /\ got[c] = Empty
  /\ outbox[c] = <<>> /\ buffer[c] = <<>> /\ fds[c] = <<>> /\ ~failed[c]

Live(c) == c \in Open /\ ~failed[c]

ClientFlows(c) ==
  /\ conn[c] \in {"new", "backlog"} => NothingYet(c)
  /\ c \notin hungUp => Flow(written[c], got[c], outbox[c], buffer[c], fds[c], Live(c))

ConnInv == ConnTypeOK /\ LoopInv /\ \A c \in Client : ClientFlows(c)

LEMMA LoopInit == ConnInit => LoopInv
BY DEF ConnInit, LoopInv

LEMMA LoopRemoved ==
  ASSUME ConnTypeOK, LoopInv, NEW c \in Client, Removed(c), UNCHANGED phase,
         handling' \in (events \ {c}) \cup {NoToken}
  PROVE  LoopInv'
<1>1. Open' = Open \ {c}
  BY DEF Removed, Open, ConnTypeOK
<1>2. QED
  BY <1>1 DEF Removed, LoopInv

LEMMA LoopNext == ConnTypeOK /\ LoopInv /\ [ConnNext]_connVars => LoopInv'
<1> SUFFICES ASSUME ConnTypeOK, LoopInv, [ConnNext]_connVars PROVE LoopInv'
  OBVIOUS
<1>1. CASE ClientStep
  <2>1. ASSUME NEW c \in Client, Connect(c) PROVE LoopInv'
    <3>1. Open \subseteq Open'
      BY <2>1 DEF Connect, Open, ConnTypeOK
    <3>2. QED
      BY <2>1, <3>1, TokenAssumption DEF Connect, LoopInv
  <2>2. ASSUME NEW c \in Client, \E last \in BOOLEAN : Ask(c, last) PROVE LoopInv'
    BY <2>2 DEF Ask, Edge, Open, LoopInv
  <2>3. ASSUME NEW c \in Client, HangUp(c) PROVE LoopInv'
    BY <2>3 DEF HangUp, Edge, Open, LoopInv
  <2>4. ASSUME NEW c \in Client, Receive(c) PROVE LoopInv'
    BY <2>4 DEF Receive, Edge, Open, LoopInv
  <2>5. QED
    BY <1>1, <2>1, <2>2, <2>3, <2>4 DEF ClientStep
<1>2. CASE OtherReady
  BY <1>2, TokenAssumption DEF OtherReady, LoopInv, Open
<1>3. CASE \E c \in Client, size \in 1..MaxMessage, withFd, refused \in BOOLEAN :
             Write(c, size, withFd, refused)
  <2>1. /\ phase = "events" /\ phase' \in {"events", "crashed"}
        /\ UNCHANGED <<ready, events, handling, toFlush, conn>>
    BY <1>3, WriteIs
  <2>2. QED
    BY <2>1 DEF LoopInv, Open
<1>4. CASE Poll
  BY <1>4 DEF Poll, LoopInv, Open
<1>5. CASE AcceptClient
  <2>1. Open \subseteq Open' /\ ready' \subseteq ready \cup Open'
    <3>1. CASE UNCHANGED <<conn, ready>>
      BY <3>1 DEF Open
    <3>2. CASE ~UNCHANGED <<conn, ready>>
      <4>1. PICK c \in Client : /\ conn' = [conn EXCEPT ![c] = "open"]
                              /\ ready' = IF Readable(c) THEN ready \cup {c} ELSE ready
        BY <1>5, <3>2 DEF AcceptClient
      <4>2. QED
        BY <4>1 DEF ConnTypeOK, Open
    <3>3. QED
      BY <3>1, <3>2
  <2>2. QED
    BY <1>5, <2>1, TokenAssumption DEF AcceptClient, Handle, LoopInv
<1>6. CASE StartOther \/ EndOther
  BY <1>6, TokenAssumption DEF StartOther, EndOther, Handle, LoopInv, Open
<1>7. ASSUME NEW c \in Client, Read(c) \/ ReadNothing(c) \/ HandleRequest(c) \/ EndRequests(c)
      PROVE  LoopInv'
  BY <1>7, TokenAssumption DEF Read, ReadNothing, HandleRequest, EndRequests, Handle, Requested,
     loopVars, LoopInv, Open
<1>8. ASSUME NEW c \in Client, ReadFails(c) \/ FailRequest(c) PROVE LoopInv'
  <2>1. Removed(c) /\ UNCHANGED phase /\ handling' = NoToken
    BY <1>8 DEF ReadFails, FailRequest, Disconnect
  <2>2. QED
    BY <2>1, LoopRemoved
<1>9. CASE StartFlush \/ FlushDone
  BY <1>9 DEF StartFlush, FlushDone, LoopInv, Open
<1>10. ASSUME NEW c \in Client, FlushClient(c) PROVE LoopInv'
  BY <1>10 DEF FlushClient, ReportedAnew, LoopInv, Open
<1>11. ASSUME NEW c \in Client, FlushFails(c) PROVE LoopInv'
  <2>1. Removed(c) /\ UNCHANGED <<phase, handling>> /\ handling = NoToken
    BY <1>11 DEF FlushFails, LoopInv
  <2>2. QED
    BY <2>1, LoopRemoved
<1>12. CASE UNCHANGED connVars
  BY <1>12 DEF connVars, loopVars, LoopInv, Open
<1>13. QED
  BY <1>1, <1>2, <1>3, <1>4, <1>5, <1>6, <1>7, <1>8, <1>9, <1>10, <1>11, <1>12
     DEF ConnNext, Handler, Flush

LEMMA FlowsInit == ConnInit => \A c \in Client : ClientFlows(c)
<1> SUFFICES ASSUME ConnInit, NEW c \in Client PROVE ClientFlows(c)
  OBVIOUS
<1>1. NothingYet(c)
  BY DEF ConnInit, NothingYet
<1>2. Live(c) \in BOOLEAN
  BY DEF Live
<1>3. QED
  BY <1>1, <1>2, FlowEmpty DEF NothingYet, ClientFlows

\* A client whose output does not change.
LEMMA FlowsStay ==
  ASSUME NEW c \in Client, ClientFlows(c), conn'[c] = conn[c], c \in hungUp => c \in hungUp',
         written'[c] = written[c], got'[c] = got[c], outbox'[c] = outbox[c],
         buffer'[c] = buffer[c], fds'[c] = fds[c], failed'[c] = failed[c]
  PROVE  ClientFlows(c)'
<1>1. Live(c)' <=> Live(c)
  BY DEF Live, Open
<1>2. CASE c \in hungUp'
  BY <1>2 DEF ClientFlows, NothingYet
<1>3. CASE c \notin hungUp'
  <2>1. Live(c) \in BOOLEAN /\ Live(c)' \in BOOLEAN
    BY DEF Live
  <2>2. Live(c)' = Live(c)
    BY <1>1, <2>1
  <2>3. Flow(written[c], got[c], outbox[c], buffer[c], fds[c], Live(c))
    BY <1>3 DEF ClientFlows
  <2>4. Flow(written[c], got[c], outbox[c], buffer[c], fds[c], Live(c))'
    BY <2>2, <2>3
  <2>5. QED
    BY <2>4 DEF ClientFlows, NothingYet
<1>4. QED
  BY <1>2, <1>3

\* A step that changes the output of one client.
LEMMA FlowsOfOne ==
  ASSUME NEW c \in Client, \A d \in Client : ClientFlows(d), hungUp \subseteq hungUp',
         \A d \in Client \ {c} :
           /\ conn'[d] = conn[d] /\ written'[d] = written[d] /\ got'[d] = got[d]
           /\ outbox'[d] = outbox[d] /\ buffer'[d] = buffer[d] /\ fds'[d] = fds[d]
           /\ failed'[d] = failed[d],
         ClientFlows(c)'
  PROVE  \A d \in Client : ClientFlows(d)'
<1> SUFFICES ASSUME NEW d \in Client \ {c} PROVE ClientFlows(d)'
  OBVIOUS
<1>1. /\ conn'[d] = conn[d] /\ written'[d] = written[d] /\ got'[d] = got[d]
      /\ outbox'[d] = outbox[d] /\ buffer'[d] = buffer[d] /\ fds'[d] = fds[d]
      /\ failed'[d] = failed[d]
  OBVIOUS
<1>2. ClientFlows(d) /\ (d \in hungUp => d \in hungUp')
  OBVIOUS
<1>3. QED
  BY <1>1, <1>2, FlowsStay

LEMMA FlowsSame ==
  ASSUME \A d \in Client : ClientFlows(d), UNCHANGED <<conn, hungUp, outVars>>
  PROVE  \A d \in Client : ClientFlows(d)'
BY FlowsStay DEF outVars

\* A client that is told something is connected, or was.
LEMMA FlowsWrite ==
  ASSUME ConnInv, NEW c \in Client, NEW size \in 1..MaxMessage, NEW withFd \in BOOLEAN,
         NEW refused \in BOOLEAN, Write(c, size, withFd, refused)
  PROVE  \A d \in Client : ClientFlows(d)'
<1> DEFINE w == written[c]
           w2 == Recorded(c, size, withFd)
           b == Kept(c)
           more == Appended(c, size, refused)
           f == KeptFds(c)
           full == withFd /\ FdsFull(f)
           f2 == IF withFd /\ ~FdsFull(f) THEN Append(f, Len(w.words) + size) ELSE f
           live == ~failed[c]
           live2 == ~(Refuses(c, refused) \/ full)
<1>1. ConnTypeOK /\ ClientFlows(c) /\ \A d \in Client : ClientFlows(d)
  BY DEF ConnInv
<1>2. /\ phase = "events" /\ c \in Open
      /\ outbox' = [outbox EXCEPT ![c] = Gone(c)]
      /\ UNCHANGED <<conn, hungUp, got>>
  BY <1>1, WriteIs
<1>3. /\ outbox \in [Client -> Seq(Message)] /\ buffer \in [Client -> Seq(Nat)]
      /\ fds \in [Client -> Seq(Nat)] /\ written \in [Client -> Stream] /\ failed \in [Client -> BOOLEAN]
      /\ got[c] \in Stream /\ w \in Stream
  BY <1>1 DEF ConnTypeOK
<1>4. conn[c] = "open" /\ conn'[c] = "open" /\ c \in Open'
  BY <1>2 DEF Open
<1>5. ASSUME c \notin hungUp PROVE Flow(w, got[c], Gone(c), b, f, live)
  <2>1. Live(c) <=> live
    BY <1>2 DEF Live
  <2>2. Live(c) \in BOOLEAN /\ live \in BOOLEAN
    BY DEF Live
  <2>3. Flow(w, got[c], outbox[c], buffer[c], fds[c], live)
    BY <1>1, <1>5, <2>1, <2>2 DEF ClientFlows
  <2>4. CASE Flushes(c)
    <3>1. live = TRUE
      BY <2>4 DEF Flushes, FlushNeeded
    <3>2. Flow(w, got[c], Sent(c), Unsent(c), FdsUnsent(c), TRUE)
      BY <1>1, <2>3, <3>1, FlowFlushes
    <3>3. QED
      BY <2>4, <3>1, <3>2 DEF Gone, Kept, KeptFds
  <2>5. CASE ~Flushes(c)
    BY <2>3, <2>5 DEF Gone, Kept, KeptFds
  <2>6. QED
    BY <2>4, <2>5
<1>6. CASE Len(b) + size > BufferSize
  <2>1. /\ buffer' = [buffer EXCEPT ![c] = b] /\ fds' = [fds EXCEPT ![c] = f]
        /\ UNCHANGED <<failed, written>>
    BY <1>1, <1>6, WriteIs
  <2>2. outbox'[c] = Gone(c) /\ buffer'[c] = b /\ fds'[c] = f /\ failed'[c] = failed[c]
          /\ written'[c] = w /\ got'[c] = got[c]
    BY <1>2, <1>3, <2>1
  <2>3. Live(c)' = live
    BY <1>4, <2>2 DEF Live
  <2>4. c \notin hungUp' => Flow(written'[c], got'[c], outbox'[c], buffer'[c], fds'[c], Live(c)')
    BY <1>2, <1>5, <2>2, <2>3
  <2>5. ClientFlows(c)'
    BY <1>4, <2>4 DEF ClientFlows
  <2>6. QED
    BY <1>1, <1>2, <1>3, <2>1, <2>5, FlowsOfOne
<1>7. CASE ~(Len(b) + size > BufferSize)
  <2>1. /\ buffer' = [buffer EXCEPT ![c] = b \o more] /\ fds' = [fds EXCEPT ![c] = f2]
        /\ failed' = [failed EXCEPT ![c] = Refuses(c, refused) \/ full]
        /\ written' = [written EXCEPT ![c] = w2]
    BY <1>1, <1>7, WriteIs
  <2>2. outbox'[c] = Gone(c) /\ buffer'[c] = b \o more /\ fds'[c] = f2
          /\ failed'[c] = (Refuses(c, refused) \/ full) /\ written'[c] = w2 /\ got'[c] = got[c]
    BY <1>2, <1>3, <2>1
  <2>3. Live(c)' = live2
    BY <1>4, <2>2 DEF Live
  <2>4. /\ Gone(c) \in Seq(Message) /\ b \in Seq(Nat) /\ f \in Seq(Nat) /\ more \in Seq(Nat)
        /\ Len(more) = size /\ w2 \in Stream /\ Len(w2.words) = Len(w.words) + size
        /\ size \in Nat \ {0} /\ Len(w.words) \in Nat
    BY <1>1, WriteTypes
  <2>5. f2 \in Seq(Nat) /\ b \o more \in Seq(Nat)
    BY <2>4, SeqJoined
  <2>6. live2 \in BOOLEAN /\ live \in BOOLEAN /\ (live2 => live /\ ~Refuses(c, refused) /\ ~full)
    BY DEF Refuses
  <2>7. Writes(w, b, f, live, w2, b \o more, f2, live2)
    <3> DEFINE l == Len(w.words)
               old == w.fds
    <3>1. l \in Nat /\ Len(w2.words) = l + size /\ size \in Nat /\ size >= 1
      BY <2>4
    <3>2. old \in Seq(Nat) /\ w2.fds = IF withFd THEN Append(old, l + size) ELSE old
      BY <1>3, StreamParts DEF Recorded
    <3>3. live2 => more = [n \in 1..size |-> l + 1 + n - 1]
      BY <2>6 DEF Appended
    <3>4. f2 = IF withFd /\ ~FdsFull(f) THEN Append(f, l + size) ELSE f
      OBVIOUS
    <3>5. live2 => f2 = IF withFd THEN Append(f, l + size) ELSE f
      BY <2>6
    <3> HIDE DEF l, old, w, w2, b, f, f2, more, live, live2, full
    <3>6. /\ Len(w2.words) >= l
          /\ w2.fds \in Seq(Nat) /\ Len(w2.fds) \in {Len(old), Len(old) + 1}
          /\ \A n \in 1..Len(old) : w2.fds[n] = old[n]
          /\ Len(w2.fds) > Len(old) => w2.fds[Len(w2.fds)] > l
      <4>1. CASE withFd
        <5>1. /\ Len(w2.fds) = Len(old) + 1 /\ w2.fds[Len(old) + 1] = l + size
              /\ \A n \in 1..Len(old) : w2.fds[n] = old[n]
              /\ w2.fds \in Seq(Nat)
          BY <3>1, <3>2, <4>1
        <5>2. QED
          BY <3>1, <5>1
      <4>2. CASE ~withFd
        BY <3>1, <3>2, <4>2
      <4>3. QED
        BY <4>1, <4>2
    <3>7. ASSUME live2
          PROVE  /\ Len(f2) = Len(f) + (Len(w2.fds) - Len(old))
                 /\ \A n \in 1..Len(f) : f2[n] = f[n]
                 /\ Len(f2) > Len(f) => f2[Len(f2)] = w2.fds[Len(w2.fds)]
      <4>1. CASE withFd
        <5>1. /\ Len(w2.fds) = Len(old) + 1 /\ w2.fds[Len(old) + 1] = l + size
              /\ Len(old) \in Nat
          BY <3>1, <3>2, <4>1
        <5>2. /\ Len(f2) = Len(f) + 1 /\ f2[Len(f) + 1] = l + size /\ Len(f) \in Nat
              /\ \A n \in 1..Len(f) : f2[n] = f[n]
          <6>1. f \in Seq(Nat) /\ l + size \in Nat /\ f2 = Append(f, l + size)
            BY <2>4, <3>1, <3>5, <3>7, <4>1
          <6>2. QED
            BY <6>1
        <5>3. QED
          BY <5>1, <5>2
      <4>2. CASE ~withFd
        <5>1. f2 = f /\ w2.fds = old /\ Len(f) \in Nat /\ Len(old) \in Nat
          BY <2>4, <3>2, <3>5, <3>7, <4>2
        <5>2. QED
          BY <5>1
      <4>3. QED
        BY <4>1, <4>2
    <3>8. ASSUME live2
          PROVE  /\ Len(b \o more) = Len(b) + size
                 /\ \A n \in 1..Len(b) : (b \o more)[n] = b[n]
                 /\ \A n \in Len(b) + 1..Len(b \o more) : (b \o more)[n] = l + (n - Len(b))
      <4> DEFINE m == Len(b)
                 b2 == b \o more
      <4>1. m \in Nat /\ Len(b2) = m + size
        <5>1. b \in Seq(Nat) /\ more \in Seq(Nat) /\ Len(more) = size
          BY <2>4
        <5>2. Len(b2) = Len(b) + Len(more)
          BY <5>1, SeqJoined
        <5>3. QED
          BY <5>1, <5>2
      <4>2. \A n \in 1..m : b2[n] = b[n]
        BY <2>4
      <4>3. \A n \in 1..size : b2[m + n] = more[n]
        BY <2>4
      <4> HIDE DEF m, b2
      <4>4. ASSUME NEW n \in m + 1..Len(b2) PROVE b2[n] = l + (n - m)
        <5>1. n - m \in 1..size /\ m + (n - m) = n
          BY <3>1, <4>1
        <5>2. b2[n] = more[n - m]
          BY <4>3, <5>1
        <5>3. more[n - m] = l + 1 + (n - m) - 1
          BY <3>3, <3>8, <5>1
        <5>4. QED
          BY <3>1, <5>1, <5>2, <5>3
      <4>5. QED
        BY <4>1, <4>2, <4>4 DEF m, b2
    <3>9. Len(w2.words) - l = size
      BY <3>1
    <3>10. QED
      BY <2>4, <2>5, <2>6, <3>6, <3>7, <3>8, <3>9 DEF Writes, l, old
  <2>8. ASSUME c \notin hungUp PROVE Flow(w2, got[c], Gone(c), b \o more, f2, live2)
    <3> DEFINE b2 == b \o more
               o == Gone(c)
               g == got[c]
    <3>1. w \in Stream /\ g \in Stream /\ o \in Seq(Message)
      BY <1>3, <2>4
    <3>2. Writes(w, b, f, live, w2, b2, f2, live2)
      BY <2>7
    <3>3. Flow(w, g, o, b, f, live)
      BY <1>5, <2>8
    <3> HIDE DEF w, w2, b, f, f2, live, live2, full, b2, o, g
    <3>4. Flow(w2, g, o, b2, f2, live2)
      BY <3>1, <3>2, <3>3, FlowWrites
    <3>5. QED
      BY <3>4 DEF b2, o, g
  <2>9. c \notin hungUp' => Flow(written'[c], got'[c], outbox'[c], buffer'[c], fds'[c], Live(c)')
    BY <1>2, <2>2, <2>3, <2>8
  <2>10. ClientFlows(c)'
    BY <1>4, <2>9 DEF ClientFlows
  <2>11. QED
    BY <1>1, <1>2, <1>3, <2>1, <2>10, FlowsOfOne
<1>8. QED
  BY <1>6, <1>7

LEMMA FlowsClients ==
  ASSUME ConnInv, NEW c \in Client,
         \/ Connect(c) \/ (\E last \in BOOLEAN : Ask(c, last)) \/ HangUp(c) \/ Receive(c)
  PROVE  \A d \in Client : ClientFlows(d)'
<1>1. ConnTypeOK /\ ClientFlows(c) /\ \A d \in Client : ClientFlows(d)
  BY DEF ConnInv
<1>2. CASE Connect(c)
  <2>1. /\ conn[c] = "new" /\ conn' = [conn EXCEPT ![c] = "backlog"]
        /\ UNCHANGED <<hungUp, buffer, fds, failed, watched, outbox, written, got>>
    BY <1>2 DEF Connect, outVars
  <2>2. conn'[c] = "backlog" /\ \A d \in Client \ {c} : conn'[d] = conn[d]
    BY <1>1, <2>1 DEF ConnTypeOK
  <2>3. Live(c)' = Live(c)
    BY <2>1, <2>2 DEF Live, Open
  <2>4. c \notin hungUp' => Flow(written'[c], got'[c], outbox'[c], buffer'[c], fds'[c], Live(c)')
    BY <1>1, <2>1, <2>3 DEF ClientFlows
  <2>5. NothingYet(c)'
    BY <1>1, <2>1 DEF ClientFlows, NothingYet
  <2>6. ClientFlows(c)'
    BY <2>4, <2>5 DEF ClientFlows
  <2>7. QED
    BY <1>1, <2>1, <2>2, <2>6, FlowsOfOne
<1>3. CASE \E last \in BOOLEAN : Ask(c, last)
  BY <1>1, <1>3, FlowsSame DEF Ask
<1>4. CASE HangUp(c)
  <2>1. /\ hungUp' = hungUp \cup {c} /\ outbox' = [outbox EXCEPT ![c] = <<>>]
        /\ UNCHANGED <<conn, buffer, fds, failed, written, got>>
    BY <1>4 DEF HangUp
  <2>2. outbox'[c] = <<>> /\ \A d \in Client \ {c} : outbox'[d] = outbox[d]
    BY <1>1, <2>1 DEF ConnTypeOK
  <2>3. ClientFlows(c)'
    BY <1>1, <2>1, <2>2 DEF ClientFlows, NothingYet
  <2>4. QED
    BY <1>1, <2>1, <2>2, <2>3, FlowsOfOne
<1>5. CASE Receive(c)
  <2> DEFINE g2 == [words |-> Append(got[c].words, Head(outbox[c]).word),
                    fds |-> got[c].fds \o Head(outbox[c]).fds]
  <2>1. /\ outbox[c] # <<>> /\ outbox' = [outbox EXCEPT ![c] = Tail(outbox[c])]
        /\ got' = [got EXCEPT ![c] = g2]
        /\ UNCHANGED <<conn, hungUp, buffer, fds, failed, written>>
    BY <1>5 DEF Receive
  <2>2. /\ outbox'[c] = Tail(outbox[c]) /\ got'[c] = g2
        /\ \A d \in Client \ {c} : outbox'[d] = outbox[d] /\ got'[d] = got[d]
    BY <1>1, <2>1 DEF ConnTypeOK
  <2>3. Live(c)' = Live(c) /\ Live(c) \in BOOLEAN
    BY <2>1 DEF Live, Open
  <2>4. written[c] \in Stream /\ got[c] \in Stream /\ outbox[c] \in Seq(Message)
    BY <1>1 DEF ConnTypeOK
  <2>5. c \notin hungUp => Flow(written[c], g2, Tail(outbox[c]), buffer[c], fds[c], Live(c))
    BY <1>1, <2>1, <2>3, <2>4, FlowReceives DEF ClientFlows
  <2> HIDE DEF g2
  <2>6. c \notin hungUp' => Flow(written'[c], got'[c], outbox'[c], buffer'[c], fds'[c], Live(c)')
    BY <2>1, <2>2, <2>3, <2>5
  <2>7. conn[c] \notin {"new", "backlog"}
    BY <1>1, <2>1 DEF ClientFlows, NothingYet
  <2>8. ClientFlows(c)'
    BY <2>1, <2>6, <2>7 DEF ClientFlows
  <2>9. QED
    BY <1>1, <2>1, <2>2, <2>8, FlowsOfOne
<1>6. QED
  BY <1>2, <1>3, <1>4, <1>5

LEMMA FlowsAccept ==
  ASSUME ConnInv, AcceptClient PROVE \A d \in Client : ClientFlows(d)'
<1>1. ConnTypeOK /\ \A d \in Client : ClientFlows(d)
  BY DEF ConnInv
<1>2. UNCHANGED <<hungUp, buffer, fds, failed, watched, outbox, written, got>>
  BY DEF AcceptClient, outVars
<1>3. CASE UNCHANGED conn
  BY <1>1, <1>2, <1>3, FlowsSame DEF outVars
<1>4. CASE conn' # conn
  <2>1. PICK c \in Client : conn[c] = "backlog" /\ conn' = [conn EXCEPT ![c] = "open"]
    BY <1>4 DEF AcceptClient
  <2>2. conn'[c] = "open" /\ \A d \in Client \ {c} : conn'[d] = conn[d]
    BY <1>1, <2>1 DEF ConnTypeOK
  <2>3. NothingYet(c)
    BY <1>1, <2>1 DEF ClientFlows
  <2>4. Live(c)' \in BOOLEAN
    BY DEF Live
  <2>5. Flow(written'[c], got'[c], outbox'[c], buffer'[c], fds'[c], Live(c)')
    BY <1>2, <2>3, <2>4, FlowEmpty DEF NothingYet
  <2>6. ClientFlows(c)'
    BY <2>2, <2>5 DEF ClientFlows
  <2>7. QED
    BY <1>1, <1>2, <2>2, <2>6, FlowsOfOne
<1>5. QED
  BY <1>3, <1>4

\* A connected client whose writer has no error and that has not hung up.
LEMMA FlowsOpen ==
  ASSUME ConnInv, NEW c \in Open, c \notin hungUp, ~failed[c]
  PROVE  Flow(written[c], got[c], outbox[c], buffer[c], fds[c], TRUE)
<1>1. c \in Client /\ Live(c) = TRUE
  BY DEF Open, Live
<1>2. QED
  BY <1>1 DEF ConnInv, ClientFlows

LEMMA FlowsRemoved ==
  ASSUME ConnInv, NEW c \in Open, Removed(c),
         outbox' = outbox \/ (~CannotFlush(c) /\ outbox' = [outbox EXCEPT ![c] = Sent(c)])
  PROVE  \A d \in Client : ClientFlows(d)'
<1>1. ConnTypeOK /\ c \in Client /\ ClientFlows(c) /\ \A d \in Client : ClientFlows(d)
  BY DEF ConnInv, Open
<1>2. /\ conn' = [conn EXCEPT ![c] = "gone"]
      /\ buffer' = [buffer EXCEPT ![c] = <<>>] /\ fds' = [fds EXCEPT ![c] = <<>>]
      /\ failed' = [failed EXCEPT ![c] = FALSE]
      /\ UNCHANGED <<hungUp, written, got>>
  BY DEF Removed
<1>3. conn'[c] = "gone" /\ Live(c)' = FALSE
  BY <1>1, <1>2 DEF ConnTypeOK, Live, Open
<1>4. \A d \in Client \ {c} :
        /\ conn'[d] = conn[d] /\ buffer'[d] = buffer[d] /\ fds'[d] = fds[d]
        /\ failed'[d] = failed[d] /\ outbox'[d] = outbox[d]
  BY <1>1, <1>2 DEF ConnTypeOK
<1>5. ASSUME c \notin hungUp
      PROVE  \E b, f, live : Flow(written[c], got[c], outbox'[c], b, f, live)
  <2>1. CASE outbox' = outbox
    BY <1>1, <1>5, <2>1 DEF ClientFlows
  <2>2. CASE ~CannotFlush(c) /\ outbox' = [outbox EXCEPT ![c] = Sent(c)]
    <3>1. outbox'[c] = Sent(c)
      BY <1>1, <2>2 DEF ConnTypeOK
    <3>2. Flow(written[c], got[c], outbox[c], buffer[c], fds[c], TRUE)
      BY <1>5, <2>2, FlowsOpen DEF CannotFlush
    <3>3. Flow(written[c], got[c], Sent(c), Unsent(c), FdsUnsent(c), TRUE)
      BY <1>1, <3>2, FlowFlushes
    <3>4. QED
      BY <3>1, <3>3
  <2>3. QED
    BY <2>1, <2>2
<1>6. c \notin hungUp => Flow(written[c], got[c], outbox'[c], buffer'[c], fds'[c], FALSE)
  BY <1>5, FlowEnds
<1>7. ClientFlows(c)'
  BY <1>2, <1>3, <1>6 DEF ClientFlows
<1>8. QED
  BY <1>1, <1>2, <1>4, <1>7, FlowsOfOne

LEMMA FlowsFlushClient ==
  ASSUME ConnInv, NEW c \in Client, FlushClient(c) PROVE \A d \in Client : ClientFlows(d)'
<1>1. ConnTypeOK /\ ClientFlows(c) /\ \A d \in Client : ClientFlows(d)
  BY DEF ConnInv
<1>2. /\ c \in Open /\ ~failed[c]
      /\ outbox' = [outbox EXCEPT ![c] = Sent(c)] /\ buffer' = [buffer EXCEPT ![c] = Unsent(c)]
      /\ fds' = [fds EXCEPT ![c] = FdsUnsent(c)]
      /\ UNCHANGED <<conn, hungUp, failed, written, got>>
  BY DEF FlushClient, CannotFlush, ConnInv, LoopInv
<1>3. /\ outbox'[c] = Sent(c) /\ buffer'[c] = Unsent(c) /\ fds'[c] = FdsUnsent(c)
      /\ \A d \in Client \ {c} : outbox'[d] = outbox[d] /\ buffer'[d] = buffer[d] /\ fds'[d] = fds[d]
  BY <1>1, <1>2 DEF ConnTypeOK
<1>4. Live(c)' = TRUE /\ conn'[c] = "open"
  BY <1>2 DEF Live, Open
<1>5. c \notin hungUp => Flow(written[c], got[c], Sent(c), Unsent(c), FdsUnsent(c), TRUE)
  BY <1>1, <1>2, FlowsOpen, FlowFlushes
<1>6. c \notin hungUp' => Flow(written'[c], got'[c], outbox'[c], buffer'[c], fds'[c], Live(c)')
  BY <1>2, <1>3, <1>4, <1>5
<1>7. ClientFlows(c)'
  BY <1>4, <1>6 DEF ClientFlows
<1>8. QED
  BY <1>1, <1>2, <1>3, <1>7, FlowsOfOne

LEMMA ConnInvInit == ConnInit => ConnInv
BY ConnTypeInit, LoopInit, FlowsInit DEF ConnInv

LEMMA ConnInvNext == ConnInv /\ [ConnNext]_connVars => ConnInv'
<1> SUFFICES ASSUME ConnInv, [ConnNext]_connVars PROVE ConnInv'
  OBVIOUS
<1>1. ConnTypeOK' /\ LoopInv'
  BY ConnTypeNext, LoopNext DEF ConnInv
<1>2. \A d \in Client : ClientFlows(d)
  BY DEF ConnInv
<1>3. \A d \in Client : ClientFlows(d)'
  <2>1. CASE ClientStep
    BY <2>1, FlowsClients DEF ClientStep
  <2>2. CASE \E c \in Client, size \in 1..MaxMessage, withFd, refused \in BOOLEAN :
               Write(c, size, withFd, refused)
    BY <2>2, FlowsWrite
  <2>3. CASE OtherReady \/ Poll \/ StartOther \/ EndOther \/ StartFlush \/ FlushDone
    BY <1>2, <2>3, FlowsSame DEF OtherReady, Poll, StartOther, EndOther, StartFlush, FlushDone
  <2>4. CASE AcceptClient
    BY <2>4, FlowsAccept
  <2>5. ASSUME NEW c \in Client, Read(c) \/ ReadNothing(c) \/ HandleRequest(c) \/ EndRequests(c)
        PROVE  UNCHANGED <<conn, hungUp, outVars>>
    BY <2>5 DEF Read, ReadNothing, HandleRequest, EndRequests
  <2>6. ASSUME NEW c \in Client, ReadFails(c) \/ FailRequest(c)
        PROVE  \A d \in Client : ClientFlows(d)'
    <3>1. c \in events
      BY <2>6, TokenAssumption DEF ReadFails, FailRequest, Handle, Requested, ConnInv, LoopInv
    <3>2. c \in Open
      BY <3>1 DEF ConnInv, LoopInv
    <3>3. Removed(c) /\ outbox' = IF CannotFlush(c) THEN outbox ELSE [outbox EXCEPT ![c] = Sent(c)]
      BY <2>6 DEF ReadFails, FailRequest, Disconnect
    <3>4. QED
      BY <3>2, <3>3, FlowsRemoved
  <2>7. ASSUME NEW c \in Client, FlushClient(c) PROVE \A d \in Client : ClientFlows(d)'
    BY <2>7, FlowsFlushClient
  <2>8. ASSUME NEW c \in Client, FlushFails(c) PROVE \A d \in Client : ClientFlows(d)'
    <3>1. c \in Open /\ Removed(c) /\ outbox' = outbox
      BY <2>8 DEF FlushFails, ConnInv, LoopInv
    <3>2. QED
      BY <3>1, FlowsRemoved
  <2>9. CASE UNCHANGED connVars
    BY <1>2, <2>9, FlowsSame DEF connVars
  <2>10. QED
    BY <1>2, <2>1, <2>2, <2>3, <2>4, <2>5, <2>6, <2>7, <2>8, <2>9, FlowsSame
       DEF ConnNext, Handler, Flush
<1>4. QED
  BY <1>1, <1>3 DEF ConnInv

LEMMA ConnInvariant == ConnSpec => []ConnInv
BY ConnInvInit, ConnInvNext, PTL DEF ConnSpec

\* Joined, the parts of a flow are the numbers from one on.
LEMMA Numbered ==
  ASSUME NEW s \in Seq(Nat), NEW t \in Seq(Nat),
         \A n \in 1..Len(s) : s[n] = n, \A n \in 1..Len(t) : t[n] = Len(s) + n
  PROVE  s \o t = WordsUpTo(Len(s) + Len(t))
<1> DEFINE m == Len(s)
           l == Len(t)
           st == s \o t
<1>1. m \in Nat /\ l \in Nat
  OBVIOUS
<1>2. st \in Seq(Nat) /\ Len(st) = m + l /\ DOMAIN st = 1..m + l
  BY SeqJoined
<1>3. /\ \A n \in 1..m : st[n] = s[n]
      /\ \A n \in 1..l : st[m + n] = t[n]
  OBVIOUS
<1> HIDE DEF m, l, st
<1>4. ASSUME NEW n \in 1..m + l PROVE st[n] = n
  <2>1. CASE n \in 1..m
    BY <1>3, <2>1 DEF m
  <2>2. CASE n \notin 1..m
    <3>1. n - m \in 1..l /\ m + (n - m) = n
      BY <1>1, <2>2
    <3>2. st[n] = t[n - m] /\ t[n - m] = m + (n - m)
      BY <1>3, <3>1 DEF m, l
    <3>3. QED
      BY <3>1, <3>2
  <2>3. QED
    BY <2>1, <2>2
<1>5. st = [n \in 1..m + l |-> st[n]]
  BY <1>2
<1>6. st = WordsUpTo(m + l)
  BY <1>4, <1>5 DEF WordsUpTo
<1>7. QED
  BY <1>6 DEF m, l, st

LEMMA OnTheWayNumbers ==
  ASSUME ConnTypeOK, NEW c \in Client
  PROVE  /\ OnTheWay(c) \in Seq(Nat) /\ Len(OnTheWay(c)) = Len(outbox[c])
         /\ \A n \in 1..Len(outbox[c]) : OnTheWay(c)[n] = outbox[c][n].word
<1> DEFINE o == outbox[c]
<1>1. o \in Seq(Message) /\ Len(o) \in Nat /\ DOMAIN o = 1..Len(o)
  BY DEF ConnTypeOK
<1>2. \A n \in 1..Len(o) : o[n].word \in Nat
  BY <1>1, MessageParts
<1>3. OnTheWay(c) = [n \in 1..Len(o) |-> o[n].word]
  BY <1>1 DEF OnTheWay
<1> HIDE DEF o
<1>4. QED
  BY <1>1, <1>2, <1>3 DEF o

LEMMA FlowsInOrder == ConnInv => OutputInOrder
<1> SUFFICES ASSUME ConnInv, NEW c \in Client, c \notin hungUp
             PROVE  LET sent == got[c].words \o OnTheWay(c)
                    IN /\ sent = WordsUpTo(Len(sent))
                       /\ c \in Open /\ ~failed[c] =>
                            sent \o buffer[c] = WordsUpTo(Len(written[c].words))
  BY DEF OutputInOrder
<1> DEFINE g == got[c].words
           o == OnTheWay(c)
           b == buffer[c]
           sent == g \o o
<1>1. ConnTypeOK /\ Flow(written[c], got[c], outbox[c], b, fds[c], Live(c))
  BY DEF ConnInv, ClientFlows
<1>2. g \in Seq(Nat) /\ o \in Seq(Nat) /\ b \in Seq(Nat) /\ Len(o) = Len(outbox[c])
  BY <1>1, OnTheWayNumbers, StreamParts DEF ConnTypeOK
<1>3. /\ \A n \in 1..Len(g) : g[n] = n
      /\ \A n \in 1..Len(outbox[c]) : outbox[c][n].word = Len(g) + n
      /\ Live(c) => /\ Len(g) + Len(outbox[c]) + Len(b) = Len(written[c].words)
                    /\ \A n \in 1..Len(b) : b[n] = Len(g) + Len(outbox[c]) + n
  BY <1>1 DEF Flow, Flows
<1>4. \A n \in 1..Len(o) : o[n] = Len(g) + n
  BY <1>1, <1>2, <1>3, OnTheWayNumbers
<1> HIDE DEF g, o, b
<1>5. sent \in Seq(Nat) /\ Len(sent) = Len(g) + Len(o)
  BY <1>2, SeqJoined
<1>6. sent = WordsUpTo(Len(sent))
  BY <1>2, <1>3, <1>4, <1>5, Numbered
<1>7. ASSUME Live(c) PROVE sent \o b = WordsUpTo(Len(written[c].words))
  <2>1. \A n \in 1..Len(b) : b[n] = Len(sent) + n
    BY <1>2, <1>3, <1>5, <1>7
  <2>2. \A n \in 1..Len(sent) : sent[n] = n
    <3> DEFINE m == Len(sent)
    <3> HIDE DEF m, sent
    <3>1. QED
      BY <1>6 DEF WordsUpTo, m
  <2> HIDE DEF sent
  <2>3. sent \o b = WordsUpTo(Len(sent) + Len(b))
    BY <1>2, <1>5, <2>1, <2>2, Numbered
  <2>4. Len(sent) + Len(b) = Len(written[c].words)
    BY <1>2, <1>3, <1>5, <1>7
  <2>5. QED
    BY <2>3, <2>4
<1>8. QED
  BY <1>6, <1>7 DEF Live, g, o, b

\* Every word of an event reaches the client once and in order, whatever part of it a
\* flush could send, and nothing that was written after an error does (Writer::flush).
THEOREM OutputAlwaysInOrder == ConnSpec => []OutputInOrder
BY ConnInvariant, FlowsInOrder, PTL

LEMMA FlowsInTime == ConnInv => FdsInTime
<1> SUFFICES ASSUME ConnInv, NEW c \in Client \ hungUp
             PROVE  /\ IsPrefix(got[c].fds, written[c].fds)
                    /\ \A fd \in ToSet(written[c].fds) :
                         Contains(got[c].words, fd) => Contains(got[c].fds, fd)
  BY DEF FdsInTime
<1> DEFINE w == written[c]
           g == got[c]
<1>1. ConnTypeOK /\ Flow(w, g, outbox[c], buffer[c], fds[c], Live(c))
  BY DEF ConnInv, ClientFlows
<1>2. w \in Stream /\ g \in Stream /\ outbox[c] \in Seq(Message)
  BY <1>1 DEF ConnTypeOK
<1>3. /\ w.fds \in Seq(Nat) /\ g.fds \in Seq(Nat) /\ g.words \in Seq(Nat)
      /\ Len(w.fds) \in Nat /\ Len(g.fds) \in Nat /\ Len(g.words) \in Nat /\ Len(outbox[c]) \in Nat
  BY <1>2, StreamParts
<1>4. PICK cut \in [0..Len(outbox[c]) -> 0..Len(w.fds)] :
        Flows(w, g, outbox[c], buffer[c], fds[c], Live(c), cut)
  BY <1>1 DEF Flow
<1>5. /\ \A n \in 1..Len(g.words) : g.words[n] = n
      /\ cut[0] = Len(g.fds)
      /\ \A i \in 1..Len(g.fds) : g.fds[i] = w.fds[i]
      /\ \A n \in 0..Len(outbox[c]) : \A i \in 1..Len(w.fds) :
           i > cut[n] => w.fds[i] > Len(g.words) + n
  BY <1>4 DEF Flows
<1> HIDE DEF w, g
<1>6. 0 \in 0..Len(outbox[c])
  BY <1>3
<1>7. Len(g.fds) <= Len(w.fds) /\ \A i \in 1..Len(w.fds) : i > Len(g.fds) => w.fds[i] > Len(g.words)
  <2>1. cut[0] \in 0..Len(w.fds)
    BY <1>4, <1>6
  <2>2. \A i \in 1..Len(w.fds) : i > cut[0] => w.fds[i] > Len(g.words) + 0
    BY <1>5, <1>6
  <2>3. QED
    BY <1>3, <1>5, <2>1, <2>2
<1>8. IsPrefix(g.fds, w.fds)
  <2>1. SubSeq(w.fds, 1, Len(g.fds)) = g.fds
    <3> DEFINE s == g.fds
               t == w.fds
               sub == SubSeq(t, 1, Len(s))
    <3>1. s \in Seq(Nat) /\ t \in Seq(Nat) /\ Len(s) \in Nat /\ Len(s) <= Len(t) /\ Len(t) \in Nat
            /\ \A i \in 1..Len(s) : s[i] = t[i]
      BY <1>3, <1>5, <1>7
    <3> HIDE DEF s, t
    <3>2. sub \in Seq(Nat) /\ Len(sub) = Len(s) /\ \A i \in 1..Len(s) : sub[i] = t[i]
      BY <3>1
    <3> HIDE DEF sub
    <3>3. sub = [i \in 1..Len(s) |-> t[i]]
      BY <3>2
    <3>4. s = [i \in 1..Len(s) |-> t[i]]
      BY <3>1
    <3>5. sub = s
      BY <3>3, <3>4
    <3>6. QED
      BY <3>5 DEF sub, s, t
  <2>2. QED
    BY <1>3, <1>7, <2>1 DEF IsPrefix
<1>9. ASSUME NEW fd \in ToSet(w.fds), Contains(g.words, fd) PROVE Contains(g.fds, fd)
  <2>1. PICK i \in 1..Len(w.fds) : fd = w.fds[i]
    BY <1>3 DEF ToSet
  <2>2. PICK n \in 1..Len(g.words) : g.words[n] = fd
    BY <1>3, <1>9 DEF Contains
  <2>3. fd <= Len(g.words) /\ fd \in Nat
    BY <1>3, <1>5, <2>2
  <2>4. i \in 1..Len(g.fds)
    <3> DEFINE m == Len(g.fds)
               l == Len(g.words)
    <3>1. m \in Nat /\ l \in Nat /\ i \in Nat /\ i >= 1 /\ fd \in Nat /\ fd <= l
      BY <1>3, <2>3
    <3>2. i > m => fd > l
      BY <1>7, <2>1
    <3> HIDE DEF m, l
    <3>3. i \in 1..m
      BY <3>1, <3>2
    <3>4. QED
      BY <3>3 DEF m
  <2>5. g.fds[i] = fd
    BY <1>5, <2>1, <2>4
  <2>6. QED
    BY <1>3, <2>4, <2>5 DEF Contains
<1>10. QED
  BY <1>8, <1>9 DEF w, g

\* A descriptor is there when its event has arrived, and in the order of the events
\* (Writer::flush sends all of them with the first word, and before those words).
THEOREM FdsAlwaysInTime == ConnSpec => []FdsInTime
BY ConnInvariant, FlowsInTime, PTL
\* FlushClient registers a client anew: Readable is reported, and what is left of the
\* output waits for the socket, which is full then.
Covered(c) ==
  /\ Readable(c) => c \in ready
  /\ buffer[c] # <<>> => c \in ready \/ (c \in watched /\ outbox[c] # <<>>)

\* Every client that this iteration has flushed is covered, and a complete request is in
\* the buffer of none but the client whose handler runs.
WakeInv ==
  /\ phase = "poll" => toFlush = {}
  /\ phase \in {"poll", "flush"} => \A c \in Open \ toFlush : Covered(c)
  /\ phase # "crashed" => \A c \in Client : Contains(unread[c], TRUE) => handling = c

LEMMA WakeInit == ConnInit => WakeInv
<1> SUFFICES ASSUME ConnInit PROVE WakeInv
  OBVIOUS
<1>1. Open = {}
  BY DEF ConnInit, Open
<1>2. ASSUME NEW c \in Client PROVE ~Contains(unread[c], TRUE)
  BY DEF ConnInit, Contains
<1>3. QED
  BY <1>1, <1>2 DEF ConnInit, WakeInv

\* An edge of its own covers a client, and what happens to another does not uncover it.
LEMMA CoveredByEdge ==
  ASSUME NEW c, c \in ready'
  PROVE  Covered(c)'
BY DEF Covered

LEMMA CoveredStays ==
  ASSUME NEW c, Covered(c), c \in ready => c \in ready', c \in watched => c \in watched',
         buffer'[c] = buffer[c], outbox'[c] = outbox[c], inbox'[c] = inbox[c],
         c \in hungUp' => c \in hungUp
  PROVE  Covered(c)'
BY DEF Covered, Readable

\* What the clients do while the loop waits or flushes.
LEMMA WakeClients ==
  ASSUME ConnTypeOK, LoopInv, WakeInv, ClientStep
  PROVE  WakeInv'
<1>1. UNCHANGED <<phase, toFlush, handling, unread>>
  BY DEF ClientStep, Connect, Ask, HangUp, Receive, inVars
<1>2. Open' = Open
  BY DEF ClientStep, Connect, Ask, HangUp, Receive, Open, ConnTypeOK
<1>3. ASSUME NEW d \in Open, Covered(d) PROVE Covered(d)'
  <2>1. d \in Client
    BY DEF Open
  <2>2. ASSUME NEW c \in Client, Connect(c) PROVE Covered(d)'
    BY <1>3, <2>2, CoveredStays DEF Connect, inVars, outVars
  <2>3. ASSUME NEW c \in Client, NEW last \in BOOLEAN, Ask(c, last) PROVE Covered(d)'
    <3>1. CASE d = c
      BY <2>3, <3>1, CoveredByEdge DEF Ask, Edge
    <3>2. CASE d # c
      <4>1. inbox'[d] = inbox[d]
        BY <2>1, <2>3, <3>2 DEF Ask, ConnTypeOK
      <4>2. QED
        BY <1>3, <2>3, <4>1, CoveredStays DEF Ask, outVars
    <3>3. QED
      BY <3>1, <3>2
  <2>4. ASSUME NEW c \in Client, HangUp(c) PROVE Covered(d)'
    <3>1. CASE d = c
      BY <2>4, <3>1, CoveredByEdge DEF HangUp, Edge
    <3>2. CASE d # c
      <4>1. outbox'[d] = outbox[d]
        BY <2>1, <2>4, <3>2 DEF HangUp, ConnTypeOK
      <4>2. QED
        BY <1>3, <2>4, <3>2, <4>1, CoveredStays DEF HangUp, inVars
    <3>3. QED
      BY <3>1, <3>2
  <2>5. ASSUME NEW c \in Client, Receive(c) PROVE Covered(d)'
    <3>1. CASE d = c /\ c \in watched
      BY <2>5, <3>1, CoveredByEdge DEF Receive, Edge
    <3>2. CASE d = c /\ c \notin watched
      <4>1. d \in ready => d \in ready'
        BY <2>5 DEF Receive
      <4>2. QED
        BY <1>3, <2>5, <3>2, <4>1 DEF Receive, Covered, Readable, inVars
    <3>3. CASE d # c
      <4>1. outbox'[d] = outbox[d]
        BY <2>1, <2>5, <3>3 DEF Receive, ConnTypeOK
      <4>2. QED
        BY <1>3, <2>5, <4>1, CoveredStays DEF Receive, inVars
    <3>4. QED
      BY <3>1, <3>2, <3>3
  <2>6. QED
    BY <2>2, <2>3, <2>4, <2>5 DEF ClientStep
<1>4. QED
  BY <1>1, <1>2, <1>3 DEF WakeInv

\* A flush that leaves something leaves the socket full: there is something to wait for.
LEMMA LeftBehind ==
  ASSUME ConnTypeOK, NEW c \in Client, Unsent(c) # <<>>
  PROVE  Sent(c) # <<>>
<1> DEFINE b == Len(buffer[c])
           o == Len(outbox[c])
           r == Room(c)
<1>1. b \in Nat /\ o \in Nat /\ r \in Nat /\ Len(Sent(c)) = o + r /\ Len(Unsent(c)) = b - r
  BY FlushTypes DEF ConnTypeOK
<1>2. r = IF OutSize - o < b THEN OutSize - o ELSE b
  BY DEF Room, Least
<1>3. Unsent(c) \in Seq(Nat) /\ Sent(c) \in Seq(Message)
  BY FlushTypes
<1>4. b - r # 0
  <2>1. Len(Unsent(c)) # 0
    BY <1>3
  <2>2. QED
    BY <1>1, <2>1
<1> HIDE DEF b, o, r
<1>5. o + r # 0
  BY <1>1, <1>2, <1>4, SizeAssumption
<1>6. QED
  BY <1>1, <1>3, <1>5

LEMMA WakeFlushClient ==
  ASSUME ConnTypeOK, WakeInv, NEW c \in Client, FlushClient(c)
  PROVE  WakeInv'
<1>1. /\ phase = "flush" /\ c \in toFlush /\ toFlush' = toFlush \ {c}
      /\ UNCHANGED <<phase, conn, hungUp, handling, unread, inbox>>
      /\ ready' = ReportedAnew(c)
  BY DEF FlushClient, inVars
<1>2. Open' = Open
  BY <1>1 DEF Open
<1>3. Covered(c)'
  <2>1. Readable(c)' => c \in ready'
    BY <1>1 DEF Readable, ReportedAnew
  <2>2. buffer'[c] = Unsent(c) /\ outbox'[c] = Sent(c)
    BY DEF FlushClient, ConnTypeOK
  <2>3. Unsent(c) # <<>> => c \in watched'
    BY DEF FlushClient, WantsWrite
  <2>4. QED
    BY <2>1, <2>2, <2>3, LeftBehind DEF Covered
<1>4. ASSUME NEW d \in Open \ toFlush PROVE Covered(d)'
  <2>1. d \in Client /\ d # c /\ Covered(d)
    BY <1>1 DEF WakeInv, Open
  <2>2. buffer'[d] = buffer[d] /\ outbox'[d] = outbox[d]
    BY <2>1 DEF FlushClient, ConnTypeOK
  <2>3. (d \in ready => d \in ready') /\ (d \in watched => d \in watched')
    BY <1>1, <2>1 DEF FlushClient, ReportedAnew
  <2>4. QED
    BY <1>1, <2>1, <2>2, <2>3, CoveredStays
<1>5. QED
  BY <1>1, <1>2, <1>3, <1>4 DEF WakeInv

\* A client that is removed leaves nothing to read, and the others as they were.
LEMMA WakeRemoved ==
  ASSUME ConnTypeOK, LoopInv, WakeInv, NEW c \in Open, Removed(c), UNCHANGED phase,
         phase = "flush" => UNCHANGED <<handling, outbox>>,
         phase = "events" => handling \in {c, NoToken} /\ handling' = NoToken,
         phase \in {"events", "flush"}
  PROVE  WakeInv'
<1>1. c \in Client
  BY DEF Open
<1>2. Open' = Open \ {c} /\ toFlush' = toFlush \ {c}
  BY DEF Removed, Open, ConnTypeOK
<1>3. ASSUME phase = "flush", NEW d \in Open' \ toFlush' PROVE Covered(d)'
  <2>1. d \in Client /\ d # c /\ Covered(d)
    BY <1>2, <1>3 DEF WakeInv, Open
  <2>2. buffer'[d] = buffer[d] /\ inbox'[d] = inbox[d]
    BY <2>1 DEF Removed, ConnTypeOK
  <2>3. QED
    BY <1>3, <2>1, <2>2, CoveredStays DEF Removed
<1>4. ASSUME NEW d \in Client PROVE ~Contains(unread'[d], TRUE)
  <2>1. CASE d = c
    <3>1. unread'[d] = <<>>
      BY <2>1 DEF Removed, ConnTypeOK
    <3>2. QED
      BY <3>1 DEF Contains
  <2>2. CASE d # c
    <3>1. unread'[d] = unread[d]
      BY <2>2 DEF Removed, ConnTypeOK
    <3>2. handling # d
      BY <2>2, TokenAssumption DEF LoopInv
    <3>3. QED
      BY <3>1, <3>2 DEF WakeInv
  <2>3. QED
    BY <2>1, <2>2
<1>5. QED
  BY <1>3, <1>4 DEF WakeInv

LEMMA WakeNext ==
  ConnTypeOK /\ LoopInv /\ WakeInv /\ [ConnNext]_connVars => WakeInv'
<1> SUFFICES ASSUME ConnTypeOK, LoopInv, WakeInv, [ConnNext]_connVars PROVE WakeInv'
  OBVIOUS
<1>1. CASE ClientStep
  BY <1>1, WakeClients
<1>2. CASE OtherReady \/ UNCHANGED connVars
  <2>1. UNCHANGED <<phase, toFlush, handling, inVars, outVars, conn, hungUp>> /\ ready \subseteq ready'
    BY <1>2 DEF OtherReady, connVars, loopVars
  <2>2. QED
    BY <2>1 DEF WakeInv, Covered, Readable, Open, inVars, outVars
<1>3. CASE \E c \in Client, size \in 1..MaxMessage, withFd, refused \in BOOLEAN :
             Write(c, size, withFd, refused)
  <2>1. phase = "events" /\ phase' \in {"events", "crashed"} /\ UNCHANGED handling
    BY <1>3, WriteIs
  <2>2. UNCHANGED unread
    BY <1>3 DEF Write, inVars
  <2>3. QED
    BY <2>1, <2>2 DEF WakeInv
<1>4. CASE Poll \/ AcceptClient
  BY <1>4 DEF Poll, AcceptClient, Handle, inVars, WakeInv
<1>5. CASE StartOther \/ EndOther
  BY <1>5, TokenAssumption DEF StartOther, EndOther, Handle, inVars, WakeInv
<1>6. ASSUME NEW c \in Client, Read(c) PROVE WakeInv'
  <2>1. phase = "events" /\ phase' = phase /\ handling = NoToken /\ handling' = c
    BY <1>6 DEF Read, Handle
  <2>2. ASSUME NEW d \in Client, d # c PROVE ~Contains(unread'[d], TRUE)
    <3>1. unread'[d] = unread[d]
      BY <1>6, <2>2 DEF Read, ConnTypeOK
    <3>2. QED
      BY <2>1, <3>1, TokenAssumption DEF WakeInv
  <2>3. QED
    BY <2>1, <2>2 DEF WakeInv
<1>7. ASSUME NEW c \in Client, ReadNothing(c) \/ EndRequests(c) PROVE WakeInv'
  BY <1>7, TokenAssumption DEF ReadNothing, EndRequests, Handle, inVars, WakeInv
<1>8. ASSUME NEW c \in Client, HandleRequest(c) PROVE WakeInv'
  <2>1. phase = "events" /\ phase' = phase /\ handling = c /\ handling' = c
    BY <1>8 DEF HandleRequest, Requested, loopVars
  <2>2. ASSUME NEW d \in Client, d # c PROVE unread'[d] = unread[d]
    BY <1>8, <2>2 DEF HandleRequest, ConnTypeOK
  <2>3. QED
    BY <2>1, <2>2 DEF WakeInv
<1>9. ASSUME NEW c \in Client, ReadFails(c) \/ FailRequest(c) PROVE WakeInv'
  <2>1. c \in events /\ phase = "events" /\ handling \in {c, NoToken}
    BY <1>9, TokenAssumption DEF ReadFails, FailRequest, Handle, Requested, LoopInv
  <2>2. c \in Open
    BY <2>1 DEF LoopInv
  <2>3. Removed(c) /\ UNCHANGED phase /\ handling' = NoToken
    BY <1>9 DEF ReadFails, FailRequest, Disconnect
  <2>4. QED
    BY <2>1, <2>2, <2>3, WakeRemoved
<1>10. CASE StartFlush
  BY <1>10 DEF StartFlush, inVars, WakeInv, Open
<1>11. ASSUME NEW c \in Client, FlushClient(c) PROVE WakeInv'
  BY <1>11, WakeFlushClient
<1>12. ASSUME NEW c \in Client, FlushFails(c) PROVE WakeInv'
  <2>1. c \in Open /\ phase = "flush" /\ Removed(c) /\ UNCHANGED <<phase, handling, outbox>>
    BY <1>12 DEF FlushFails, LoopInv
  <2>2. QED
    BY <2>1, WakeRemoved
<1>13. CASE FlushDone
  <2>1. /\ phase = "flush" /\ toFlush = {} /\ toFlush' = {} /\ phase' = "poll"
        /\ UNCHANGED <<handling, ready, inVars, outVars, conn, hungUp>>
    BY <1>13 DEF FlushDone
  <2>2. QED
    BY <2>1 DEF WakeInv, Covered, Readable, Open, inVars, outVars
<1>14. QED
  BY <1>1, <1>2, <1>3, <1>4, <1>5, <1>6, <1>7, <1>8, <1>9, <1>10, <1>11, <1>12, <1>13
     DEF ConnNext, Handler, Flush

LEMMA WakeNothingForgotten == ConnTypeOK /\ LoopInv /\ WakeInv => NothingForgotten
<1> SUFFICES ASSUME LoopInv, WakeInv, phase = "poll", NEW c \in Open
             PROVE  ~Contains(unread[c], TRUE) /\ Covered(c)
  BY DEF NothingForgotten, Covered
<1>1. c \in Client /\ handling = NoToken
  BY DEF Open, LoopInv
<1>2. QED
  BY <1>1, TokenAssumption DEF WakeInv

\* Edge-triggered readiness loses nothing: while the loop waits, whatever is left of a
\* client's requests, of its stream or of its output has an edge to come or reported
\* (flush_clients registers each client anew in every iteration).
THEOREM NothingEverForgotten == ConnSpec => []NothingForgotten
<1>1. ConnInit => ConnTypeOK /\ LoopInv /\ WakeInv
  BY ConnTypeInit, LoopInit, WakeInit
<1>2. ConnTypeOK /\ LoopInv /\ WakeInv /\ [ConnNext]_connVars
      => (ConnTypeOK /\ LoopInv /\ WakeInv)'
  BY ConnTypeNext, LoopNext, WakeNext
<1>3. QED
  BY <1>1, <1>2, WakeNothingForgotten, PTL DEF ConnSpec
=============================================================================
