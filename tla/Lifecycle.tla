----------------------------- MODULE Lifecycle -----------------------------
(***************************************************************************)
(* The compositor's threads and its config process, from start to exit:    *)
(* the main thread's channel and its shutdown (src/main.rs, src/app.rs),   *)
(* the D-Bus thread and the object it serves (crates/lumalla_dbus), the    *)
(* channels between them (crates/lumalla_shared/src/comms.rs) and the      *)
(* process that runs the user's config over D-Bus (crates/lumalla_config). *)
(*                                                                         *)
(* Messages and signals are reduced to their kinds, modifiers and keys to  *)
(* a key.  What the messages of the seat do is in SeatSession, what a key  *)
(* does in Keyboards; VT switches and output settings change nothing here. *)
(***************************************************************************)
EXTENDS Naturals, SequencesExt

CONSTANTS
  Key,           \* keys with their modifiers, as far as the config maps them
  KnownKey,      \* the keys that key_name_to_keycode knows
  Defaults,      \* the default keymaps
  Script,        \* the keys that the user's config maps
  MaxInputs      \* bound: requests, bound keys and other events from outside

ASSUME KnownKeyAssumption == KnownKey \subseteq Key
ASSUME ScriptAssumption == Defaults \in Seq(Key) /\ Script \in Seq(Key)
ASSUME BoundsAssumption == MaxInputs \in Nat

VARIABLES
  main,        \* where the main thread is
  mainQ,       \* its channel
  woken,       \* the channel's waker has an edge to report
  waking,      \* the other threads that have sent a message and not yet woken
  keymaps,     \* InputState.keymaps
  shuttingDown, \* AppData.shutting_down
  timeout,     \* AppData.shutdown_timeout: none, in the future, or passed
  dbus,        \* where the D-Bus thread is
  dbusQ,       \* its channel
  served,      \* ServiceState.keymaps
  config,      \* where the config process is
  step,        \* the next keymap or signal of its current phase
  callbacks,   \* CallbackState.callback_counter
  subscribed,  \* the signals it is subscribed to
  streams,     \* the signals that wait in each of its streams
  reloads,     \* changed files that it has not reloaded
  killed,      \* it was sent SIGKILL
  inputs       \* inputs so far

waker == <<woken, waking>>
mainVars == <<main, mainQ, waker, keymaps, shuttingDown, timeout>>
dbusVars == <<dbus, dbusQ, served>>
configVars == <<config, step, callbacks, subscribed, streams, reloads, killed>>
vars == <<mainVars, dbusVars, configVars, inputs>>

\* The signals, in the order in which ExternalConfig subscribes to and waits for them.
Signals == <<"Ready", "OutputChanged", "DrmDevicesChanged", "BindingActivated">>
Signal == ToSet(Signals)

KeyBinding == [key : Key, id : Nat]
MainMessage ==
  [kind : {"Shutdown", "MainSeatEnabled", "ClearKeymaps"}]
    \cup [kind : {"AddKeymap"}, binding : KeyBinding]
DbusMessage == Signal \cup {"Shutdown", "SetDrmDevices"}

\* The threads that send to the main thread: of os_signal.rs, of the object server, and
\* the D-Bus thread.
Sender == {"signals", "service", "dbus"}

MainPhase == {"start", "check", "poll", "drain", "ended", "failed"}
DbusPhase == {"none", "serving", "stopping", "leaving", "dropped", "posted", "finished"}
ConfigPhase == {"none", "defaults", "load", "subscribe", "reload", "wait", "dead"}

TypeOK ==
  /\ main \in MainPhase /\ dbus \in DbusPhase /\ config \in ConfigPhase
  /\ mainQ \in Seq(MainMessage) /\ dbusQ \in Seq(DbusMessage)
  /\ waking \subseteq Sender
  /\ woken \in BOOLEAN /\ shuttingDown \in BOOLEAN /\ killed \in BOOLEAN
  /\ timeout \in {"none", "armed", "passed"}
  /\ keymaps \in Seq(KeyBinding) /\ served \in Seq(KeyBinding)
  /\ step \in Nat /\ callbacks \in Nat /\ reloads \in Nat /\ inputs \in Nat
  /\ subscribed \subseteq Signal
  /\ streams \in [Signal -> Nat]

\* The config process is spawned first, unless there is to be none.
Init ==
  /\ main = "start" /\ mainQ = <<>> /\ woken = FALSE /\ waking = {}
  /\ keymaps = <<>> /\ shuttingDown = FALSE /\ timeout = "none"
  /\ dbus = "none" /\ dbusQ = <<>> /\ served = <<>>
  /\ config \in {"none", "defaults"}
  /\ step = 1 /\ callbacks = 1
  /\ subscribed = {} /\ streams = [s \in Signal |-> 0]
  /\ reloads = 0 /\ killed = FALSE
  /\ inputs = 0

Running == main \notin {"ended", "failed"}

----------------------------------------------------------------------------
(* The channels.                                                           *)

\* MessageSender::send of another thread: the message first, then its waker.
MainSend(sender, msg) ==
  /\ sender \notin waking
  /\ mainQ' = Append(mainQ, msg)
  /\ waking' = waking \cup {sender}
  /\ UNCHANGED woken

Wake(sender) ==
  /\ Running /\ sender \in waking
  /\ waking' = waking \ {sender}
  /\ woken' = TRUE
  /\ UNCHANGED <<main, mainQ, keymaps, shuttingDown, timeout, dbusVars, configVars, inputs>>

\* The receiver of the D-Bus channel is there.
Receiving == dbus \in {"serving", "stopping", "leaving"}

\* Comms.dbus, in a handler that leaves rest in the main channel: with the receiver
\* gone, each message asks for a shutdown instead.
DbusSend(msgs, rest) ==
  IF Receiving
  THEN dbusQ' = dbusQ \o msgs /\ mainQ' = rest /\ UNCHANGED waker
  ELSE /\ mainQ' = rest \o [n \in DOMAIN msgs |-> [kind |-> "Shutdown"]]
       /\ woken' = (woken \/ msgs # <<>>)
       /\ UNCHANGED <<dbusQ, waking>>

----------------------------------------------------------------------------
(* Inputs from outside.                                                    *)

Input == inputs < MaxInputs /\ inputs' = inputs + 1

\* SIGINT, or the quit of a D-Bus client.
Quit(sender) ==
  /\ Input /\ Running
  /\ sender = "service" => Receiving
  /\ MainSend(sender, [kind |-> "Shutdown"])
  /\ UNCHANGED <<main, keymaps, shuttingDown, timeout, dbusVars, configVars>>

\* F1, or libseat's enable callback: the main thread sends to itself.
Post(kind) ==
  /\ Input /\ main \in {"start", "poll"}
  /\ mainQ' = Append(mainQ, [kind |-> kind]) /\ woken' = TRUE
  /\ UNCHANGED <<waking, main, keymaps, shuttingDown, timeout, dbusVars, configVars>>

\* A D-Bus client's request.
ClearServedKeymaps ==
  /\ Input /\ Running /\ Receiving
  /\ served' = <<>>
  /\ MainSend("service", [kind |-> "ClearKeymaps"])
  /\ UNCHANGED <<main, keymaps, shuttingDown, timeout, dbus, dbusQ, configVars>>

\* The watcher, started once the files are loaded, reports a change of one.
FileChanged ==
  /\ Input
  /\ config \in {"subscribe", "reload", "wait"} \/ (config = "load" /\ subscribed # {})
  /\ reloads' = reloads + 1
  /\ UNCHANGED <<mainVars, dbusVars, config, step, callbacks, subscribed, streams, killed>>

----------------------------------------------------------------------------
(* The main thread.                                                        *)

\* run_app: the D-Bus service is registered and its thread started, then the rest.
StartService ==
  /\ main = "start" /\ dbus = "none"
  /\ dbus' = "serving"
  /\ UNCHANGED <<mainVars, dbusQ, served, configVars, inputs>>

StartLoop ==
  /\ main = "start" /\ dbus # "none"
  /\ main' = "check"
  /\ DbusSend(<<"SetDrmDevices">>, mainQ)
  /\ UNCHANGED <<keymaps, shuttingDown, timeout, dbus, served, configVars, inputs>>

\* An error of run_app ends the process, and the config process stays.
StartFails ==
  /\ main = "start"
  /\ main' = "failed"
  /\ UNCHANGED <<mainQ, waker, keymaps, shuttingDown, timeout, dbusVars, configVars, inputs>>

\* Mutation: the config process is not waited for.
DbusStopped == dbus = "finished"

\* What check_for_shutdown waits for.
Stopped == dbus = "finished" /\ config \in {"none", "dead"}

\* check_for_shutdown, at the start of each iteration.
CheckForShutdown ==
  /\ main = "check"
  /\ main' = IF shuttingDown /\ (timeout = "passed" \/ Stopped) THEN "ended" ELSE "poll"
  /\ UNCHANGED <<mainQ, waker, keymaps, shuttingDown, timeout, dbusVars, configVars, inputs>>

PollChannel ==
  /\ main = "poll" /\ woken
  /\ woken' = FALSE
  /\ main' = "drain"
  /\ UNCHANGED <<mainQ, waking, keymaps, shuttingDown, timeout, dbusVars, configVars, inputs>>

PollTimesOut ==
  /\ main = "poll" /\ timeout = "passed"
  /\ main' = "check"
  /\ UNCHANGED <<mainQ, waker, keymaps, shuttingDown, timeout, dbusVars, configVars, inputs>>

\* An event of the seat, udev or a client.  A poll reports the channel as well if its
\* waker has an edge: that is PollChannel, an iteration later.
PollOther ==
  /\ main = "poll" /\ ~woken
  /\ main' = "check"
  /\ UNCHANGED <<mainQ, waker, keymaps, shuttingDown, timeout, dbusVars, configVars, inputs>>

\* A key with a binding.
PollKey(key) ==
  /\ main = "poll" /\ ~woken
  /\ Input
  /\ \E n \in DOMAIN keymaps : keymaps[n].key = key
  /\ main' = "check"
  /\ DbusSend(<<"BindingActivated">>, mainQ)
  /\ UNCHANGED <<keymaps, shuttingDown, timeout, dbus, served, configVars>>

Drain(kind) ==
  /\ main = "drain" /\ mainQ # <<>> /\ Head(mainQ).kind = kind
  /\ UNCHANGED <<main, dbus, served, config, step, callbacks, subscribed, streams, reloads, inputs>>

\* The devices are announced and then the compositor, unless the message is stale or
\* they cannot be activated.
HandleSeatEnabled ==
  /\ Drain("MainSeatEnabled")
  /\ \E msgs \in {<<>>, <<"DrmDevicesChanged", "Ready">>} : DbusSend(msgs, Tail(mainQ))
  /\ UNCHANGED <<keymaps, shuttingDown, timeout, killed>>

\* Mutation: a key has one binding, the first.
HandleAddKeymapOnce ==
  /\ Drain("AddKeymap")
  /\ mainQ' = Tail(mainQ)
  /\ LET binding == Head(mainQ).binding
     IN keymaps' = IF \E n \in DOMAIN keymaps : keymaps[n].key = binding.key
                   THEN keymaps ELSE Append(keymaps, binding)
  /\ UNCHANGED <<waker, dbusQ, shuttingDown, timeout, killed>>

HandleAddKeymap ==
  /\ Drain("AddKeymap")
  /\ mainQ' = Tail(mainQ)
  /\ keymaps' = Append(keymaps, Head(mainQ).binding)
  /\ UNCHANGED <<waker, dbusQ, shuttingDown, timeout, killed>>

HandleClearKeymaps ==
  /\ Drain("ClearKeymaps")
  /\ mainQ' = Tail(mainQ)
  /\ keymaps' = <<>>
  /\ UNCHANGED <<waker, dbusQ, shuttingDown, timeout, killed>>

\* Mutation: no limit to the wait.
InitShutdownWithoutTimeout ==
  /\ shuttingDown' = TRUE
  /\ DbusSend(<<"Shutdown">>, Tail(mainQ))
  /\ killed' = (config # "none")
  /\ UNCHANGED timeout

InitShutdown ==
  /\ shuttingDown' = TRUE
  /\ DbusSend(<<"Shutdown">>, Tail(mainQ))
  /\ killed' = (config # "none")
  /\ timeout' = "armed"

HandleShutdown ==
  /\ Drain("Shutdown")
  /\ IF shuttingDown
     THEN mainQ' = Tail(mainQ) /\ UNCHANGED <<waker, dbusQ, shuttingDown, timeout, killed>>
     ELSE InitShutdown
  /\ UNCHANGED keymaps

\* Mutation: the receiver is asked once for each edge.
DrainedOnce ==
  /\ main = "drain"
  /\ main' = "check"
  /\ UNCHANGED <<mainQ, waker, keymaps, shuttingDown, timeout, dbusVars, configVars, inputs>>

Drained ==
  /\ main = "drain" /\ mainQ = <<>>
  /\ main' = "check"
  /\ UNCHANGED <<mainQ, waker, keymaps, shuttingDown, timeout, dbusVars, configVars, inputs>>

TimeoutPasses ==
  /\ Running /\ timeout = "armed"
  /\ timeout' = "passed"
  /\ UNCHANGED <<main, mainQ, waker, keymaps, shuttingDown, dbusVars, configVars, inputs>>

----------------------------------------------------------------------------
(* The D-Bus thread, which ends with the process.                          *)

\* A signal reaches the config process if it is subscribed.
DbusHandle ==
  /\ Running /\ dbus \in {"serving", "stopping"} /\ dbusQ # <<>>
  /\ dbusQ' = Tail(dbusQ)
  /\ dbus' = IF Head(dbusQ) = "Shutdown" THEN "stopping" ELSE dbus
  /\ streams' = IF Head(dbusQ) \in subscribed /\ config # "dead"
                THEN [streams EXCEPT ![Head(dbusQ)] = @ + 1] ELSE streams
  /\ UNCHANGED <<mainVars, served, config, step, callbacks, subscribed, reloads, killed, inputs>>

\* The messages behind the shutdown are handled as well.
DbusLeaves ==
  /\ Running /\ dbus = "stopping" /\ dbusQ = <<>>
  /\ dbus' = "leaving"
  /\ UNCHANGED <<mainVars, dbusQ, served, configVars, inputs>>

\* DbusState goes, with the channel and the connection, and before the last message;
\* after a panic too.
DbusDrops ==
  /\ Running /\ Receiving
  /\ dbus' = "dropped" /\ dbusQ' = <<>>
  /\ UNCHANGED <<mainVars, served, configVars, inputs>>

DbusPosts ==
  /\ Running /\ dbus = "dropped"
  /\ dbus' = "posted"
  /\ MainSend("dbus", [kind |-> "Shutdown"])
  /\ UNCHANGED <<main, keymaps, shuttingDown, timeout, dbusQ, served, configVars, inputs>>

\* The thread is finished only some time after its last message.
DbusFinishes ==
  /\ Running /\ dbus = "posted" /\ "dbus" \notin waking
  /\ dbus' = "finished"
  /\ UNCHANGED <<mainVars, dbusQ, served, configVars, inputs>>

----------------------------------------------------------------------------
(* The config process.                                                     *)

\* The object server handles one call at a time.
MapKey(key) ==
  /\ "service" \notin waking
  /\ callbacks' = callbacks + 1
  /\ LET binding == [key |-> key, id |-> callbacks]
     IN /\ served' = Append(served, binding)
        /\ IF key \in KnownKey THEN MainSend("service", [kind |-> "AddKeymap", binding |-> binding])
           ELSE UNCHANGED <<mainQ, waker>>
  /\ UNCHANGED <<main, keymaps, shuttingDown, timeout, dbus, dbusQ>>

\* The keys of a phase are mapped one by one, until one fails as there is no service.
MapKeys(phase, keys, next) ==
  /\ config = phase
  /\ \/ /\ step <= Len(keys) /\ Running /\ Receiving
        /\ MapKey(keys[step])
        /\ step' = step + 1
        /\ UNCHANGED config
     \/ /\ step <= Len(keys) /\ ~(Running /\ Receiving)
        /\ callbacks' = callbacks + 1
        /\ config' = next /\ step' = 1
        /\ UNCHANGED <<mainVars, dbusVars>>
     \/ /\ step > Len(keys)
        /\ config' = next /\ step' = 1
        /\ UNCHANGED <<callbacks, mainVars, dbusVars>>
  /\ UNCHANGED <<subscribed, streams, reloads, killed, inputs>>

SetDefaultKeymaps == MapKeys("defaults", Defaults, "load")

\* The config files, at the start and whenever one is reloaded.
LoadConfig == MapKeys("load", Script, IF subscribed = {} THEN "subscribe" ELSE "reload")

Subscribe ==
  /\ config = "subscribe"
  /\ subscribed' = subscribed \cup {Signals[step]}
  /\ IF step < Len(Signals) THEN step' = step + 1 /\ UNCHANGED config
     ELSE step' = 1 /\ config' = "reload"
  /\ UNCHANGED <<mainVars, dbusVars, callbacks, streams, reloads, killed, inputs>>

Reload ==
  /\ config = "reload"
  /\ IF reloads > 0 THEN config' = "load" /\ reloads' = reloads - 1
     ELSE config' = "wait" /\ UNCHANGED reloads
  /\ UNCHANGED <<mainVars, dbusVars, step, callbacks, subscribed, streams, killed, inputs>>

\* The streams are waited for in turn: next() of the blocking proxy returns a signal.
\* An error of the callback ends the process (ConfigDies).
TakeSignal ==
  /\ config = "wait"
  /\ streams[Signals[step]] > 0
  /\ streams' = [streams EXCEPT ![Signals[step]] = @ - 1]
  /\ IF step < Len(Signals) THEN step' = step + 1 /\ UNCHANGED config
     ELSE step' = 1 /\ config' = "reload"
  /\ UNCHANGED <<mainVars, dbusVars, callbacks, subscribed, reloads, killed, inputs>>

\* Killed, or ended by an error.
ConfigDies ==
  /\ config \notin {"none", "dead"}
  /\ config' = "dead"
  /\ UNCHANGED <<mainVars, dbusVars, step, callbacks, subscribed, streams, reloads, killed, inputs>>

----------------------------------------------------------------------------

Inputs ==
  \/ \E sender \in {"signals", "service"} : Quit(sender)
  \/ Post("Shutdown")
  \/ Post("MainSeatEnabled")
  \/ ClearServedKeymaps
  \/ FileChanged

Start == StartService \/ StartLoop \/ StartFails

MainLoop ==
  \/ CheckForShutdown
  \/ PollChannel
  \/ PollTimesOut
  \/ HandleSeatEnabled
  \/ HandleAddKeymap
  \/ HandleClearKeymaps
  \/ HandleShutdown
  \/ Drained

Dbus == DbusHandle \/ DbusLeaves \/ DbusDrops \/ DbusPosts \/ DbusFinishes

Config == SetDefaultKeymaps \/ LoadConfig \/ Subscribe \/ Reload \/ TakeSignal

Next ==
  \/ Inputs
  \/ \E sender \in Sender : Wake(sender)
  \/ Start
  \/ MainLoop
  \/ PollOther
  \/ \E key \in Key : PollKey(key)
  \/ TimeoutPasses
  \/ Dbus
  \/ Config
  \/ ConfigDies

Spec == Init /\ [][Next]_vars

\* The threads and the config process go on, and time passes.
FairSpec ==
  /\ Spec
  /\ WF_vars(Start)
  /\ WF_vars(MainLoop)
  /\ \A sender \in Sender : WF_vars(Wake(sender))
  /\ WF_vars(TimeoutPasses)
  /\ WF_vars(DbusHandle \/ DbusLeaves \/ (dbus = "leaving" /\ DbusDrops) \/ DbusPosts \/ DbusFinishes)
  /\ WF_vars(Config)

----------------------------------------------------------------------------
(* What the lifecycle promises.                                            *)

\* The messages that make the key bindings of the input: those that made its present
\* ones, and those in the channel.
Line == [n \in DOMAIN keymaps |-> [kind |-> "AddKeymap", binding |-> keymaps[n]]] \o mainQ

\* The messages that add a binding to stay: no clearing follows.
Additions(line) ==
  {n \in DOMAIN line : /\ line[n].kind = "AddKeymap"
                       /\ \A m \in DOMAIN line : m > n => line[m].kind # "ClearKeymaps"}

\* The bindings that clients were told are mapped and that the input can know.
KnownServed == {n \in DOMAIN served : served[n].key \in KnownKey}

\* The bindings that clients were told are mapped are those that the input will find,
\* in the same order, that of their ids, whatever requests and reloads are under way
\* (map_key, add_keymap).
KeymapsAgree ==
  /\ {Line[n].binding : n \in Additions(Line)} = {served[n] : n \in KnownServed}
  /\ \A m, n \in Additions(Line) : m < n => Line[m].binding.id < Line[n].binding.id
  /\ \A m, n \in KnownServed : m < n => served[m].id < served[n].id

\* No message is left behind in the main thread's channel: unless it is being drained,
\* there is an edge for what is in it, or a sender that is about to make one.
MessagesWake ==
  main \in {"start", "poll", "check"} /\ mainQ # <<>> => woken \/ waking # {}

ShutdownDue ==
  \/ dbus \in {"dropped", "posted", "finished"}
  \/ \E n \in DOMAIN mainQ : mainQ[n].kind = "Shutdown"

\* A request to shut down, and the loss of the D-Bus thread, end the compositor, even
\* though neither the end of the thread nor that of the child wakes the main thread.
ShutdownEnds == ShutdownDue ~> ~Running

\* No later request puts off the end (handle_channel_messages checks shutting_down).
EndNotPutOff == [][timeout = "passed" => timeout' = "passed"]_vars

\* The compositor leaves its loop only with the config process told to end, and with
\* both gone unless it waited for its time (check_for_shutdown).
ExitStopsAll ==
  main = "ended" =>
    /\ killed \/ config = "none"
    /\ timeout # "passed" => dbus = "finished" /\ config \in {"none", "dead"}

\* ExternalConfig::run dispatches the callback of an activated binding, with the
\* signals of the seat's activation there as well.
BindingsHandled ==
  (\A s \in Signal \ {"OutputChanged"} : streams[s] > 0)
    ~> streams["BindingActivated"] = 0 \/ config = "dead" \/ ~Running
============================================================================
