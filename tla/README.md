# Verification of lumalla

lumalla is a Wayland compositor. One main thread runs an event loop over libseat, libinput, the
udev monitor, the Wayland socket and its clients; a second thread serves D-Bus; a child process
runs the user's Lua configuration and talks to the compositor over D-Bus. This directory models
the parts whose correctness depends on an order of events, checks the models with TLC and proves
their main invariants with TLAPS.

    tlc -config MCSurfaces.cfg MCSurfaces      # one run
    tlapm SurfacesProofs.tla                   # the proofs of one module

`PROJECT.json` lists components, runs, the source lines of every definition (`map`), a mutant
for each property, findings, hazards and theorems.

## 1. The system

Paths are relative to `src/`; `crates/lumalla_x` is written `x`.

| component | state | operations | interacts with |
|---|---|---|---|
| seat session (`seat/src/libseat.rs`, `src/app.rs`) | `SeatUserdata.enabled`, seat name | enable and disable callbacks, `open_device`, `switch_session`, the handlers of `MainSeatEnabled` and `MainSeatDisabled` | called back by libseat inside `dispatch`; posts to the main thread's own channel; opens devices for the renderer and libinput |
| DRM devices and scanouts (`renderer/src/drm/device.rs`, `renderer/src/lib.rs`) | paths, opened devices, scanouts by output, active surface frame, render device | `activate_drm`, `deactivate_drm`, `reconcile_drm`, `dispatch`, `present_enabled_outputs`, `submit_surface_frame`, `remove_surface_frame`, `remove_client_frames` | seat (open, close), udev, display (frames), D-Bus (configuration) |
| mode setting (`renderer/src/drm/modeset.rs`, `connector.rs`) | of each presentation: the CRTCs used on a card, the targets, what was made for the output at work; the kernel's routes, planes and modes | probe, choice of CRTC, plane and mode, framebuffer, mode blob, atomic commit, destructors | kernel, other DRM masters, the above |
| Vulkan renderer (`renderer/src/vulkan`, `renderer/src/lib.rs`) | the context and its GPU, images of the scanout table, the GPU's queue | choice of GPU, allocate, clear, upload, wait, export, destructors | mode setting (shows the images), the above |
| libinput (`input/src/libinput.rs`) | `seat_assigned`, `suspended`, libinput's queue | assign, suspend, resume, dispatch | seat |
| key handling and xkb (`input/src/lib.rs`, `xkb.rs`) | `mods`, `xkb`, `keymaps` | `enable_seat`, `disable_seat`, `handle_key`, `add_keymap`, `clear_keymaps` | display (key and modifiers events), D-Bus thread (activated bindings), main channel (VT switch, shutdown) |
| event loop (`src/app.rs`) | connected clients, poll registrations, shutdown state | one iteration: poll, handle each event, drain the channel, submit surface updates, flush the clients | everything |
| client connections (`wayland_protocol/src/lib.rs`, `client.rs`, `buffer.rs`) | listening socket, `Reader`, `Writer`, sticky write error | accept, read, parse, write events, flush, interest | kernel sockets, event loop |
| object registry and dispatch (`wayland_protocol/src/registry.rs`, `client.rs`, generated `handle_request`) | interface and version of each object id, globals, known seats | register, free, look up, dispatch by opcode and version, bind, broadcast of a global | every request handler, the seat |
| shared-memory pools (`display/src/shm.rs`) | slots with reference counts, free slots, pools and buffers by object | create, resize, destroy, `snapshot_buffer`, `delete_client` | request handlers, surfaces |
| surfaces (`display/src/surface.rs`, handlers in `display/src/protocols/wayland.rs`) | roles, modes, pending and current buffers, frame callbacks, queued updates | create, attach, frame, commit, set a mode, destroy, `remove_client` | pools, keyboards, renderer |
| keyboards (`display/src/seat.rs`) | keyboards with their focus, modifiers, keymap | `create_keyboard`, `release_keyboard`, `set_toplevel`, `handle_key`, `handle_modifiers` | input, surfaces, the writers of the clients |
| message channels (`shared/src/comms.rs`, `message_runner.rs`) | queues and wakers | send, drain | main thread, D-Bus thread |
| D-Bus service (`dbus/src`, `ipc/src`) | the object's keymaps, outputs and devices; its thread's queue | methods that post messages, signals, the thread's end | config process, main thread |
| config process (`config/src`) | Lua state, callbacks, subscriptions and their streams | default keymaps, load, reload, waiting for signals | D-Bus service |
| shutdown (`src/app.rs`, `src/os_signal.rs`) | shutdown state, timeout | request, wait for thread and child, stop | D-Bus thread, config process |
| protocol generator (`wayland_protocol_macros`) | none | at build time, generates the dispatch and the events' encoding | registry, writer |

What is hard here. The main thread is sequential, so the difficulty is not data races but
*orders*: callbacks that post messages which are handled after the world has moved on (seat
session); ids that are freed and used again while another table still names them (pools,
surfaces, keyboards); a batch of requests that fails after half of it took effect (surfaces);
edge-triggered readiness, where a missed edge is never repeated (event loop); partial writes
(writer); two records of one fact (modifiers in xkb and as flags); resources that must be given
back in an order (scanouts before their device, devices before libseat); processes that start
and stop in any order (config, shutdown); chains of a dozen calls to the kernel or the GPU, each
of which may fail and must leave nothing of the earlier ones behind (presentation); connectors,
planes and encoders that compete for CRTCs; a GPU that still works on what the program has given
up waiting for.

What makes each part correct:

- *seat session*: a disabled seat holds nothing, or the message that releases it is on its way;
  a stale message is dropped only if a newer one follows; nothing is held at exit.
- *devices*: no scanout outlives its device, no device is opened twice, ready is announced only
  with every known device open, removed cards are closed.
- *pools*: exact counts, each slot owned once, snapshots inside their mapping.
- *surfaces*: the tables agree, callbacks are answered once, the screen follows the commits, a
  removed client leaves nothing.
- *keyboards*: events go to live objects, the client's view is the seat's, keys do not stay
  down, bindings fire exactly when their modifiers are held.
- *connections*: bytes and descriptors in order and once, no request stuck, output delivered.
- *mode setting*: no CRTC for two outputs, a lit output stays lit, every kernel object has one
  owner, what is lit is what was configured.
- *Vulkan renderer*: only finished pictures of the right frame are shown, nothing is freed under
  a pending upload, nothing temporary is left, the preferred GPU draws.
- *registry*: client and server agree on every id, every registry object is told of every global
  once, no request reaches an unwritten handler, a client that behaves gets no error.
- *shutdown*: it ends, with everything stopped or its time up, and no request puts it off.
- *config*: what is mapped is what the input finds, and signals are handled.

`hazards` in PROJECT.json lists the places where this can go wrong, line by line, with the
properties that would show it.

## 2. Modules

| module | models | checked by | proofs |
|---|---|---|---|
| `SeatSession` | seat session, open devices and scanouts, suspension of libinput | `MCSeatSession` | `SeatSessionProofs` |
| `ShmPools` | pools, buffers and their objects | `MCShmPools` | `ShmPoolsProofs` |
| `ShmSharing` | abstract specification of `ShmPools` | by refinement | `ShmPoolsProofs` |
| `Surfaces` | surfaces, roles, callbacks, updates and the shown frame | `MCSurfaces` | `SurfacesProofs` |
| `SceneBatches` | abstract specification of `Surfaces`: the screen | by refinement | `SurfacesProofs` |
| `Keyboards` | libinput's queue, key handling, bindings, keyboards and focus | `MCKeyboards` | `KeyboardsProofs` |
| `Connections` | sockets, readers, writers, epoll and an iteration of the loop | `MCConnections` | `EventLoopProofs` |
| `Lifecycle` | start, channels, D-Bus thread, config process, shutdown | `MCLifecycle` | `EventLoopProofs` |
| `Modesetting` | presentations: probing, CRTCs, planes, modes, kernel objects, commits | `MCModesetting` | `ModesettingProofs` |
| `GpuWork` | presentations: render device, context, images, submissions, waits | `MCGpuWork` | `GpuWorkProofs` |
| `Registry` | globals, objects and ids of each connection, versions, dispatch | `MCRegistry` | `RegistryProofs` |

Every module has the same layout: constants with named assumptions, variables named after the
fields they stand for, one action per handler, `Next`, `Spec`, and the properties at the end
with the behaviour of the code they are about (in `Connections` these are `ConnNext` and
`ConnSpec`, as `EventLoopProofs` extends it together with `Lifecycle`). A definition preceded by "Mutation:" is not part
of the model: it is a plausible wrong form of the definition that follows it, which shows that
the properties can fail. The modules are separate because the components meet in few places:
`Connections` treats a request as something that succeeds or fails, `Surfaces` treats pools as
"a snapshot can be taken or not" (`backed`), `Keyboards` treats a surface as existing or mapped,
`SeatSession` treats a presentation as a choice of the cards that get a scanout, `Modesetting`
the image as made or not, `GpuWork` the modeset as something that succeeds or fails, `Registry`
pools and copies as valid or not, and `Lifecycle` the activation of the seat as something that
succeeds or not. Each of these abstractions allows at least what the other module does: a
failure anywhere in a presentation, for instance, gives up one output in all three modules.

### SeatSession

Actors: the seat daemon (`DaemonEnable`, `DaemonDisable`), the kernel (`CardEvent`), the D-Bus
thread (`PostConfigure`) and the main thread, whose position is `phase`: polling, inside
`libseat_dispatch`, draining the channel, or after the loop. `epoch` numbers the sessions, so
that `opened[c]` tells whether the descriptor of card `c` is of this session or of one that was
revoked.

| action | code |
|---|---|
| `EnableSeatCallback`, `DisableSeatCallback` | the two callbacks of `libseat.rs`; the disable is acknowledged in the callback |
| `HandleSeatEnabled`, `HandleSeatDisabled` and their `Stale` forms | the arms of `handle_channel_messages` that compare the message with the flag |
| `EnableInput`, `DisableInput`, `SuspendInput` | `InputState::enable_seat`, `disable_seat` and `LibInput::suspend`, with the failures of assign, resume and the reset of xkb |
| `OpenMissing`, `Deactivate`, `Reconcile`, `Present`, `ProbeAll` | `DrmDevices` and `RendererState` |
| `DispatchUdev`, `AfterDispatch` | `DrmDevices::dispatch` and its caller |
| `ClientUpdate`, `HandleConfigure` | every other cause of a presentation |
| `Exit` | the end of `run_event_loop`: input, then devices, while libseat is open |

`libinput_suspend` returns `void` in C and is bound as returning an `int`: the flag after it is
a nondeterministic choice (`SuspendInput`, and `Suspend` of `Keyboards`). A reset of xkb that
fails, for want of memory, ends `disable_seat` before libinput is suspended, and its devices stay
open. The history variable `skipped` records that; `DisabledReleases` and `ExitReleases` allow
libinput's devices, and nothing else, to be held only then.

### ShmPools, ShmSharing

A resource key is a client and an object id. `CreatePool` and `CreateBuffer` register the object
before they validate, as the handlers do, so that an object may exist without a pool. `MapPool`
and `ReleasePool` are the slot vector with its counts and its stack of free slots. Removing a
client walks two hash maps: `RemoveClientBuffer` and `RemoveClientPool` take one entry at a time
in any order, and nothing else happens between them. `ShmSharing` has no counts and no slots: a
mapping is alive exactly while some pool object or buffer refers to it, and a new pool gets a
mapping nothing refers to. `ShmPools` implements it under the mapping in `Sharing`.

### Surfaces

The main thread reads a batch of requests of one client (`StartBatch`, one action per request),
then submits what the batch queued (`EndBatch`, `SubmitUpdate`, `Submitted`), or removes the
client if a request fails (`FailBatch`) or its events can no longer be written (`FlushFails`).
The handlers' order of effects is kept: `GetShellSurface` registers its object before it refuses
a second role, `Commit` takes buffer and callbacks before the copy that can fail,
`DestroySurface` decides by the current mode whether something must leave the screen. Left out:
damage, offsets, regions, titles, classes and pixels; of the modes, toplevel stands also for
transient, fullscreen and maximized, which are the same to `is_mapped`.

`SceneBatches` has neither buffers nor roles nor a queue: a batch stages what it will show
(`Show`, `Hide`), which becomes the screen as a whole when the batch is done (`Publish`), or is
forgotten when its client is removed (`Drop`). `Surfaces` implements it under the mapping in
`Scene`: `staged` is what the queue leads to (`Shown`), and `screen` is what is shown, except
that while a queue is being submitted, which no other handler of the main thread sees, it is
already what the queue leads to. So `EndBatch` is the step that publishes, and every
`SubmitUpdate` a stutter. A client can hide only what it has staged itself, whatever handler
queued it.

### Keyboards

Hardware keys enter libinput's queue (`PressKey`, `ReleaseKey`); `StartDispatch`,
`HandleKey`/`SwallowKey` and `Dispatched` are `InputState::dispatch` with the handler inside it.
`phase` "draining" is the dispatch that `enable_seat` and `disable_seat` do with an empty client
handler. `logical[k]` is the client's side: the active surface, keys and modifiers that follow
from the events sent to wl_keyboard `k`. The focus logic of `get_keyboard` and `set_toplevel` is
`GetKeyboard` and `FocusKeyboards`. `DisableSeat` has the two ways in which the handler can end
early: a suspend that seems to fail leaves the queue undrained, and a reset of xkb that fails
leaves xkb's keys down under cleared flags. Which keys can be held together is a bound (`Chord`),
and the bindings are a constant, since how they are made and cleared is in `Lifecycle`.

The modifiers are recorded twice, by xkb and in flags, and the two differ in known ways: the left
and the right key of a modifier share a flag, and the flags are cleared before a reset that can
fail. The history variable `missed` has the modifiers that are held and whose flag is down
because of either. `BindingsFire` says that bindings are found by exactly the held modifiers that
are not missed, so that any other way of losing or keeping one would violate it. `Stuck` are the
keys that are down for a focused keyboard although they are up and no release of theirs waits;
`NoKeySticks` says that no step outside a drain adds one.

### Connections

`ready` is epoll: a token is in it after an edge, or after a registration while it was ready. An
iteration is `Poll`, the handlers of the reported tokens in any order (mio promises none),
`StartFlush`, `FlushClient` or `FlushFails` for every open client, and `FlushDone`. A read takes
any part of what the socket holds. `Write` is a message from `start_message` to
`write_message_length`, with the flush it may cause, a string that is refused, a descriptor too
many, and the sticky error after which nothing is flushed. Sizes are in words; the proportion of
the code is kept (`BufferSize` is two messages, a flush is due when one message is buffered).
Descriptors of *requests* and the encoding of arguments are left out.

### Lifecycle

Three actors that share queues: the main thread (`main`: polling, draining, ended), the D-Bus
thread (`dbus`) and the config process (`config`), which the compositor spawns before it
registers the service.

| action | code |
|---|---|
| `StartService`, `StartLoop`, `StartFails` | `run_app`, with any of its errors |
| `CheckForShutdown`, `Stopped` | `check_for_shutdown` |
| `PollChannel`, `PollTimesOut`, `PollOther`, `PollKey` | what a poll may report |
| `HandleSeatEnabled`, `HandleAddKeymap`, `HandleClearKeymaps`, `HandleShutdown` | arms of `handle_channel_messages` |
| `MainSend`, `Wake` | `MessageSender::send` of another thread: the message first, then its waker, with any steps of other threads in between |
| `DbusSend` | `Comms::dbus` in the main thread; a message to a D-Bus thread that is gone becomes a request to shut down |
| `DbusHandle`, `DbusLeaves`, `DbusDrops`, `DbusPosts`, `DbusFinishes` | the thread, which may panic at any time, and whose last message is sent before it is finished |
| `MapKey`, `ClearServedKeymaps`, `Quit` | methods of the object, which it serves one at a time, and SIGINT |
| `Post` | F1 and libseat's enable callback: the main thread sends to itself, and polls only afterwards |
| `SetDefaultKeymaps`, `LoadConfig`, `Subscribe`, `Reload`, `TakeSignal` | `ExternalConfig::new` and `run` |
| `ConfigDies` | SIGKILL, or an error of a callback |

A signal is kept in a stream only if the process is subscribed when the D-Bus thread emits it.
`woken` is the edge of the waker: many messages may share one. `waking` are the threads between
the two halves of a send. Left out: VT switches, output
settings, the contents of signals, what callbacks do.

### Modesetting

A presentation is a loop on the main thread, but displays are plugged, the session is revoked
and other masters set modes between any two of its calls (`Plug`, `Revoke`, `Foreign`,
external), so that each call is an action.

| action | code |
|---|---|
| `Activate`, `Deactivate`, `DispatchUdev`, `SetOutputConfig`, `Represent` | what starts a presentation or drops the outputs: `DrmDevices` and `RendererState` |
| `VisitCard`, `Resolve`, `ResolveNone`, `CollectDone` | `collect_present_targets`, `probe_connected_output` |
| `Import`, `AddFb`, `CreateBlob`, `Commit`, `CommitRefused` | `present_one_output`, `DrmFramebuffer::from_dma_buf`, `ModeBlob::create`, `atomic_modeset`, with the destructors in their failing halves |
| `PresentDone` | the end of `present_enabled_outputs_with_frame` |

Pure parts are operators: `FindCrtc` and `CrtcFromEncoder` (the encoder's present CRTC unless
taken, else the lowest possible one), `FindPrimaryPlane`, `SelectMode`. Of the kernel the model
has what every driver shares: framebuffers, handles and blobs are per descriptor and die with
it; a removed framebuffer leaves its plane dark and, on some drivers (`StopsCrtc`), stops the
CRTC; a commit needs the session, an encoder that nobody else has, and a plane that is not on
another CRTC; any commit may be refused. Left out: sizes, pixel formats, property ids, and
`atomic_page_flip`, which nothing calls.

### GpuWork

| action | code |
|---|---|
| `CardsChange`, `SetSurfaceFrame`, `RemoveSurfaceFrame`, `SetRenderDevice` | what starts a presentation, with `BeginPresent` in the same step |
| `BeginPresent`, `Retire` | clearing the scanouts, `resolved_render_device_path`, `ensure_vulkan`, the old context's drop |
| `Allocate`, `MakePass`, `MakeTarget` | the image, its render pass and its framebuffer |
| `SubmitClear`, `ClearRefused`, `Cleared`, `ClearTimesOut` | `clear_framebuffer_to_color` |
| `SubmitUpload`, `UploadRefused`, `Uploaded`, `UploadTimesOut`, `Drained`, `DrainFails` | `upload_bgra_to_image` |
| `WaitIdle`, `WaitIdleFails`, `Show`, `ShowFails`, `PresentDone` | the rest of `present_one_output` and of the loop |
| `Execute`, `DeviceLost` | the GPU (external): it executes in order, or is lost at any time |

`objects` holds each live object with the image it was made for, so that a submission and what
it uses can be compared (`UsesOf`). Every wait may fail, not only with the loss of the device: a
fence's as if it had timed out, `wait_idle` before the picture is shown by giving the output up,
the one of a replaced context's drop by ignoring it. `wait_idle` after an upload that timed out
is ignored too: `DrainFails` frees the upload's objects while it is pending, and marks it
"abandoned", the one case that `UploadsKept` leaves out. The operators `SelectGpu`, `AutoPath`, `NeedsContext`,
`Valid` and `Upload` are the pure parts. Left out: formats, image layouts, memory types, and
what nothing uses (pipelines, shaders, descriptors).

### Registry

Each client has its own view of its objects (`proxies`), the delete_id events on their way to it
(`returning`), and is in `behaved` until it makes a request that the protocol forbids. The
server's side is `objects`, `callbacks` and `shell`, and what each registry object was `told`.

| action | code |
|---|---|
| `Connect`, `Disconnect`, `Refuse` | `Registry::new`; the end of a connection; the generated dispatch when object, opcode or version do not fit |
| `Sync`, `GetRegistry`, `Bind` | the handlers of wl_display and wl_registry |
| `Create`, `CreateBuffer`, `GetShellSurface`, `Frame`, `Commit`, `DestroySurface`, `Destroy`, `Other` | the handlers of the other interfaces, in `protocols/wayland.rs` |
| `ActivateMainSeat` | `activate_main_seat` with `add_main_seat` and `broadcast_global` |
| `TakeDeleteId` | the client (external) takes a delete_id event, any time later |

`Since` and `Requests` are what the generator writes into `handle_request` from `wayland.xml`. A
request is handled in the step that makes it, since only a client's own requests change its
objects; events that tell of globals have no order (the code walks a `HashMap`). Ids of the
server's own range are made by no handler; `ServerId` stands for such an id in a client's
request.

## 3. Runs

| run | bounds | distinct states | shows |
|---|---|---|---|
| `seat_session` | 2 cards, 2 sessions, 2 undelivered seat events, 1 D-Bus request, 2 card events, a daemon that does not wait for acknowledgements | 696k | all safety properties of the session, and under fairness that a session that is taken away is released |
| `seat_activated_afresh` | as above, daemon that waits, no hotplug | - | violation: finding 1 |
| `shm_pools` | 2 clients, 4 ids, sizes -1, 8 and 9, 3 geometries | 248k | exact counts and free list, snapshots in bounds, refinement of `ShmSharing` |
| `surfaces` | 2 clients, 3 and 1 ids, 2 updates in a batch | 187k | roles paired, order of updates, removed content off the screen, nothing left of a client, refinement of `SceneBatches` |
| `keyboards` | 1 client with 3 ids, 5 keys (both ctrl keys, alt, F1, a bound one), 8 sets of keys held, presses and releases into an empty queue | 3.20M | equal views, one enter, no key sticks outside a drain, bindings fire |
| `connections` | 1 client, messages of up to 2 words, 2 words in and 3 out, socket of 1 word out, 1 descriptor | 191k | output in order with its descriptors, an edge for all that waits while the loop polls; under fairness, requests are handled and output delivered |
| `clients_accepted` | 2 clients that connect | - | violation: finding 2 |
| `lifecycle` | 2 keymaps of the user's, one without a code; 2 inputs | 638k | equal keymaps, an exit that stops everything, no lost wake-up; under fairness, that shutdown ends |
| `lifecycle_bindings_handled` | 1 keymap; 2 inputs | - | violation: finding 3 |
| `modesetting` | 2 cards, 3 connectors, CRTCs, planes and encoders, 2 handles of a kind, 2 changes from outside | 1.34M | outputs apart, lit outputs stay lit, every kernel object owned, the configuration applied |
| `gpu_work` | 3 cards, 4 GPUs, 2 outputs, 5 frames, 3 images, 3 changes | 903k | finished pictures of the right frame, uploads keep what they use, nothing temporary left, the preferred GPU draws |
| `registry` | 2 clients with 5 and 1 ids beside the display, versions 0, 1, 3 and 10, 1 seat | 7.9k | no unwritten handler reached, globals told once, equal views of the ids, no error for a client that behaves |

**Why the bounds suffice.** *seat_session*: two sessions are what a stale message needs (the
disable of the first handled during the second), a third repeats the first; two cards let
opening stop half-way, let one be removed while the other stays; the daemon that does not wait
allows every behaviour of the one that does, so the passing run takes it, and the violation
takes the other, which makes it hold for both. *shm_pools*: two clients share the slot vector,
three ids of one hold two pools and a buffer or a pool and two buffers; 8 and 9 are the sizes
that just hold and just exceed a geometry, so that a buffer fits only after a resize.
*surfaces*: three ids make a surface, its shell surface and a buffer, or a surface with
callbacks, and ids change interface; the second client is the other owner of the screen.
*keyboards*: an id that may be surface or keyboard makes reuse collide with the focus; the sets
of held keys are each key alone, both ctrl keys, and a VT switch with its keys in either order;
a queue with one event before a disable has a press whose release the disable adds, or an event
left over from a suspend that seemed to fail. Clients share the seat's keys and modifiers, which
no request changes, and a keyboard's focus is its own client's affair, so the run has one client;
the theorems are for every set of them. *connections*: a message longer than the socket forces partial sends, the
total is just below what the socket and the buffer hold together; the client hangs up at any
time, and the other tokens are ready in any order, so that a second client would add only
interleavings of flushes that share nothing. *lifecycle*: two inputs are a request beside
another request, a clear beside a reload, an activation beside a key; the loss of the D-Bus
thread and of the config process are not inputs and happen at any time. A reload maps its keys a
second time, as a config does with a default of the same key, so no default is needed; of two
keys one reaches the input. *modesetting*: two
connectors of one card can use the same two CRTCs, one of them through the other's encoder and
through planes of which one serves both, which is every way in which outputs compete; the other
card has the driver that stops its CRTC; two handles of a kind are what the two outputs of a
card need at once, so that a handle that leaks is missed; two changes are a session that is lost
and a foreign modeset in its absence, or a display plugged during a presentation and a
configuration after it. *gpu_work*: two outputs with frames make a presentation that fails on
one and not on the other, a third image another presentation while what the first left is
pending; the GPUs are one for each way a GPU and a card can be related (drives it and is weaker,
drives it and is stronger, drives none, cannot draw), the frames one for each way `validate` and the clipping can go. *registry*: five
ids hold the longest chain of factories (registry, compositor, surface, callback, or shell and
shell surface) with a second registry; the versions are below, at and above what is advertised;
the second client has a registry only, which is all that a broadcast can tell apart.

**Fairness.** `SeatSession!FairSpec`: weak fairness of the main thread's steps: delivery inside
`libseat_dispatch`, draining, handling each message, the udev dispatch. The loop does nothing
else between them and no handler blocks; the daemon, the kernel, the D-Bus thread and clients
are not assumed to do anything. `Connections!FairConnSpec`: weak fairness of `Poll`, the handlers
and the flush, as one thread runs them in turn, and of each client's `Receive`: what is promised
is promised to a client that reads its socket. Clients are not assumed to send, finish a request
or hang up. `Lifecycle!FairSpec`: weak fairness of start, of the main loop's steps once a poll
has something to report, of the second half of each send, of time, of the D-Bus thread and of
the config process, all of which are scheduled by the kernel. No input, no panic and no death is assumed.

**Deadlock** is checked, except for `SeatSession`, which stops after `Exit`, `Surfaces`, where
all clients may be gone, `Lifecycle`, which ends, and `Modesetting` and `GpuWork`, where nothing
is left to happen once the bounds on changes and images are used up.

**Mutants.** For every property of a passing run, one definition is replaced by its mutated form
and the property fails: a dropped staleness check, devices left to destructors, a pool unmapped
at the first release, callbacks that are kept, focus kept on release, descriptors sent late, a
client registered only once, a shutdown without its timeout, a CRTC taken whoever has it, a
staging buffer freed while the GPU reads it, an object made in its interface's newest version.
They are listed under `mutants`.

## 4. Findings

Violations that a run shows, each against a line of the repository:

1. **Devices of a revoked session are kept** (`src/app.rs:239`, `seat_activated_afresh`). If
   disable and enable are both dispatched before the channel is drained, the disable is dropped
   as stale, nothing is closed, and activation skips devices that are open. `device.rs:258` says
   they must have been closed so that they are reopened.
2. **One connection is accepted per edge** (`src/app.rs:377`, `clients_accepted`).
3. **Bindings are never dispatched** (`config/src/external.rs:107`,
   `lifecycle_bindings_handled`). `run` waits for its four signals in turn with blocking calls,
   and `EmitOutputChanged`, the second, is sent by nothing.

Disagreements met while modelling that are not kept as runs. The models contain each of these
behaviours unless a bullet says otherwise.

Seat, clients and configuration:

- A removed card is never closed: `dispatch` stores the new list of paths (`device.rs:250`),
  then fails probing the card that is gone, and the change is lost with the error;
  `renderer/src/lib.rs:174` says "Close removed / open newly discovered DRM devices while the
  seat is active."
- A commit that cannot be copied drops its frame callbacks unanswered
  (`protocols/wayland.rs:623`; `wayland.xml:1523` describes when they are answered).
- Keys are sent for a surface that was destroyed (`display/src/seat.rs:174`).
- A disable is acknowledged before the devices are closed (`libseat.rs:144`; its comment says
  so).
- `wl_buffer.release` may go to an id that was deleted or is another object by the time of the
  commit (`protocols/wayland.rs:628`).
- Whether a destroyed surface is taken off the screen is judged by its current mode: a toplevel
  that was shown and then became a popup stays (`surface.rs:57`, `surface.rs:341`).
- Every client with a surface has a focus of its own (`display/src/seat.rs:136`).
- The release of a key whose press was swallowed is forwarded (`input/src/lib.rs:117`), so
  clients see releases without presses.
- Left and right modifier keys share one flag (`libinput.rs:322`): with both held, releasing one
  clears the flag while xkb still has the modifier. Until a key of it is pressed again, its
  bindings do not fire and those without it do (`missed`).
- `disable_seat` clears its flags and then returns if the reset of xkb fails
  (`input/src/lib.rs:78`): libinput is not suspended, its devices stay open though the seat is
  disabled, and the flags are down for keys that xkb still has.
- A socket that stays full lets the writer write past the end of its buffer, which panics
  (`buffer.rs:339`). `Connections` has this outcome (`phase` "crashed"); the runs bound the
  output below it, except that the liveness properties allow for it.
- A disable resets xkb and drains the releases with an empty handler (`input/src/lib.rs:76`):
  clients believe the modifiers of a VT switch held until the next change, and the keys down
  until they are pressed and released again. `NoKeySticks` therefore leaves the drains out.
- The config process starts before the service is registered (`src/main.rs:26`): if it is
  faster, its default keymaps and its config fail, with a line in the log.
- A ready signal that is emitted before the config process subscribes is lost
  (`config/src/external.rs:89`), and `on_startup` is not called.
- A callback that fails ends the config process (`external.rs:108`), which nothing notices.
- A reload appends its bindings to those of before, and the first binding of a key is the one
  that is found (`input/src/lib.rs:161`): neither a reload nor the user's config can replace a
  binding.
- An error of `run_app` leaves the config process running (`src/app.rs:446`).
- The D-Bus thread asks for a shutdown before it is finished (`dbus/src/lib.rs:206`), and the
  end of the child wakes nobody: unless another event comes, a shutdown takes its full second.
- A client's keyboards stay in the seat after the client is removed (`display/src/lib.rs:88`).
- The handlers that report `wl_display.error`, which the protocol calls fatal, keep the
  connection; only a failure of the dispatch itself ends it. The bind of an unknown name is
  ignored without an error (`protocols/wayland.rs:99`).

Presentation:

- CRTCs are given out greedily, in the order of the connectors' names. The CRTC found for one
  connector may be the one that another, which is resolved later or not at all, is routed to
  (`modeset.rs:510`); the commit is then refused by drivers that will not move it, and the
  output stays dark although an assignment for all existed.
- A plane that shows something on another CRTC cannot be moved in one commit (`Committable`):
  `find_primary_plane` (`modeset.rs:569`) does not look at where the plane is.
- `probe_all_connectors` stops at the first card that cannot be probed (`device.rs:298`): what
  was found on another one is kept, but the presentation it should cause never comes.
- `clear.rs:12` says "Blocks until the GPU finishes.", yet a clear that takes longer than a
  second frees its fence, render pass, framebuffer and image under it and leaks its command
  buffer, while an upload in the same place waits (`upload.rs:133`). `UploadsKept` is therefore
  about uploads only, and `TemporariesGone` leaves the command buffers of clears out.
- `upload.rs:132` says "Do not release staging memory while submitted work may still reference
  it.", yet the result of the wait that follows is ignored: if it fails otherwise than by the
  loss of the device, the staging buffer, the fence and the image are freed under the upload
  (`DrainFails`).
- A context that is replaced destroys its command pool before its device waits until it is idle
  (`instance.rs:266`): such a late clear may still be pending. The device's own drop ignores the
  result of its wait as well (`device.rs:206`).
- A context whose GPU drives no known card is never replaced (`lib.rs:460`), although one was
  selected for a path; if the card that is preferred has no Vulkan GPU but the selected one
  drives another card, the context is made anew at every presentation. `PreferredUsed` says what
  remains true.
- A lost device stays: every presentation fails until the render device changes to another
  card's.
- Calls that fail inside `DmaBufImage::allocate` or `VulkanContext::new` leak what they made
  before (the model has the first, and takes failures of the second as a presentation that
  ends).
- `lib.rs:81` says "Drop order: scanouts → vulkan → drm_devices."; the fields below it are in
  another order, and Rust drops them in theirs. The end of the event loop drops the outputs
  itself before (`Exit` of `SeatSession`).

## 5. Proofs

All theorems hold for every value of the constants allowed by the modules' assumptions: any
number of cards, clients, ids, sizes, geometries, keys, bindings, connectors, CRTCs, GPUs,
outputs, frames and versions, any bounds. They need no fairness and no finite instance.

Every module's type invariant is proved, so that no run checks one. The same goes for two
properties of `Surfaces`: `CallbacksOnce` is a part of the inductive invariant, and
`OthersFrameKept`, that a client may cover the frame of another but never take it off the
screen, is what `SceneBatches` says already, stated of the detailed variables.

**SeatSession** - `TypeCorrect`, `ScanoutsAlwaysBacked`, `DisabledAlwaysReleases`,
`ExitAlwaysReleases`, `NewestNeverStale`. `DisabledReleases` is not inductive: that a disabled seat still holds
something must always coincide with a queued disable, and handling *another* message must not
open anything. The invariant adds `SuspendedHoldsNothing` (libinput marked suspended holds no
device), without which handling the disable would skip the devices that a wrong flag hides, and
carries `ScanoutsBacked` and `ExitReleases` along. Each action is a step of its own.
`NewestNotStale` is proved in the form `NewestAgrees`, which names no fold: any seat message
with none behind it agrees with the flag. A callback sets the flag and sends, in that order and
in one thread, and taking a message from the front leaves the last one last.

**ShmPools** - `CountsExact`, `FreeListAlwaysExact`, `SnapshotsInBounds`,
`ResourcesAlwaysRegistered`, `ImplementsSharing`. Counts are cardinalities of sets of holders;
lemmas say how one holder more or less changes them, and that the free list stays injective when
a dead slot is taken or given. `SnapshotInBounds` speaks of every row; the invariant keeps the
one fact that `create_buffer` checks (`BuffersFit`: the last row ends in the pool) and a lemma
derives the rows from it, which is where the nonlinear arithmetic is. The refinement maps each
action to a step of `ShmSharing` or to a stutter (resizing, requests that only register an
object).

**Surfaces** - `TypeCorrect`, `RolesAlwaysPaired`, `CallbacksAlwaysOnce`,
`RemovedAlwaysLeavesNothing`, `AlwaysSubmittedInOrder`, `OthersFrameAlwaysKept`,
`ContentAlwaysRemoved`, `ImplementsSceneBatches`. The first part of the invariant (`IInv`) is the
conjunction of the types, `RolesPaired`, `CallbacksOnce` and `SameClient` (a shell surface and
its surface belong to one client), which is what makes removing a client remove both ends of
every pair. The second (`Queue`) says that the queue holds only updates of the batch's client
and is empty between batches, and that nothing but updates is left of a client that is gone:
`RemovedLeavesNothing` follows although `remove_client` looks at its own client's updates only.
What a queue leads to (`Outcome`) is decided by its last frame; lemmas say what the outcome is
after one more update at the end (`OutcomeOfPush`) and that taking the first changes nothing
(`OutcomeOfRest`), with the last frame as the greatest index of a kind (`Highest`, from the
well-foundedness of the naturals). From them come the order of submission, the removal of
content, and each step of the refinement (`SceneStep`), which carries the invariant in its
hypotheses.

**Keyboards** - `TypeCorrect`, `AlwaysRegistered`, `ViewsAlwaysAgree`, `EntersOnce`, `KeysGoUp`,
`BindingsAlwaysFire`. The first four follow from `TypeOK`, `KeyboardsRegistered` and `ViewsAgree`
together. `KeysGoUp` (`NoKeySticks`) needs of the queue that a press that waits is of a key that
is held or has its release behind it (`PressBacked`); without it, handling an old press could
put down a key whose release had already been handled. A disable keeps it because libinput
releases every key that was reported, in some order: the order is an injection of a finite set's
size into the set, hence onto it (`ReleaseEventsFacts`). `BindingsAlwaysFire` needs `ModsFollow`,
that the flags are those of the keys that xkb knows to be down but for the missed ones, which is
inductive for every keyboard: the theorem takes no assumption about how many keys a modifier has.

**Lifecycle** - `TypeCorrect`, `ExitAlwaysStopsAll`, `EndNeverPutOff`, `KeymapsAlwaysAgree`,
`MessagesAlwaysWake`. The second and third need no types: `ShutdownBegun` (from the first request
on, the process is told to end and the timeout is set) and `EndJustified` (what
`check_for_shutdown` saw still holds) are inductive, because the end of the thread and of the
process is final (`StoppedStays`). For `KeymapsAgree` the input's bindings and the channel are
one line of messages (`Line`), so that handling a message moves the border and not the line; the
invariant adds that no id in use is as great as the next one. `Keeps` compares two lines by the
additions that no clearing follows: a message that is no binding's may come, go or wait anywhere
(`InertSent`, `InertTaken`), a clearing empties both sides. `MessagesWake` is inductive as it
stands: only `PollChannel` takes an edge, it goes to the drain, and the drain ends with the
channel empty; a message that arrives from another thread at any moment brings its sender's
second half, and one that the main thread sends to itself its own edge.

**Connections** - `ConnTypeCorrect`, `OutputAlwaysInOrder`, `FdsAlwaysInTime`,
`NothingEverForgotten`. `LoopInv` says that whatever waits to be handled or flushed is a client
that is connected. `Flow` relates what a client has received, what is on the way and what the
writer holds to what was written: the words joined are the numbers from one on, wherever the
flushes cut them, and a function counts the descriptors that have gone with the first words on
the way, those that have not being for events whose last word comes later still (`cut`, which is
hidden by an existential quantifier, as no variable of the code holds it).
After an error the second part is dropped, since nothing is sent any more. Lemmas say what one
partial send, one receipt and one write do to a flow for sequences of any length (`FlowSends`,
`FlowReceives`, `FlowWrites`); the actions cite them. `NothingForgotten` is about the moment at
which the loop polls. The invariant (`WakeInv`) says it of every client that the present
iteration has already flushed, and that a complete request lies in the reader of that client only
whose handler runs. Each flush registers anew, so that what is readable is reported once more,
and a flush that leaves something has filled the socket (`LeftBehind`): there is a word on the
way whose receipt will be the edge. This is the safety core of `RequestsHandled` and
`OutputDelivered`.

**Modesetting** - `TypeCorrect`, `OutputsAlwaysApart`, `ScanoutsAlwaysShown`,
`ObjectsAlwaysAccounted`, `ConfigAlwaysApplied`. One invariant follows an output through the
presentation: it is resolved, in work or in the table, at one of them only (`OnePlace`), and
wherever it is it fits its connector's card and configuration (`AllFit`). `OutputsApart` needs
to know why a CRTC that is found is new: the targets of the present card are in `used`, and
those of other cards have other CRTCs (`Visited`). `ScanoutsShown` needs `RoutesValid` of the
kernel, without which a commit could take the encoder of a lit output; `ObjectsAccounted` needs
that what is in work owns handles that the table does not (`Unshared`), so that freeing one
frees nothing else. What the kernel guarantees is assumed through `Committable` and `RemoveFbs`.

**GpuWork** - `TypeCorrect`, `AlwaysShownAsAsked`, `UploadsAlwaysKept`, `TemporariesAlwaysGone`,
`PreferredAlwaysUsed`. For each stage of an output's work the invariant says which temporary
objects there may be (`OnlyTemporary`), what was drawn on its image and what is pending on it
(`Stage`), and that the queue never has two submissions of one image nor an upload of another
(`Queued`): clears that timed out and uploads that were abandoned may be executed at any later time, and this
is why they disturb nothing that is shown. `PreferredUsed` needs that the bonus of 10000 outweighs all other
scores, which holds because Vulkan packs a version's numbers in 7 and 10 bits (`GpuAssumption`).

**Registry** - `TypeCorrect`, `NeverReachesUnimplemented`, `AlwaysToldOnce`, `IdsAlwaysAgree`,
`BehavedAlwaysServed`. A request changes the tables of its own connection only, so the invariant
is a conjunction over connections: `Sound` (what a surface refers to is registered, and belongs
to no other surface; whatever is registered has version 1 or is a seat or a keyboard), `Tells`
(what registry objects were told), `Agree` (server and client of a client that behaves; an
object that is gone without the client's doing is a callback) and `Nobody` (nothing is left of a
client that is gone). `NeverUnimplemented` follows from the versions: every request that is
`todo!()` came with version 2 or later of an interface advertised in version 1.

**Only model-checked**: the four liveness properties, `EventuallyReleased`, `RequestsHandled`,
`OutputDelivered` and `ShutdownEnds`. They hold under fairness, which is about when an action is
enabled, and the provers here do not treat `ENABLED`. Every invariant, action property and
refinement that a passing run checks is also the subject of a theorem. The three properties that
runs violate are the findings.

## 6. Not modelled

- The bindings to libdrm and udev and the wrappers around them are foreign declarations and
  pure I/O. Their effects are in `Modesetting` and `SeatSession` as the kernel's part.
- The parts of `renderer/src/vulkan` that nothing uses: graphics pipelines, shaders, descriptor
  sets, semaphores, general images and memory pools. They would be modelled from declarations
  without a caller.
- The encoding of events and arguments, in the generator and the writer: `Connections` has its
  sizes, flushes and errors, not its bytes.
- Pointer and touch input, surface transforms and scales: their handlers are `todo!()`. Damage,
  offsets and regions are recorded, and nothing reads them.
- Latched and locked modifiers, layouts and key repeat: decided by xkbcommon.
- The Lua functions other than `map_key`, what callbacks do, and the cached outputs and devices
  of the D-Bus object, which only mirror what they are told.
- Command line, logging and process set-up.

Worth adding next: the composition of `Surfaces` with `ShmPools`, for a commit whose buffer's
slot is used again.
