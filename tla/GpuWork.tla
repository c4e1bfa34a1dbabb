------------------------------- MODULE GpuWork -------------------------------
(***************************************************************************)
(* Drawing the outputs' pictures (crates/lumalla_renderer, lib.rs and      *)
(* vulkan/).  A presentation chooses the render device, makes the Vulkan   *)
(* context anew when it is on another, and for each output allocates an    *)
(* image, clears it, copies the surface's frame over it, waits for the     *)
(* device to be idle and hands the image to mode setting.                  *)
(*                                                                         *)
(* The GPU works off its queue on its own, may take longer than the second *)
(* the program waits on a fence, and may be lost.  Every call can fail;    *)
(* what was made is then freed by the destructors, or not.  Which cards    *)
(* are open and whether the modeset succeeds is the affair of SeatSession  *)
(* and Modesetting.                                                        *)
(***************************************************************************)
EXTENDS Integers, Sequences, FiniteSets

CONSTANTS
  Card,          \* numbers of the DRM primary nodes (card0, card1, ...)
  Gpu,           \* Vulkan devices, numbered in the order Vulkan lists them
  GpuType,       \* their type,
  GpuVersion,    \* the Vulkan version they offer,
  GpuNode,       \* and the device number of their primary node, or None
  CardNode,      \* device number of a card
  GraphicsGpu,   \* Vulkan devices with a graphics queue
  ExportingGpu,  \* and those with the extensions to export DMA-BUFs
  Output,        \* outputs, in the order of their names
  OutputCard,    \* the card of an output
  OutputSize,    \* its width and height in pixels
  Frames,        \* frames a client can commit
  MaxWork,       \* bound: images allocated
  MaxChanges,    \* bound: changes of cards, frames and the render device
  Undefined,     \* what is on an image that nothing was drawn on
  None

ASSUME NumberAssumption == Card \subseteq Nat /\ Gpu \subseteq Nat /\ Output \subseteq Nat
\* Vulkan packs a version's major number in 7 bits and its minor one in 10.
ASSUME GpuAssumption ==
  /\ GpuType \in [Gpu -> {"discrete", "integrated", "virtual", "cpu", "other"}]
  /\ GpuVersion \in [Gpu -> [major : 0 .. 127, minor : 0 .. 1023]]
  /\ GpuNode \in [Gpu -> Nat \cup {None}]
  /\ GraphicsGpu \subseteq Gpu /\ ExportingGpu \subseteq Gpu
\* No two cards have the same number.
ASSUME CardAssumption ==
  /\ CardNode \in [Card -> Nat]
  /\ \A c, d \in Card : CardNode[c] = CardNode[d] => c = d
ASSUME OutputAssumption ==
  /\ IsFiniteSet(Output)
  /\ OutputCard \in [Output -> Card]
  /\ OutputSize \in [Output -> [width : Nat \ {0}, height : Nat \ {0}]]
\* A frame's stride and length are in bytes; four bytes make a pixel.
ASSUME FrameAssumption ==
  Frames \subseteq [width : Nat, height : Nat, stride : Nat, length : Nat]
ASSUME BoundAssumption == MaxWork \in Nat /\ MaxChanges \in Nat
ASSUME NoneAssumption == None \notin Nat /\ None \notin Frames /\ None # Undefined
ASSUME UndefinedAssumption == Undefined \notin Frames

VARIABLES
  open,        \* DrmDevices.opened
  connected,   \* those of them with a connected connector
  changes,     \* changes so far
  render,      \* RendererState.render_device
  frame,       \* RendererState.active_surface_frame
  gpu,         \* RendererState.vulkan: the GPU of the context
  lost,        \* whether its device is lost
  objects,     \* its live objects, each with the image it was made for
  queue,       \* what was submitted to it and is not executed
  picture,     \* what was drawn on each image: a frame, or None for the colour
  scanouts,    \* RendererState.scanouts: the image each output shows
  phase,       \* what present_enabled_outputs is doing
  todo,        \* the targets still to present
  output,      \* the target of present_one_output
  work         \* and its image: the number of images so far

deviceVars == <<open, connected, changes, render, frame>>
gpuVars    == <<gpu, lost, objects, queue, picture>>
vars == <<deviceVars, gpuVars, scanouts, phase, todo, output, work>>

Image == 1 .. MaxWork

\* The kinds of objects made for an image.  "image" is the image with its memory
\* and view, "staging" the host buffer with the frame's pixels; each submission
\* has a command buffer and a fence.
Kind == {"image", "pass", "target", "clear buffer", "clear fence",
         "staging", "upload buffer", "upload fence"}

\* What needs a kind of object while it is pending.
UsesOf(kind) ==
  IF kind = "clear" THEN {"image", "pass", "target", "clear buffer", "clear fence"}
  ELSE {"image", "staging", "upload buffer", "upload fence"}

\* An upload is abandoned (history) once even the wait for an idle device has failed.
Submission == [kind : {"clear", "upload", "abandoned"}, image : Image,
               draws : Frames \cup {None}, width : Nat, height : Nat, bytes : Nat]

Phase == {"idle", "retire", "next", "pass", "target", "clear", "clearing", "upload", "uploading",
          "draining", "settle", "show"}

TypeOK ==
  /\ open \in SUBSET Card /\ connected \in SUBSET open
  /\ changes \in 0 .. MaxChanges
  /\ render \in Card \cup {None}
  /\ frame \in Frames \cup {None}
  /\ gpu \in Gpu \cup {None}
  /\ lost \in BOOLEAN
  /\ objects \in SUBSET (Kind \X Image)
  /\ queue \in Seq(Submission)
  /\ picture \in [Image -> Frames \cup {Undefined, None}]
  /\ scanouts \in [Output -> Image \cup {None}]
  /\ phase \in Phase
  /\ todo \in SUBSET Output
  /\ output \in Output \cup {None}
  /\ work \in 0 .. MaxWork

----------------------------------------------------------------------------
(* Choosing the GPU.                                                       *)

\* The card a GPU drives, found by its device number.
DrmPath(g) ==
  IF \E c \in Card : CardNode[c] = GpuNode[g]
  THEN CHOOSE c \in Card : CardNode[c] = GpuNode[g]
  ELSE None

TypeScore(type) ==
  CASE type = "discrete" -> 1000 [] type = "integrated" -> 100 [] type = "virtual" -> 50
    [] type = "cpu" -> 10 [] type = "other" -> 1

\* What driving the preferred path is worth: more than everything else together.
PathBonus == 10000

\* PhysicalDevice::score_device, with the bonus of the preferred path.
Score(g, path) ==
  TypeScore(GpuType[g]) + 10 * GpuVersion[g].major + GpuVersion[g].minor
    + (IF DrmPath(g) = path THEN PathBonus ELSE 0)

\* The first of the best that can draw.
SelectGpu(path) ==
  CHOOSE g \in GraphicsGpu : \A h \in GraphicsGpu :
    \/ Score(g, path) > Score(h, path)
    \/ Score(g, path) = Score(h, path) /\ g <= h

\* Device::new goes no further without the extensions, on the GPU that was selected.
ContextPossible(path) == GraphicsGpu # {} /\ SelectGpu(path) \in ExportingGpu

\* RendererState::auto_render_device_path: a card with a display, of low number.
AutoPath(cards, lit) ==
  LET score(c) == (IF c \in lit THEN 1000 ELSE 0) - c
  IN IF cards = {} THEN None ELSE CHOOSE c \in cards : \A d \in cards : score(c) >= score(d)

RenderPath(wanted, cards, lit) ==
  IF wanted \in cards THEN wanted ELSE AutoPath(cards, lit)

\* Mutation: a context is made once.
NeedsContextOnce(path) == gpu = None

\* ensure_vulkan: a context whose GPU drives no known card stays for good.
NeedsContext(path) ==
  \/ gpu = None
  \/ gpu # None /\ DrmPath(gpu) # None /\ DrmPath(gpu) # path

----------------------------------------------------------------------------
(* The frame's pixels.                                                     *)

\* Mutation: the rows are taken to be packed.
ValidPacked(f) ==
  /\ f.width > 0 /\ f.height > 0
  /\ f.stride >= 4 * f.width
  /\ f.length >= 4 * f.width * f.height

\* SurfaceFrame::validate.
Valid(f) ==
  /\ f.width > 0 /\ f.height > 0
  /\ f.stride >= 4 * f.width
  /\ f.length >= f.stride * f.height

Smaller(m, n) == IF m <= n THEN m ELSE n

\* prepare_surface_upload: the frame clipped to the output, its rows packed.
Upload(f, o) ==
  LET w == Smaller(f.width, OutputSize[o].width)
      h == Smaller(f.height, OutputSize[o].height)
  IN [kind |-> "upload", image |-> work, draws |-> f,
      width |-> w, height |-> h, bytes |-> 4 * w * h]

Clear == [kind |-> "clear", image |-> work, draws |-> None, bytes |-> 0,
          width |-> OutputSize[output].width, height |-> OutputSize[output].height]

----------------------------------------------------------------------------
(* A presentation.                                                         *)

Of(kinds, image) == {<<k, image>> : k \in kinds}

NoScanouts == [o \in Output |-> None]

\* The images of the scanout table are dropped with it.
Dropped == objects \ {<<"image", scanouts[o]>> : o \in Output}

\* present_enabled_outputs up to the first target, with the cards, the frame and
\* the render device as they are next.  The outputs go dark; the context is kept,
\* replaced, or cannot be made, which ends the presentation.
BeginPresent ==
  LET path == RenderPath(render', open', connected')
      lit == {o \in Output : OutputCard[o] \in connected'}
      chosen == {S \in SUBSET lit : work + Cardinality(S) <= MaxWork}
  IN /\ scanouts' = NoScanouts
     /\ UNCHANGED <<gpu, lost, queue, picture, output, work>>
     /\ \/ /\ path = None \/ NeedsContext(path)
           /\ objects' = Dropped
           /\ phase' = "idle"
           /\ UNCHANGED todo
        \/ /\ path # None /\ NeedsContext(path) /\ ContextPossible(path)
           /\ objects' = {b \in Dropped : b[1] \notin {"clear buffer", "upload buffer"}}
           /\ phase' = "retire"
           /\ todo' \in chosen
        \/ /\ path # None /\ ~NeedsContext(path)
           /\ objects' = Dropped
           /\ phase' = "next"
           /\ todo' \in chosen

\* The new context is made; the old one's command pool is destroyed, and its device
\* takes with it what it still had: work as well, if it could not wait for it.
Retire ==
  /\ phase = "retire"
  /\ queue' = <<>>
  /\ gpu' = SelectGpu(RenderPath(render, open, connected))
  /\ lost' = FALSE
  /\ objects' = {}
  /\ phase' = "next"
  /\ UNCHANGED <<deviceVars, picture, scanouts, todo, output, work>>

\* The output is given up: the destructors free what its image has, in any state,
\* except the kinds that leak.
GiveUp(leaked) ==
  /\ objects' = objects \ Of(Kind \ leaked, work)
  /\ phase' = "next"
  /\ output' = None
  /\ UNCHANGED <<deviceVars, gpu, lost, queue, picture, scanouts, todo, work>>

\* The next target's image.  A call that fails after vkCreateImage leaks it.
Allocate ==
  /\ phase = "next" /\ todo # {}
  /\ work' = work + 1
  /\ LET o == CHOOSE m \in todo : \A n \in todo : m <= n
     IN /\ todo' = todo \ {o}
        /\ \/ /\ objects' = objects \cup Of({"image"}, work')
              /\ output' = o
              /\ phase' = "pass"
           \/ /\ objects' \in {objects, objects \cup Of({"image"}, work')}
              /\ UNCHANGED <<phase, output>>
  /\ UNCHANGED <<deviceVars, gpu, lost, queue, picture, scanouts>>

\* RenderPass::new_for_scanout.
MakePass ==
  /\ phase = "pass"
  /\ \/ /\ objects' = objects \cup Of({"pass"}, work)
        /\ phase' = "target"
        /\ UNCHANGED <<deviceVars, gpu, lost, queue, picture, scanouts, todo, output, work>>
     \/ GiveUp({})

\* Framebuffer::from_view.
MakeTarget ==
  /\ phase = "target"
  /\ \/ /\ objects' = objects \cup Of({"target"}, work)
        /\ phase' = "clear"
        /\ UNCHANGED <<deviceVars, gpu, lost, queue, picture, scanouts, todo, output, work>>
     \/ GiveUp({})

\* clear_framebuffer_to_color up to the submission.
SubmitClear ==
  /\ phase = "clear" /\ ~lost
  /\ objects' = objects \cup Of({"clear buffer", "clear fence"}, work)
  /\ queue' = Append(queue, Clear)
  /\ phase' = "clearing"
  /\ UNCHANGED <<deviceVars, gpu, lost, picture, scanouts, todo, output, work>>

\* One of its calls fails: the command buffer, if there was one, leaks.
ClearRefused ==
  /\ phase = "clear"
  /\ \/ GiveUp({})
     \/ /\ objects' = (objects \ Of(Kind, work)) \cup Of({"clear buffer"}, work)
        /\ phase' = "next"
        /\ output' = None
        /\ UNCHANGED <<deviceVars, gpu, lost, queue, picture, scanouts, todo, work>>

Pending(image) == \E i \in DOMAIN queue : queue[i].image = image

\* The fence is signalled.
Cleared ==
  /\ phase = "clearing" /\ picture[work] = None
  /\ objects' = objects \ Of({"clear buffer", "clear fence"}, work)
  /\ phase' = IF frame = None THEN "settle" ELSE "upload"
  /\ UNCHANGED <<deviceVars, gpu, lost, queue, picture, scanouts, todo, output, work>>

\* A second passed, or the wait failed: what the clear uses is freed under it, and its
\* command buffer leaks.
ClearTimesOut == phase = "clearing" /\ GiveUp({"clear buffer"})

\* upload_bgra_to_image up to the submission.
SubmitUpload ==
  /\ phase = "upload" /\ ~lost
  /\ objects' = objects \cup Of({"staging", "upload buffer", "upload fence"}, work)
  /\ queue' = Append(queue, Upload(frame, output))
  /\ phase' = "uploading"
  /\ UNCHANGED <<deviceVars, gpu, lost, picture, scanouts, todo, output, work>>

\* Mutation: as the clear does, a failed upload leaves its command buffer.
UploadRefusedKeepsBuffer ==
  /\ phase = "upload"
  /\ objects' = (objects \ Of(Kind, work)) \cup Of({"upload buffer"}, work)
  /\ phase' = "next"
  /\ output' = None
  /\ UNCHANGED <<deviceVars, gpu, lost, queue, picture, scanouts, todo, work>>

\* Mutation: the picture is shown without its frame.
UploadRefusedGoesOn ==
  /\ phase = "upload"
  /\ phase' = "settle"
  /\ UNCHANGED <<deviceVars, gpuVars, scanouts, todo, output, work>>

\* One of its calls fails.
UploadRefused == phase = "upload" /\ GiveUp({})

Uploaded ==
  /\ phase = "uploading" /\ picture[work] = frame
  /\ objects' = objects \ Of({"staging", "upload buffer", "upload fence"}, work)
  /\ phase' = "settle"
  /\ UNCHANGED <<deviceVars, gpu, lost, queue, picture, scanouts, todo, output, work>>

\* Mutation: nobody waits.
UploadTimesOutFreesAtOnce == phase = "uploading" /\ GiveUp({})

\* A second passed, or the wait failed: before anything is freed the device is waited
\* for.
UploadTimesOut ==
  /\ phase = "uploading"
  /\ phase' = "draining"
  /\ UNCHANGED <<deviceVars, gpuVars, scanouts, todo, output, work>>

Drained == phase = "draining" /\ queue = <<>> /\ GiveUp({})

\* What becomes of the queue when the upload of the image at work is abandoned.
Abandoned ==
  [i \in DOMAIN queue |->
     IF queue[i].image = work THEN [queue[i] EXCEPT !.kind = "abandoned"] ELSE queue[i]]

\* For want of memory this wait can fail as well.  Its result is ignored, and what a
\* pending upload uses is freed all the same.
DrainFails ==
  /\ phase = "draining" /\ queue # <<>>
  /\ objects' = objects \ Of(Kind, work)
  /\ queue' = Abandoned
  /\ phase' = "next"
  /\ output' = None
  /\ UNCHANGED <<deviceVars, gpu, lost, picture, scanouts, todo, work>>

\* The device is idle; render pass and framebuffer are dropped.
WaitIdle ==
  /\ phase = "settle" /\ queue = <<>> /\ ~lost
  /\ objects' = objects \ Of({"pass", "target"}, work)
  /\ phase' = "show"
  /\ UNCHANGED <<deviceVars, gpu, lost, queue, picture, scanouts, todo, output, work>>

WaitIdleFails == phase = "settle" /\ GiveUp({})

\* The image is exported, imported and committed (Modesetting), and enters the table.
Show ==
  /\ phase = "show"
  /\ scanouts' = [scanouts EXCEPT ![output] = work]
  /\ phase' = "next"
  /\ output' = None
  /\ UNCHANGED <<deviceVars, gpuVars, todo, work>>

ShowFails == phase = "show" /\ GiveUp({})

PresentDone ==
  /\ phase = "next" /\ todo = {}
  /\ phase' = "idle"
  /\ UNCHANGED <<deviceVars, gpuVars, scanouts, todo, output, work>>

----------------------------------------------------------------------------
(* What starts a presentation.                                             *)

Change ==
  /\ phase = "idle" /\ changes < MaxChanges
  /\ changes' = changes + 1

\* Cards are opened or closed, or their connectors probed, and then the outputs
\* presented, unless a card could not be opened or probed or the session is gone.
\* Closing one drops the outputs first (deactivate_drm, reconcile_drm).
CardsChange(cards, lit) ==
  /\ Change
  /\ open' = cards
  /\ connected' = lit
  /\ UNCHANGED <<render, frame>>
  /\ \/ BeginPresent
     \/ /\ \/ scanouts' = NoScanouts /\ objects' = Dropped
           \/ open \subseteq cards /\ UNCHANGED <<scanouts, objects>>
        /\ UNCHANGED <<gpu, lost, queue, picture, phase, todo, output, work>>

PresentIfOpen ==
  IF open # {} THEN BeginPresent
  ELSE UNCHANGED <<gpuVars, scanouts, phase, todo, output, work>>

SetSurfaceFrame(f) ==
  /\ Change
  /\ Valid(f)
  /\ frame' = f
  /\ UNCHANGED <<open, connected, render>>
  /\ PresentIfOpen

\* The frame's surface or client is gone.
RemoveSurfaceFrame ==
  /\ frame # None
  /\ Change
  /\ frame' = None
  /\ UNCHANGED <<open, connected, render>>
  /\ PresentIfOpen

SetRenderDevice(path) ==
  /\ Change
  /\ render' = path
  /\ UNCHANGED <<open, connected, frame>>
  /\ PresentIfOpen

----------------------------------------------------------------------------
(* The GPU.                                                                *)

\* It executes what was submitted first.
Execute ==
  /\ queue # <<>> /\ ~lost
  /\ queue' = Tail(queue)
  /\ picture' = [picture EXCEPT ![Head(queue).image] = Head(queue).draws]
  /\ UNCHANGED <<deviceVars, gpu, lost, objects, scanouts, phase, todo, output, work>>

\* The device is lost, and what it had not executed with it.
DeviceLost ==
  /\ gpu # None /\ ~lost
  /\ lost' = TRUE
  /\ queue' = <<>>
  /\ UNCHANGED <<deviceVars, gpu, objects, picture, scanouts, phase, todo, output, work>>

----------------------------------------------------------------------------

Init ==
  /\ open = {} /\ connected = {}
  /\ changes = 0
  /\ render = None
  /\ frame = None
  /\ gpu = None
  /\ lost = FALSE
  /\ objects = {}
  /\ queue = <<>>
  /\ picture = [i \in Image |-> Undefined]
  /\ scanouts = NoScanouts
  /\ phase = "idle"
  /\ todo = {}
  /\ output = None
  /\ work = 0

Next ==
  \/ Retire
  \/ Allocate
  \/ MakePass
  \/ MakeTarget
  \/ SubmitClear
  \/ ClearRefused
  \/ Cleared
  \/ ClearTimesOut
  \/ SubmitUpload
  \/ UploadRefused
  \/ Uploaded
  \/ UploadTimesOut
  \/ Drained
  \/ DrainFails
  \/ WaitIdle
  \/ WaitIdleFails
  \/ Show
  \/ ShowFails
  \/ PresentDone
  \/ \E cards \in SUBSET Card : \E lit \in SUBSET cards : CardsChange(cards, lit)
  \/ \E f \in Frames : SetSurfaceFrame(f)
  \/ RemoveSurfaceFrame
  \/ \E c \in Card \cup {None} : SetRenderDevice(c)
  \/ Execute
  \/ DeviceLost

Spec == Init /\ [][Next]_vars

----------------------------------------------------------------------------
(* What the pictures promise.                                              *)

\* An output shows an image that is alive, that nothing pending draws on, and that
\* has what was to be shown: the active frame, or the clear colour without one.
\* Whatever fails or is late, an unfinished or an old picture is never lit
\* (present_one_output, present_enabled_outputs).
ShownAsAsked ==
  \A o \in Output : scanouts[o] # None =>
    /\ <<"image", scanouts[o]>> \in objects
    /\ ~Pending(scanouts[o])
    /\ picture[scanouts[o]] = frame

\* What a pending upload reads and writes is alive, and the copy lies inside the
\* output's image, the staging buffer and the frame's pixels: a wait that times out
\* or fails frees nothing before the device is idle, and only if the wait for that
\* fails too is the upload abandoned (upload_bgra_to_image).
UploadsKept ==
  \A i \in DOMAIN queue :
    LET s == queue[i]
    IN s.kind = "upload" =>
         /\ Of(UsesOf("upload"), s.image) \subseteq objects
         /\ output # None /\ s.image = work
         /\ s.width <= OutputSize[output].width /\ s.height <= OutputSize[output].height
         /\ (s.height - 1) * frame.stride + 4 * s.width <= frame.length
         /\ s.bytes >= 4 * s.width * s.height

\* Between presentations no fence, staging buffer, render pass, framebuffer or
\* upload's command buffer is left, whichever call failed (the destructors, and
\* the calls of free_command_buffers in upload_bgra_to_image).
TemporariesGone ==
  phase = "idle" =>
    \A k \in Kind \ {"image", "clear buffer"} : \A i \in Image : <<k, i>> \notin objects

\* Pictures are drawn by the GPU that drives the card chosen for rendering, if
\* Vulkan has it, unless the context is of a GPU that drives no card at all
\* (resolved_render_device_path, ensure_vulkan, PhysicalDevice::select).
PreferredUsed ==
  LET path == RenderPath(render, open, connected)
  IN phase \notin {"idle", "retire"} /\ DrmPath(gpu) # None
       /\ (\E g \in GraphicsGpu : DrmPath(g) = path) => DrmPath(gpu) = path
=============================================================================
