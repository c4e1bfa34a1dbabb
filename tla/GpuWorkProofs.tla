---------------------------- MODULE GpuWorkProofs ----------------------------
(***************************************************************************)
(* What the outputs show is finished, alive and what was asked for,        *)
(* nothing pending loses what it uses, nothing temporary is left and the   *)
(* preferred GPU draws, for all cards, GPUs, outputs and frames.           *)
(*                                                                         *)
(* The invariant says, for each stage of an output's work, which objects   *)
(* its image has, what was drawn on it and what is pending on it.  Clears  *)
(* that timed out and uploads that were abandoned stay in the queue, but   *)
(* never of an image that is shown, and no image has two submissions.      *)
(***************************************************************************)
EXTENDS GpuWork, FiniteSetTheorems, WellFoundedInduction, TLAPS

\* The phases in which present_one_output has an image.
Busy == Phase \ {"idle", "retire", "next"}

\* Temporary objects of the image that may be there in a phase.
Temporaries(p) ==
  CASE p = "target" -> {"pass"}
    [] p \in {"clear", "upload", "settle"} -> {"pass", "target"}
    [] p = "clearing" -> {"pass", "target", "clear fence"}
    [] p \in {"uploading", "draining"} ->
         {"pass", "target", "staging", "upload buffer", "upload fence"}
    [] p \in {"idle", "retire", "next", "pass", "show"} -> {}

OnlyTemporary ==
  \A k \in Kind \ {"image", "clear buffer"}, i \in Image :
    <<k, i>> \in objects => i = work /\ k \in Temporaries(phase)

Path == RenderPath(render, open, connected)

\* There are images enough for the targets, and cards and frames are what they were
\* taken for.
Ready ==
  /\ work + Cardinality(todo) <= MaxWork
  /\ frame # None => Valid(frame)
  /\ open = {} => scanouts = NoScanouts
  /\ phase # "idle" => open # {}
  /\ phase = "retire" => scanouts = NoScanouts /\ Path # None /\ GraphicsGpu # {}

\* The image at work is the last one, alive and not shown.
Working ==
  phase \in Busy =>
    /\ output \in Output /\ work \in Image /\ <<"image", work>> \in objects
    /\ \A o \in Output : scanouts[o] # work

\* Every image has one submission in the queue, the uploads are the present one.
Queued ==
  /\ \A i \in DOMAIN queue :
       /\ queue[i].image <= work
       /\ queue[i].kind = "clear" => queue[i].draws = None
       /\ queue[i].kind = "upload" =>
            phase \in {"uploading", "draining"} /\ queue[i] = Upload(frame, output)
  /\ \A i, j \in DOMAIN queue : queue[i].image = queue[j].image => i = j

\* What was drawn on the image at work, and what is pending on it.
Stage ==
  /\ phase \in {"pass", "target", "clear"} => picture[work] = Undefined /\ ~Pending(work)
  /\ phase = "clearing" =>
       /\ picture[work] \in {Undefined, None} /\ (picture[work] = None => ~Pending(work))
       /\ \A i \in DOMAIN queue : queue[i].image = work => queue[i].kind = "clear"
  /\ phase = "upload" => frame # None /\ picture[work] = None /\ ~Pending(work)
  /\ phase \in {"uploading", "draining"} =>
       /\ frame # None
       /\ picture[work] # None => ~Pending(work)
       /\ \A i \in DOMAIN queue : queue[i].image = work => queue[i].kind = "upload"
       /\ Of(UsesOf("upload"), work) \subseteq objects
  /\ phase \in {"settle", "show"} => picture[work] = frame /\ ~Pending(work)

\* Nothing was drawn on the images to come, and none of them is shown.
Fresh ==
  /\ \A i \in Image : i > work => picture[i] = Undefined
  /\ \A o \in Output : scanouts[o] # None => scanouts[o] <= work

IInv ==
  /\ TypeOK
  /\ Ready
  /\ OnlyTemporary
  /\ Working
  /\ Queued
  /\ Stage
  /\ Fresh
  /\ ShownAsAsked
  /\ PreferredUsed

----------------------------------------------------------------------------
(* Choices and numbers.                                                    *)

\* A set of numbers has a lowest.
LEMMA Minimum ==
  ASSUME NEW S \in SUBSET Nat, S # {}
  PROVE  \E n \in S : \A m \in S : n <= m
<1>1. PICK n \in S : \A m \in S : <<m, n>> \notin OpToRel(<, Nat)
  BY NatLessThanWellFounded, WFMin
<1>2. \A m \in S : n <= m
  <2> SUFFICES ASSUME NEW m \in S PROVE n <= m
    OBVIOUS
  <2>1. ~(m < n)
    BY <1>1 DEF OpToRel
  <2>2. QED
    BY <2>1
<1>3. QED
  BY <1>2

LEMMA BonusNumber == PathBonus \in Nat
BY DEF PathBonus

\* A score is below the bonus without it and at least that with it.
LEMMA Scores ==
  ASSUME NEW g \in Gpu, NEW path
  PROVE  \E s \in Nat : /\ s = Score(g, path) /\ s < PathBonus + PathBonus
                        /\ (DrmPath(g) = path <=> s >= PathBonus)
<1>1. /\ GpuVersion[g].major \in 0 .. 127 /\ GpuVersion[g].minor \in 0 .. 1023
      /\ GpuType[g] \in {"discrete", "integrated", "virtual", "cpu", "other"}
  BY GpuAssumption
<1>2. TypeScore(GpuType[g]) \in 0 .. 1000
  BY <1>1 DEF TypeScore
<1> DEFINE t == TypeScore(GpuType[g])
           m == GpuVersion[g].major
           n == GpuVersion[g].minor
           q == t + 10 * m + n
\* The largest type, major and minor number together are below the bonus.
<1>3. q \in Nat /\ q < PathBonus
  <2>1. t \in 0 .. 1000 /\ m \in 0 .. 127 /\ n \in 0 .. 1023
    <3>1. t \in 0 .. 1000
      BY <1>2
    <3>2. m \in 0 .. 127
      BY <1>1
    <3>3. n \in 0 .. 1023
      BY <1>1
    <3> HIDE DEF t, m, n
    <3>4. QED
      BY <3>1, <3>2, <3>3
  <2> HIDE DEF t, m, n
  <2>2. t \in Nat /\ t <= 1000
    BY <2>1
  <2>3. 10 * m \in Nat /\ 10 * m <= 1270
    BY <2>1
  <2>4. n \in Nat /\ n <= 1023
    BY <2>1
  <2>5. q \in Nat /\ q <= 3293
    BY <2>2, <2>3, <2>4
  <2> HIDE DEF q
  <2>6. QED
    BY <2>5 DEF PathBonus
<1> HIDE DEF q
<1>4. PICK p \in Nat, b \in Nat : p = q /\ b = PathBonus /\ p < b
  BY <1>3, BonusNumber
<1>5. CASE DrmPath(g) = path
  <2>1. Score(g, path) = p + b
    BY <1>4, <1>5 DEF Score, q, t, m, n
  <2>2. p + b \in Nat /\ p + b < b + b /\ p + b >= b
    BY <1>4
  <2>3. QED
    BY <1>4, <1>5, <2>1, <2>2
<1>6. CASE DrmPath(g) # path
  <2>1. Score(g, path) = p + 0
    BY <1>4, <1>6 DEF Score, q, t, m, n
  <2>2. p + 0 \in Nat /\ p + 0 < b + b /\ ~(p + 0 >= b)
    BY <1>4
  <2>3. QED
    BY <1>4, <1>6, <2>1, <2>2
<1>7. QED
  BY <1>5, <1>6

\* A selected GPU is a GPU, and drives the path if one of them does.
LEMMA Selects ==
  ASSUME GraphicsGpu # {}, NEW path
  PROVE  /\ SelectGpu(path) \in Gpu
         /\ (\E g \in GraphicsGpu : DrmPath(g) = path) => DrmPath(SelectGpu(path)) = path
<1>1. PICK score \in [GraphicsGpu -> Nat] : \A g \in GraphicsGpu :
        /\ score[g] < PathBonus + PathBonus /\ score[g] = Score(g, path)
        /\ (DrmPath(g) = path <=> score[g] >= PathBonus)
  <2> DEFINE score == [g \in GraphicsGpu |-> Score(g, path)]
  <2>1. ASSUME NEW g \in GraphicsGpu
        PROVE  /\ score[g] \in Nat /\ score[g] < PathBonus + PathBonus
               /\ score[g] = Score(g, path)
               /\ (DrmPath(g) = path <=> score[g] >= PathBonus)
    <3>1. g \in Gpu
      BY GpuAssumption
    <3>2. QED
      BY <3>1, Scores
  <2>2. score \in [GraphicsGpu -> Nat]
    BY <2>1
  <2> HIDE DEF score
  <2>3. QED
    BY <2>1, <2>2
<1>b. PICK top \in Nat : top = PathBonus + PathBonus
  BY BonusNumber
<1> DEFINE lacks == {top - score[g] : g \in GraphicsGpu}
<1>2. PICK l \in lacks : \A m \in lacks : l <= m
  <2>1. ASSUME NEW g \in GraphicsGpu PROVE top - score[g] \in Nat
    BY <1>1, <1>b
  <2>2. lacks \in SUBSET Nat /\ lacks # {}
    BY <2>1
  <2> HIDE DEF lacks
  <2>3. QED
    BY <2>2, Minimum
<1>3. PICK t \in GraphicsGpu : l = top - score[t]
  BY <1>2
<1>4. ASSUME NEW h \in GraphicsGpu PROVE score[h] <= score[t]
  <2>1. l <= top - score[h]
    BY <1>2
  <2>2. score[h] \in Nat /\ score[t] \in Nat
    BY <1>1
  <2>3. QED
    BY <1>3, <2>1, <2>2
<1> DEFINE tops == {g \in GraphicsGpu : score[g] = score[t]}
<1>5. PICK b \in tops : \A g \in tops : b <= g
  <2>1. tops \subseteq GraphicsGpu /\ t \in tops
    OBVIOUS
  <2>2. tops \in SUBSET Nat /\ tops # {}
    BY <2>1, GpuAssumption, NumberAssumption
  <2>3. QED
    BY <2>2, Minimum
<1> DEFINE Best(g) == \A h \in GraphicsGpu :
             score[g] > score[h] \/ (score[g] = score[h] /\ g <= h)
<1>6. b \in GraphicsGpu /\ Best(b)
  <2> SUFFICES ASSUME NEW h \in GraphicsGpu
               PROVE  score[b] > score[h] \/ (score[b] = score[h] /\ b <= h)
    BY <1>5
  <2>1. score[h] <= score[t] /\ score[h] \in Nat /\ score[t] \in Nat
    BY <1>1, <1>4
  <2>2. CASE score[h] = score[t]
    BY <1>5, <2>2
  <2>3. CASE score[h] # score[t]
    BY <1>5, <2>1, <2>3
  <2>4. QED
    BY <2>2, <2>3
<1>7. SelectGpu(path) = CHOOSE g \in GraphicsGpu : Best(g)
  BY <1>1 DEF SelectGpu
<1>8. SelectGpu(path) \in GraphicsGpu /\ Best(SelectGpu(path))
  <2> HIDE DEF Best
  <2>1. QED
    BY <1>6, <1>7
<1>9. PICK s \in GraphicsGpu : s = SelectGpu(path) /\ Best(s)
  BY <1>8
<1>10. ASSUME NEW h \in GraphicsGpu, DrmPath(h) = path
       PROVE  DrmPath(s) = path
  <2>1. score[h] >= PathBonus /\ score[h] \in Nat /\ score[s] \in Nat /\ PathBonus \in Nat
    BY <1>1, <1>10, BonusNumber
  <2>2. score[s] >= score[h]
    BY <1>9, <2>1
  <2>3. QED
    BY <1>1, <2>1, <2>2
<1>11. QED
  BY <1>9, <1>10, GpuAssumption

\* More rows of a length take no less.
LEMMA Rows ==
  ASSUME NEW m \in Nat, NEW n \in Nat, NEW l \in Nat, m <= n
  PROVE  m * l <= n * l /\ m * l \in Nat
<1>1. n * l = m * l + (n - m) * l
  OBVIOUS
<1>2. (n - m) * l >= 0 /\ m * l >= 0
  OBVIOUS
<1>3. QED
  BY <1>1, <1>2

\* What an upload copies lies inside the frame, the output and the staging buffer.
LEMMA UploadFits ==
  ASSUME NEW f \in Frames, Valid(f), NEW o \in Output, NEW s, s = Upload(f, o), work \in Image
  PROVE  /\ s \in Submission /\ s.kind = "upload" /\ s.image = work /\ s.draws = f
         /\ s.width <= OutputSize[o].width /\ s.height <= OutputSize[o].height
         /\ (s.height - 1) * f.stride + 4 * s.width <= f.length
         /\ s.bytes >= 4 * s.width * s.height
<1> DEFINE w == Smaller(f.width, OutputSize[o].width)
           h == Smaller(f.height, OutputSize[o].height)
<1>1. /\ f.width \in Nat /\ f.height \in Nat /\ f.stride \in Nat /\ f.length \in Nat
      /\ OutputSize[o].width \in Nat \ {0} /\ OutputSize[o].height \in Nat \ {0}
  BY FrameAssumption, OutputAssumption
<1>2. /\ f.width > 0 /\ f.height > 0 /\ f.stride >= 4 * f.width
      /\ f.length >= f.stride * f.height
  BY DEF Valid
<1>3. /\ w \in Nat /\ h \in Nat /\ h > 0 /\ w <= f.width /\ h <= f.height
      /\ w <= OutputSize[o].width /\ h <= OutputSize[o].height
  BY <1>1, <1>2 DEF Smaller
<1>4. s = [kind |-> "upload", image |-> work, draws |-> f, width |-> w, height |-> h,
           bytes |-> 4 * w * h]
  BY DEF Upload
<1> HIDE DEF w, h
<1>5. 4 * w * h \in Nat
  <2>1. 4 * w \in Nat
    BY <1>3
  <2>2. QED
    BY <1>3, <2>1, Rows
<1>6. (h - 1) * f.stride + 4 * w <= f.length
  <2>1. h * f.stride <= f.height * f.stride
    BY <1>1, <1>3, Rows
  <2>2. (h - 1) * f.stride = h * f.stride - f.stride
    BY <1>1, <1>3
  <2>3. f.height * f.stride = f.stride * f.height
    BY <1>1
  <2>4. /\ h * f.stride \in Nat /\ f.height * f.stride \in Nat
    BY <1>1, <1>3, Rows
  <2>5. QED
    BY <1>1, <1>2, <1>3, <2>1, <2>2, <2>3, <2>4
<1>7. s \in Submission
  BY <1>3, <1>4, <1>5 DEF Submission
<1>8. QED
  BY <1>3, <1>4, <1>5, <1>6, <1>7

----------------------------------------------------------------------------
(* Between presentations.                                                  *)

LEMMA Member ==
  ASSUME NEW S, NEW n
  PROVE  \A k, i : <<k, i>> \in Of(S, n) <=> k \in S /\ i = n
BY DEF Of

\* The variables that a step between two presentations changes have their types.
Devices ==
  /\ open \in SUBSET Card /\ connected \in SUBSET open
  /\ changes \in 0 .. MaxChanges
  /\ render \in Card \cup {None}
  /\ frame \in Frames \cup {None}
  /\ frame # None => Valid(frame)

LEMMA DevicesTyped == IInv => Devices
BY DEF IInv, TypeOK, Ready, Devices

LEMMA IdleStep ==
  ASSUME IInv, phase = "idle", Devices',
         UNCHANGED <<gpu, lost, queue, picture, output, work>>,
         objects' \subseteq objects,
         phase' \in {"idle", "retire", "next"},
         todo' \subseteq Output, work + Cardinality(todo') <= MaxWork,
         \/ scanouts' = NoScanouts
         \/ scanouts' = scanouts /\ frame' = frame /\ objects' = objects
              /\ (open' = {} => open = {}),
         phase' # "idle" => open' # {} /\ scanouts' = NoScanouts,
         phase' = "retire" => Path' # None /\ GraphicsGpu # {},
         PreferredUsed'
  PROVE  IInv'
<1>1. scanouts' \in [Output -> Image \cup {None}]
  BY DEF IInv, TypeOK, NoScanouts
<1>2. TypeOK'
  BY <1>1 DEF IInv, TypeOK, Devices, Phase
<1>3. open' = {} => scanouts' = NoScanouts
  BY DEF IInv, Ready
<1>4. Ready'
  BY <1>3 DEF Ready, Devices
<1>5. OnlyTemporary'
  <2>1. \A k \in Kind \ {"image", "clear buffer"}, i \in Image : <<k, i>> \notin objects
    BY DEF IInv, OnlyTemporary, Temporaries
  <2>2. QED
    BY <2>1 DEF OnlyTemporary
<1>6. Working' /\ Stage'
  BY DEF Working, Stage, Busy
<1>7. Queued'
  BY DEF IInv, Queued
<1>8. Fresh'
  BY DEF IInv, Fresh, NoScanouts
<1>9. ShownAsAsked'
  BY DEF IInv, ShownAsAsked, Pending, NoScanouts
<1>10. QED
  BY <1>2, <1>4, <1>5, <1>6, <1>7, <1>8, <1>9 DEF IInv

LEMMA BeginStep ==
  ASSUME IInv, phase = "idle", Devices', BeginPresent
  PROVE  IInv'
<1> DEFINE lit == {o \in Output : OutputCard[o] \in connected'}
           chosen == {S \in SUBSET lit : work + Cardinality(S) <= MaxWork}
<1>1. /\ scanouts' = NoScanouts
      /\ UNCHANGED <<gpu, lost, queue, picture, output, work>>
      /\ \/ objects' = Dropped /\ phase' = "idle" /\ todo' = todo
         \/ /\ Path' # None /\ ContextPossible(Path') /\ phase' = "retire" /\ todo' \in chosen
            /\ objects' = {b \in Dropped : b[1] \notin {"clear buffer", "upload buffer"}}
         \/ /\ Path' # None /\ ~NeedsContext(Path') /\ phase' = "next" /\ todo' \in chosen
            /\ objects' = Dropped
  BY DEF BeginPresent, Path
<1>2. objects' \subseteq objects /\ phase' \in {"idle", "retire", "next"}
  BY <1>1 DEF Dropped
<1>3. todo' \subseteq Output /\ work + Cardinality(todo') <= MaxWork
  BY <1>1 DEF IInv, TypeOK, Ready
<1>4. Path' # None => open' # {}
  BY DEF Path, RenderPath, AutoPath
<1>5. phase' = "retire" => Path' # None /\ GraphicsGpu # {}
  BY <1>1 DEF ContextPossible
<1>6. PreferredUsed'
  <2>1. CASE phase' \in {"idle", "retire"}
    BY <2>1 DEF PreferredUsed
  <2>2. CASE ~NeedsContext(Path')
    <3>1. DrmPath(gpu) # None => DrmPath(gpu) = Path'
      BY <2>2 DEF NeedsContext
    <3>2. DrmPath(gpu)' = DrmPath(gpu)
      BY <1>1 DEF DrmPath
    <3>3. QED
      BY <3>1, <3>2 DEF PreferredUsed, Path
  <2>3. QED
    BY <1>1, <2>1, <2>2
<1>7. phase' # "idle" => open' # {} /\ scanouts' = NoScanouts
  BY <1>1, <1>4
<1> HIDE DEF lit, chosen
<1>8. QED
  BY <1>1, <1>2, <1>3, <1>5, <1>6, <1>7, IdleStep

LEMMA CardsChangeStep ==
  ASSUME IInv, NEW cards \in SUBSET Card, NEW shown \in SUBSET cards, CardsChange(cards, shown)
  PROVE  IInv'
<1>1. /\ phase = "idle" /\ changes < MaxChanges /\ changes' = changes + 1
      /\ open' = cards /\ connected' = shown /\ UNCHANGED <<render, frame>>
  BY DEF CardsChange, Change
<1>2. Devices'
  BY <1>1, DevicesTyped, BoundAssumption DEF Devices
<1>3. CASE BeginPresent
  BY <1>1, <1>2, <1>3, BeginStep
<1>4. CASE /\ \/ scanouts' = NoScanouts /\ objects' = Dropped
              \/ open \subseteq cards /\ UNCHANGED <<scanouts, objects>>
           /\ UNCHANGED <<gpu, lost, queue, picture, phase, todo, output, work>>
  <2>1. /\ objects' \subseteq objects /\ todo' \subseteq Output
        /\ work + Cardinality(todo') <= MaxWork /\ PreferredUsed'
    BY <1>1, <1>4 DEF Dropped, IInv, TypeOK, Ready, PreferredUsed
  <2>2. QED
    BY <1>1, <1>2, <1>4, <2>1, IdleStep
<1>5. QED
  BY <1>3, <1>4 DEF CardsChange

LEMMA PresentIfOpenStep ==
  ASSUME IInv, phase = "idle", Devices', open' = open, PresentIfOpen
  PROVE  IInv'
<1>1. CASE open # {}
  BY <1>1, BeginStep DEF PresentIfOpen
<1>2. CASE open = {}
  <2>1. UNCHANGED <<gpu, lost, objects, queue, picture, scanouts, phase, todo, output, work>>
    BY <1>2 DEF PresentIfOpen, gpuVars
  <2>2. scanouts' = NoScanouts /\ todo' \subseteq Output /\ work + Cardinality(todo') <= MaxWork
    BY <1>2, <2>1 DEF IInv, TypeOK, Ready
  <2>3. PreferredUsed'
    BY <2>1 DEF PreferredUsed
  <2>4. QED
    BY <2>1, <2>2, <2>3, IdleStep
<1>3. QED
  BY <1>1, <1>2

LEMMA SetSurfaceFrameStep ==
  ASSUME IInv, NEW f \in Frames, SetSurfaceFrame(f)
  PROVE  IInv'
<1>1. /\ phase = "idle" /\ changes < MaxChanges /\ changes' = changes + 1 /\ Valid(f)
      /\ frame' = f /\ UNCHANGED <<open, connected, render>> /\ PresentIfOpen
  BY DEF SetSurfaceFrame, Change
<1>2. Devices'
  BY <1>1, DevicesTyped, BoundAssumption DEF Devices
<1>3. QED
  BY <1>1, <1>2, PresentIfOpenStep

LEMMA RemoveSurfaceFrameStep ==
  ASSUME IInv, RemoveSurfaceFrame
  PROVE  IInv'
<1>1. /\ phase = "idle" /\ changes < MaxChanges /\ changes' = changes + 1
      /\ frame' = None /\ UNCHANGED <<open, connected, render>> /\ PresentIfOpen
  BY DEF RemoveSurfaceFrame, Change
<1>2. Devices'
  BY <1>1, DevicesTyped, BoundAssumption DEF Devices
<1>3. QED
  BY <1>1, <1>2, PresentIfOpenStep

LEMMA SetRenderDeviceStep ==
  ASSUME IInv, NEW c \in Card \cup {None}, SetRenderDevice(c)
  PROVE  IInv'
<1>1. /\ phase = "idle" /\ changes < MaxChanges /\ changes' = changes + 1
      /\ render' = c /\ UNCHANGED <<open, connected, frame>> /\ PresentIfOpen
  BY DEF SetRenderDevice, Change
<1>2. Devices'
  BY <1>1, DevicesTyped, BoundAssumption DEF Devices
<1>3. QED
  BY <1>1, <1>2, PresentIfOpenStep

----------------------------------------------------------------------------
(* Between the outputs of a presentation.                                  *)

LEMMA RetireStep ==
  ASSUME IInv, Retire
  PROVE  IInv'
<1>1. /\ phase = "retire" /\ queue' = <<>> /\ gpu' = SelectGpu(Path) /\ lost' = FALSE
      /\ objects' = {} /\ phase' = "next"
      /\ UNCHANGED <<open, connected, changes, render, frame, picture, scanouts, todo,
                     output, work>>
  BY DEF Retire, deviceVars, Path
<1>2. scanouts = NoScanouts /\ Path # None /\ GraphicsGpu # {}
  BY <1>1 DEF IInv, Ready
<1>3. /\ gpu' \in Gpu
      /\ (\E g \in GraphicsGpu : DrmPath(g) = Path) => DrmPath(gpu') = Path
  BY <1>1, <1>2, Selects
<1>4. TypeOK'
  <2>1. queue' \in Seq(Submission)
    BY <1>1
  <2>2. QED
    BY <1>1, <1>3, <2>1 DEF IInv, TypeOK, Phase
<1>5. Ready'
  BY <1>1 DEF IInv, Ready
<1>6. OnlyTemporary' /\ Working' /\ Stage'
  BY <1>1 DEF OnlyTemporary, Working, Stage, Busy
<1>7. Queued'
  BY <1>1 DEF Queued
<1>8. Fresh' /\ ShownAsAsked'
  BY <1>1, <1>2 DEF IInv, Fresh, ShownAsAsked, NoScanouts
<1>9. PreferredUsed'
  <2>1. Path' = Path /\ DrmPath(gpu)' = DrmPath(gpu')
    BY <1>1 DEF Path, RenderPath, AutoPath, DrmPath
  <2>2. PreferredUsed' <=>
          ((phase' \notin {"idle", "retire"} /\ DrmPath(gpu)' # None
              /\ (\E g \in GraphicsGpu : DrmPath(g) = Path')) => DrmPath(gpu)' = Path')
    BY DEF PreferredUsed, Path
  <2>3. QED
    BY <1>3, <2>1, <2>2
<1>10. QED
  BY <1>4, <1>5, <1>6, <1>7, <1>8, <1>9 DEF IInv

LEMMA AllocateStep ==
  ASSUME IInv, Allocate
  PROVE  IInv'
<1> DEFINE o == CHOOSE m \in todo : \A n \in todo : m <= n
<1>1. /\ phase = "next" /\ todo # {} /\ work' = work + 1 /\ todo' = todo \ {o}
      /\ UNCHANGED <<open, connected, changes, render, frame, gpu, lost, queue, picture, scanouts>>
      /\ \/ /\ objects' = objects \cup Of({"image"}, work')
            /\ output' = o /\ phase' = "pass"
         \/ /\ objects' = objects \/ objects' = objects \cup Of({"image"}, work')
            /\ phase' = phase /\ output' = output
  BY DEF Allocate, deviceVars
<1>2. o \in todo /\ todo \subseteq Output /\ work \in 0 .. MaxWork /\ MaxWork \in Nat
  <2>1. todo \in SUBSET Nat /\ todo \subseteq Output /\ work \in 0 .. MaxWork /\ MaxWork \in Nat
    BY NumberAssumption, BoundAssumption DEF IInv, TypeOK
  <2>2. \E m \in todo : \A n \in todo : m <= n
    BY <1>1, <2>1, Minimum
  <2>3. QED
    BY <2>1, <2>2
<1> HIDE DEF o
<1>3. /\ Cardinality(todo) \in Nat /\ Cardinality(todo') = Cardinality(todo) - 1
      /\ Cardinality(todo') \in Nat /\ work + Cardinality(todo) <= MaxWork
  <2>1. IsFiniteSet(todo)
    BY <1>2, OutputAssumption, FS_Subset
  <2>2. IsFiniteSet(todo') /\ Cardinality(todo') = Cardinality(todo) - 1
    BY <1>1, <1>2, <2>1, FS_RemoveElement
  <2>3. QED
    BY <2>1, <2>2, FS_CardinalityType DEF IInv, Ready
<1>4. work' \in Image /\ work' \in 0 .. MaxWork /\ work' > work /\ work' \notin 1 .. work
  BY <1>1, <1>2, <1>3 DEF Image
<1>5. \A k, i : <<k, i>> \in Of({"image"}, work') <=> k = "image" /\ i = work'
  BY DEF Of
<1>6. Of({"image"}, work') \subseteq Kind \X Image
  <2>1. <<"image", work'>> \in Kind \X Image
    BY <1>4 DEF Kind
  <2>2. Of({"image"}, work') = {<<"image", work'>>}
    BY DEF Of
  <2>3. QED
    BY <2>1, <2>2
<1>7. TypeOK'
  BY <1>1, <1>2, <1>4, <1>6 DEF IInv, TypeOK, Phase
<1>8. Ready'
  BY <1>1, <1>2, <1>3 DEF IInv, Ready
<1>9. OnlyTemporary'
  <2>1. \A k \in Kind \ {"image", "clear buffer"}, i \in Image : <<k, i>> \notin objects
    BY <1>1 DEF IInv, OnlyTemporary, Temporaries
  <2>2. \A k \in Kind \ {"image", "clear buffer"}, i \in Image : <<k, i>> \notin objects'
    BY <1>1, <1>5, <2>1
  <2>3. QED
    BY <2>2 DEF OnlyTemporary
<1>10. Working'
  <2>1. \A p \in Output : scanouts[p] # work'
    BY <1>1, <1>2, <1>4, NoneAssumption DEF IInv, TypeOK, Fresh, Image
  <2>2. phase' \in Busy => output' \in Output /\ <<"image", work'>> \in objects'
    BY <1>1, <1>2, <1>5 DEF Busy
  <2>3. QED
    BY <1>1, <1>4, <2>1, <2>2 DEF Working
<1>11. ASSUME NEW i \in DOMAIN queue
       PROVE  queue[i].image \in Image /\ queue[i].image <= work
  <2>1. queue[i] \in Submission
    BY DEF IInv, TypeOK
  <2>2. QED
    BY <2>1 DEF IInv, Queued, Submission
<1>12. Queued'
  BY <1>1, <1>2, <1>4, <1>11 DEF IInv, Queued, Image
<1>13. Stage'
  <2>1. picture[work'] = Undefined
    BY <1>2, <1>4 DEF IInv, Fresh
  <2>2. \A i \in DOMAIN queue : queue[i].image # work'
    BY <1>2, <1>4, <1>11 DEF Image
  <2>3. QED
    BY <1>1, <2>1, <2>2 DEF Stage, Pending
<1>14. Fresh'
  BY <1>1, <1>2, <1>4 DEF IInv, TypeOK, Fresh, Image
<1>15. ShownAsAsked'
  BY <1>1 DEF IInv, ShownAsAsked, Pending
<1>16. PreferredUsed'
  BY <1>1 DEF IInv, PreferredUsed
<1>17. QED
  BY <1>7, <1>8, <1>9, <1>10, <1>12, <1>13, <1>14, <1>15, <1>16 DEF IInv

LEMMA PresentDoneStep ==
  ASSUME IInv, PresentDone
  PROVE  IInv'
<1>1. /\ phase = "next" /\ phase' = "idle"
      /\ UNCHANGED <<open, connected, changes, render, frame, gpu, lost, objects, queue, picture,
                     scanouts, todo, output, work>>
  BY DEF PresentDone, deviceVars, gpuVars
<1>2. TypeOK'
  BY <1>1 DEF IInv, TypeOK, Phase
<1>3. Ready'
  BY <1>1 DEF IInv, Ready
<1>4. OnlyTemporary'
  BY <1>1 DEF IInv, OnlyTemporary, Temporaries
<1>5. Working' /\ Stage' /\ PreferredUsed'
  BY <1>1 DEF Working, Stage, Busy, PreferredUsed
<1>6. Queued'
  BY <1>1 DEF IInv, Queued
<1>7. Fresh' /\ ShownAsAsked'
  BY <1>1 DEF IInv, Fresh, ShownAsAsked, Pending
<1>8. QED
  BY <1>2, <1>3, <1>4, <1>5, <1>6, <1>7 DEF IInv

LEMMA DeviceLostStep ==
  ASSUME IInv, DeviceLost
  PROVE  IInv'
<1>1. /\ lost' = TRUE /\ queue' = <<>>
      /\ UNCHANGED <<open, connected, changes, render, frame, gpu, objects, picture,
                     scanouts, phase, todo, output, work>>
  BY DEF DeviceLost, deviceVars
<1>2. TypeOK'
  BY <1>1 DEF IInv, TypeOK
<1>3. Ready'
  BY <1>1 DEF IInv, Ready, Path
<1>4. OnlyTemporary' /\ Working' /\ Fresh'
  BY <1>1 DEF IInv, OnlyTemporary, Working, Fresh
<1>5. Queued' /\ \A i : ~Pending(i)'
  BY <1>1 DEF Queued, Pending
<1>6. Stage'
  BY <1>1, <1>5 DEF IInv, Stage
<1>7. ShownAsAsked'
  BY <1>1, <1>5 DEF IInv, ShownAsAsked
<1>8. PreferredUsed'
  BY <1>1 DEF IInv, PreferredUsed
<1>9. QED
  BY <1>2, <1>3, <1>4, <1>5, <1>6, <1>7, <1>8 DEF IInv

----------------------------------------------------------------------------
(* The work on an output.                                                  *)

\* What is known while there is an image.
LEMMA BusyFacts ==
  ASSUME IInv, phase \in Busy
  PROVE  /\ output \in Output /\ work \in Image /\ <<"image", work>> \in objects
         /\ objects \in SUBSET (Kind \X Image)
         /\ \A k \in Kind \ {"image", "clear buffer"}, i \in Image :
              <<k, i>> \in objects => i = work /\ k \in Temporaries(phase)
         /\ \A i \in DOMAIN queue : queue[i] \in Submission
<1>1. queue \in Seq(Submission) /\ objects \in SUBSET (Kind \X Image)
  BY DEF IInv, TypeOK
<1>2. \A i \in DOMAIN queue : queue[i] \in Submission
  BY <1>1
<1>3. QED
  BY <1>1, <1>2 DEF IInv, Working, OnlyTemporary

\* One object, and one more of them.
LEMMA OneOf ==
  ASSUME NEW k \in Kind, work \in Image
  PROVE  Of({k}, work) = {<<k, work>>} /\ Of({k}, work) \subseteq Kind \X Image
<1>1. <<k, work>> \in Kind \X Image
  OBVIOUS
<1>2. Of({k}, work) = {<<k, work>>}
  BY DEF Of
<1>3. QED
  BY <1>1, <1>2

LEMMA SomeOf ==
  ASSUME NEW S \in SUBSET Kind, work \in Image
  PROVE  Of(S, work) \subseteq Kind \X Image
BY DEF Of

\* An output is given up: nothing of its image stays, but a clear's command buffer, and
\* of the queue only the kinds of submissions may change.
LEMMA Leaves ==
  ASSUME IInv, phase \in Busy,
         queue' \in Seq(Submission), DOMAIN queue' = DOMAIN queue,
         \A i \in DOMAIN queue :
           /\ queue'[i].image = queue[i].image /\ queue'[i].kind # "upload"
           /\ queue'[i].kind = "clear" => queue'[i].draws = None,
         objects' \in SUBSET (Kind \X Image),
         \A k \in Kind : <<k, work>> \in objects' => k = "clear buffer",
         \A k \in Kind, i \in Image : i # work => (<<k, i>> \in objects' <=> <<k, i>> \in objects),
         phase' = "next", output' = None,
         UNCHANGED <<open, connected, changes, render, frame, gpu, lost, picture, scanouts, todo,
                     work>>
  PROVE  IInv'
<1>1. TypeOK'
  BY DEF IInv, TypeOK, Phase
<1>2. Ready'
  BY DEF IInv, Ready, Busy
<1>3. OnlyTemporary'
  <2>1. \A k \in Kind \ {"image", "clear buffer"}, i \in Image : <<k, i>> \notin objects'
    BY BusyFacts
  <2>2. QED
    BY <2>1 DEF OnlyTemporary
<1>4. Working' /\ Stage'
  BY DEF Working, Stage, Busy
<1>5. Queued'
  BY DEF IInv, Queued
<1>6. Fresh'
  BY DEF IInv, Fresh
<1>7. ShownAsAsked'
  <2> SUFFICES ASSUME NEW o \in Output, scanouts[o] # None
               PROVE  /\ <<"image", scanouts[o]>> \in objects'
                      /\ ~Pending(scanouts[o])' /\ picture[scanouts[o]] = frame
    BY DEF ShownAsAsked
  <2>1. scanouts[o] \in Image /\ scanouts[o] # work /\ "image" \in Kind
    BY DEF IInv, TypeOK, Working, Kind
  <2>2. /\ <<"image", scanouts[o]>> \in objects /\ ~Pending(scanouts[o])
        /\ picture[scanouts[o]] = frame
    BY DEF IInv, ShownAsAsked
  <2>3. QED
    BY <2>1, <2>2 DEF Pending
<1>8. PreferredUsed'
  BY DEF IInv, PreferredUsed, Busy
<1>9. QED
  BY <1>1, <1>2, <1>3, <1>4, <1>5, <1>6, <1>7, <1>8 DEF IInv

LEMMA GivesUp ==
  ASSUME IInv, phase \in Busy,
         \A i \in DOMAIN queue : queue[i].kind # "upload",
         objects' \in SUBSET (Kind \X Image),
         \A k \in Kind : <<k, work>> \in objects' => k = "clear buffer",
         \A k \in Kind, i \in Image : i # work => (<<k, i>> \in objects' <=> <<k, i>> \in objects),
         phase' = "next", output' = None,
         UNCHANGED <<open, connected, changes, render, frame, gpu, lost, queue, picture, scanouts,
                     todo, work>>
  PROVE  IInv'
<1>1. /\ queue' \in Seq(Submission) /\ DOMAIN queue' = DOMAIN queue
      /\ \A i \in DOMAIN queue :
           /\ queue'[i].image = queue[i].image /\ queue'[i].kind # "upload"
           /\ queue'[i].kind = "clear" => queue'[i].draws = None
  BY DEF IInv, TypeOK, Queued
<1>2. QED
  BY <1>1, Leaves

LEMMA GiveUpStep ==
  ASSUME IInv, phase \in Busy, \A i \in DOMAIN queue : queue[i].kind # "upload",
         NEW leaked \in SUBSET {"clear buffer"}, GiveUp(leaked)
  PROVE  IInv'
<1>1. /\ objects' = objects \ Of(Kind \ leaked, work) /\ phase' = "next" /\ output' = None
      /\ UNCHANGED <<open, connected, changes, render, frame, gpu, lost, queue, picture, scanouts,
                     todo, work>>
  BY DEF GiveUp, deviceVars
<1>2. \A k, i : <<k, i>> \in Of(Kind \ leaked, work) <=> k \in Kind \ leaked /\ i = work
  BY DEF Of
<1>3. \A k \in Kind : <<k, work>> \in objects' => k = "clear buffer"
  BY <1>1, <1>2
<1>4. ASSUME NEW k \in Kind, NEW i \in Image, i # work
      PROVE  <<k, i>> \in objects' <=> <<k, i>> \in objects
  <2>1. <<k, i>> \notin Of(Kind \ leaked, work)
    BY <1>4 DEF Of
  <2>2. QED
    BY <1>1, <2>1
<1>5. objects' \in SUBSET (Kind \X Image)
  BY <1>1, BusyFacts
<1>6. QED
  BY <1>1, <1>3, <1>4, <1>5, GivesUp

\* No upload is in the queue before one is submitted, nor after it was waited for.
LEMMA NoUploads ==
  ASSUME IInv, phase \notin {"uploading", "draining"}
  PROVE  \A i \in DOMAIN queue : queue[i].kind # "upload"
BY DEF IInv, Queued

\* The work goes on with the same image and queue.
LEMMA MovesOn ==
  ASSUME IInv, phase \in Busy, phase' \in Busy,
         UNCHANGED <<open, connected, changes, render, frame, gpu, lost, queue, picture, scanouts,
                     todo, output, work>>,
         objects' \in SUBSET (Kind \X Image),
         \A i \in Image : <<"image", i>> \in objects => <<"image", i>> \in objects',
         OnlyTemporary',
         \A i \in DOMAIN queue : queue[i].kind = "upload" => phase' \in {"uploading", "draining"},
         Stage'
  PROVE  IInv'
<1>1. TypeOK'
  BY DEF IInv, TypeOK, Busy
<1>2. Ready'
  BY DEF IInv, Ready, Busy
<1>3. Working'
  BY DEF IInv, Working
<1>4. Queued'
  BY DEF IInv, Queued, Upload
<1>5. Fresh'
  BY DEF IInv, Fresh
<1>6. ShownAsAsked'
  BY DEF IInv, TypeOK, ShownAsAsked, Pending
<1>7. PreferredUsed'
  BY DEF IInv, PreferredUsed, Busy
<1>8. QED
  BY <1>1, <1>2, <1>3, <1>4, <1>5, <1>6, <1>7 DEF IInv

LEMMA MakePassStep ==
  ASSUME IInv, MakePass
  PROVE  IInv'
<1>1. phase = "pass" /\ phase \in Busy
  BY DEF MakePass, Busy, Phase
<1>2. CASE GiveUp({})
  BY <1>1, <1>2, GiveUpStep, NoUploads
<1>3. CASE /\ objects' = objects \cup Of({"pass"}, work) /\ phase' = "target"
           /\ UNCHANGED <<deviceVars, gpu, lost, queue, picture, scanouts, todo, output, work>>
  <2>1. UNCHANGED <<open, connected, changes, render, frame, gpu, lost, queue, picture, scanouts,
                    todo, output, work>>
    BY <1>3 DEF deviceVars
  <2>2. /\ objects' = objects \cup {<<"pass", work>>} /\ objects' \in SUBSET (Kind \X Image)
    BY <1>1, <1>3, BusyFacts, OneOf DEF Kind
  <2>3. OnlyTemporary'
    BY <1>1, <1>3, <2>1, <2>2, BusyFacts DEF OnlyTemporary, Temporaries
  <2>4. Stage'
    BY <1>1, <1>3, <2>1 DEF IInv, Stage, Pending
  <2>5. phase' \in Busy
    BY <1>3 DEF Busy, Phase
  <2>6. QED
    BY <1>1, <2>1, <2>2, <2>3, <2>4, <2>5, NoUploads, MovesOn
<1>4. QED
  BY <1>2, <1>3 DEF MakePass

LEMMA MakeTargetStep ==
  ASSUME IInv, MakeTarget
  PROVE  IInv'
<1>1. phase = "target" /\ phase \in Busy
  BY DEF MakeTarget, Busy, Phase
<1>2. CASE GiveUp({})
  BY <1>1, <1>2, GiveUpStep, NoUploads
<1>3. CASE /\ objects' = objects \cup Of({"target"}, work) /\ phase' = "clear"
           /\ UNCHANGED <<deviceVars, gpu, lost, queue, picture, scanouts, todo, output, work>>
  <2>1. UNCHANGED <<open, connected, changes, render, frame, gpu, lost, queue, picture, scanouts,
                    todo, output, work>>
    BY <1>3 DEF deviceVars
  <2>2. /\ objects' = objects \cup {<<"target", work>>} /\ objects' \in SUBSET (Kind \X Image)
    BY <1>1, <1>3, BusyFacts, OneOf DEF Kind
  <2>3. OnlyTemporary'
    BY <1>1, <1>3, <2>1, <2>2, BusyFacts DEF OnlyTemporary, Temporaries
  <2>4. Stage'
    BY <1>1, <1>3, <2>1 DEF IInv, Stage, Pending
  <2>5. phase' \in Busy
    BY <1>3 DEF Busy, Phase
  <2>6. QED
    BY <1>1, <2>1, <2>2, <2>3, <2>4, <2>5, NoUploads, MovesOn
<1>4. QED
  BY <1>2, <1>3 DEF MakeTarget

LEMMA ClearRefusedStep ==
  ASSUME IInv, ClearRefused
  PROVE  IInv'
<1>1. phase = "clear" /\ phase \in Busy
  BY DEF ClearRefused, Busy, Phase
<1>2. CASE GiveUp({})
  BY <1>1, <1>2, GiveUpStep, NoUploads
<1>3. CASE /\ objects' = (objects \ Of(Kind, work)) \cup Of({"clear buffer"}, work)
           /\ phase' = "next" /\ output' = None
           /\ UNCHANGED <<deviceVars, gpu, lost, queue, picture, scanouts, todo, work>>
  <2>1. UNCHANGED <<open, connected, changes, render, frame, gpu, lost, queue, picture, scanouts,
                    todo, work>>
    BY <1>3 DEF deviceVars
  <2>2. /\ Of({"clear buffer"}, work) = {<<"clear buffer", work>>}
        /\ objects' \in SUBSET (Kind \X Image)
    BY <1>1, <1>3, BusyFacts, OneOf DEF Kind
  <2>3. ASSUME NEW k \in Kind, <<k, work>> \in objects' PROVE k = "clear buffer"
    <3>1. <<k, work>> \in Of(Kind, work)
      BY DEF Of
    <3>2. QED
      BY <1>3, <2>2, <2>3, <3>1
  <2>4. ASSUME NEW k \in Kind, NEW i \in Image, i # work
        PROVE  <<k, i>> \in objects' <=> <<k, i>> \in objects
    <3>1. <<k, i>> \notin Of(Kind, work)
      BY <2>4 DEF Of
    <3>2. QED
      BY <1>3, <2>2, <2>4, <3>1
  <2>5. QED
    BY <1>1, <1>3, <2>1, <2>2, <2>3, <2>4, NoUploads, GivesUp
<1>4. QED
  BY <1>2, <1>3 DEF ClearRefused

LEMMA ClearedStep ==
  ASSUME IInv, Cleared
  PROVE  IInv'
<1>1. /\ phase = "clearing" /\ phase \in Busy /\ picture[work] = None
      /\ objects' = objects \ Of({"clear buffer", "clear fence"}, work)
      /\ phase' = (IF frame = None THEN "settle" ELSE "upload")
      /\ UNCHANGED <<open, connected, changes, render, frame, gpu, lost, queue, picture, scanouts,
                     todo, output, work>>
  BY DEF Cleared, deviceVars, Busy, Phase
<1>2. ~Pending(work)
  BY <1>1 DEF IInv, Stage
<1>3. Stage'
  BY <1>1, <1>2 DEF Stage, Pending
<1>4. \A k, i : <<k, i>> \in objects' => <<k, i>> \in objects
  BY <1>1
<1>5. <<"clear fence", work>> \notin objects'
  BY <1>1 DEF Of
<1>6. OnlyTemporary'
  <2> SUFFICES ASSUME NEW k \in Kind \ {"image", "clear buffer"}, NEW i \in Image,
                      <<k, i>> \in objects'
               PROVE  i = work' /\ k \in Temporaries(phase')
    BY DEF OnlyTemporary
  <2>1. i = work /\ k \in {"pass", "target", "clear fence"}
    BY <1>1, <1>4, BusyFacts DEF Temporaries
  <2>2. k # "clear fence"
    BY <1>5, <2>1
  <2>3. QED
    BY <1>1, <2>1, <2>2 DEF Temporaries
<1>7. ASSUME NEW i \in Image, <<"image", i>> \in objects PROVE <<"image", i>> \in objects'
  <2>1. <<"image", i>> \notin Of({"clear buffer", "clear fence"}, work)
    BY DEF Of
  <2>2. QED
    BY <1>1, <1>7, <2>1
<1>8. objects' \in SUBSET (Kind \X Image) /\ phase' \in Busy
  BY <1>1, BusyFacts DEF Busy, Phase
<1>9. QED
  BY <1>1, <1>3, <1>6, <1>7, <1>8, NoUploads, MovesOn

LEMMA ClearTimesOutStep ==
  ASSUME IInv, ClearTimesOut
  PROVE  IInv'
<1>1. phase = "clearing" /\ phase \in Busy /\ GiveUp({"clear buffer"})
  BY DEF ClearTimesOut, Busy, Phase
<1>2. QED
  BY <1>1, GiveUpStep, NoUploads

\* A submission of the image at work is the only one of it, and after the others.
LEMMA Submits ==
  ASSUME IInv, phase \in Busy, phase' \in {"clearing", "uploading"}, ~Pending(work),
         NEW s \in Submission, s.image = work, queue' = Append(queue, s),
         UNCHANGED <<open, connected, changes, render, frame, gpu, lost, picture, scanouts,
                     todo, output, work>>,
         \A i \in DOMAIN queue : queue[i].kind # "upload",
         s.kind = "clear" => s.draws = None,
         s.kind = "upload" => phase' = "uploading" /\ s = Upload(frame, output),
         objects' \in SUBSET (Kind \X Image),
         \A i \in Image : <<"image", i>> \in objects => <<"image", i>> \in objects',
         OnlyTemporary',
         phase' = "clearing" => picture[work] = Undefined /\ s.kind = "clear",
         phase' = "uploading" => /\ frame # None /\ picture[work] = None /\ s.kind = "upload"
                                 /\ Of(UsesOf("upload"), work) \subseteq objects'
  PROVE  IInv'
<1>1. queue \in Seq(Submission) /\ work \in 0 .. MaxWork
  BY DEF IInv, TypeOK
<1>2. PICK l \in Nat : l = Len(queue) /\ DOMAIN queue = 1 .. l
  BY <1>1
<1>3. /\ queue' \in Seq(Submission) /\ DOMAIN queue' = 1 .. (l + 1)
      /\ queue'[l + 1] = s /\ \A i \in 1 .. l : queue'[i] = queue[i]
  BY <1>1, <1>2
<1>4. \A i \in DOMAIN queue' : (i \in DOMAIN queue /\ queue'[i] = queue[i]) \/ (i = l + 1 /\ queue'[i] = s)
  BY <1>2, <1>3
<1>5. \A i \in DOMAIN queue : queue[i].image # work /\ i # l + 1
  BY <1>2 DEF Pending
<1>6. TypeOK'
  BY <1>3 DEF IInv, TypeOK, Phase
<1>7. Ready'
  BY DEF IInv, Ready, Busy
<1>8. Working'
  BY DEF IInv, Working
<1>9. Queued'
  <2>1. ASSUME NEW i \in DOMAIN queue'
        PROVE  /\ queue'[i].image <= work
               /\ queue'[i].kind = "clear" => queue'[i].draws = None
               /\ queue'[i].kind = "upload" =>
                    phase' = "uploading" /\ queue'[i] = Upload(frame, output)
    <3>1. CASE i \in DOMAIN queue /\ queue'[i] = queue[i]
      BY <3>1 DEF IInv, Queued
    <3>2. CASE queue'[i] = s
      BY <1>1, <3>2
    <3>3. QED
      BY <1>4, <3>1, <3>2
  <2>2. ASSUME NEW i \in DOMAIN queue', NEW j \in DOMAIN queue', queue'[i].image = queue'[j].image
        PROVE  i = j
    <3>1. CASE i \in DOMAIN queue /\ j \in DOMAIN queue
      BY <1>2, <1>3, <2>2, <3>1 DEF IInv, Queued
    <3>2. CASE i \notin DOMAIN queue \/ j \notin DOMAIN queue
      BY <1>4, <1>5, <2>2, <3>2
    <3>3. QED
      BY <3>1, <3>2
  <2>3. Upload(frame, output)' = Upload(frame, output)
    BY DEF Upload
  <2>4. QED
    BY <2>1, <2>2, <2>3 DEF Queued
<1>10. Stage'
  <2>1. CASE phase' = "clearing"
    <3>1. \A i \in DOMAIN queue' : queue'[i].image = work => queue'[i].kind = "clear"
      BY <1>4, <1>5, <2>1
    <3>2. QED
      BY <2>1, <3>1, NoneAssumption DEF Stage
  <2>2. CASE phase' = "uploading"
    <3>1. \A i \in DOMAIN queue' : queue'[i].image = work => queue'[i].kind = "upload"
      BY <1>4, <1>5, <2>2
    <3>2. QED
      BY <2>2, <3>1 DEF Stage
  <2>3. QED
    BY <2>1, <2>2
<1>11. Fresh'
  BY DEF IInv, Fresh
<1>12. ShownAsAsked'
  <2> SUFFICES ASSUME NEW o \in Output, scanouts[o] # None
               PROVE  /\ <<"image", scanouts[o]>> \in objects'
                      /\ ~Pending(scanouts[o])' /\ picture[scanouts[o]] = frame
    BY DEF ShownAsAsked
  <2>1. scanouts[o] \in Image /\ scanouts[o] # work
    BY DEF IInv, TypeOK, Working
  <2>2. /\ <<"image", scanouts[o]>> \in objects /\ ~Pending(scanouts[o])
        /\ picture[scanouts[o]] = frame
    BY DEF IInv, ShownAsAsked
  <2>3. \A i \in DOMAIN queue' : queue'[i].image # scanouts[o]
    BY <1>4, <2>1, <2>2 DEF Pending
  <2>4. QED
    BY <2>1, <2>2, <2>3 DEF Pending
<1>13. PreferredUsed'
  BY DEF IInv, PreferredUsed, Busy
<1>14. QED
  BY <1>6, <1>7, <1>8, <1>9, <1>10, <1>11, <1>12, <1>13 DEF IInv

LEMMA SubmitClearStep ==
  ASSUME IInv, SubmitClear
  PROVE  IInv'
<1>1. /\ phase = "clear" /\ phase \in Busy /\ phase' = "clearing"
      /\ objects' = objects \cup Of({"clear buffer", "clear fence"}, work)
      /\ queue' = Append(queue, Clear)
      /\ UNCHANGED <<open, connected, changes, render, frame, gpu, lost, picture, scanouts,
                     todo, output, work>>
  BY DEF SubmitClear, deviceVars, Busy, Phase
<1>2. output \in Output /\ work \in Image /\ objects \in SUBSET (Kind \X Image)
  BY <1>1, BusyFacts
<1>3. Clear \in Submission /\ Clear.image = work /\ Clear.kind = "clear" /\ Clear.draws = None
  BY <1>2, OutputAssumption DEF Clear, Submission
<1>4. objects' \in SUBSET (Kind \X Image)
  BY <1>1, <1>2, SomeOf DEF Kind
<1>5. OnlyTemporary'
  <2> SUFFICES ASSUME NEW k \in Kind \ {"image", "clear buffer"}, NEW i \in Image,
                      <<k, i>> \in objects'
               PROVE  i = work' /\ k \in Temporaries(phase')
    BY DEF OnlyTemporary
  <2>1. CASE <<k, i>> \in objects
    BY <1>1, <2>1, BusyFacts DEF Temporaries
  <2>2. CASE <<k, i>> \in Of({"clear buffer", "clear fence"}, work)
    BY <1>1, <2>2 DEF Of, Temporaries
  <2>3. QED
    BY <1>1, <2>1, <2>2
<1>6. picture[work] = Undefined /\ ~Pending(work)
  BY <1>1 DEF IInv, Stage
<1>7. QED
  BY <1>1, <1>3, <1>4, <1>5, <1>6, NoUploads, Submits

LEMMA SubmitUploadStep ==
  ASSUME IInv, SubmitUpload
  PROVE  IInv'
<1> DEFINE uses == {"staging", "upload buffer", "upload fence"}
<1>1. /\ phase = "upload" /\ phase \in Busy /\ phase' = "uploading"
      /\ objects' = objects \cup Of(uses, work)
      /\ queue' = Append(queue, Upload(frame, output))
      /\ UNCHANGED <<open, connected, changes, render, frame, gpu, lost, picture, scanouts,
                     todo, output, work>>
  BY DEF SubmitUpload, deviceVars, Busy, Phase
<1>2. /\ output \in Output /\ work \in Image /\ objects \in SUBSET (Kind \X Image)
      /\ <<"image", work>> \in objects
  BY <1>1, BusyFacts
<1>3. frame # None /\ picture[work] = None /\ ~Pending(work)
  BY <1>1 DEF IInv, Stage
<1>4. frame \in Frames /\ Valid(frame)
  BY <1>3 DEF IInv, TypeOK, Ready
<1>5. PICK s \in Submission : s = Upload(frame, output) /\ s.image = work /\ s.kind = "upload"
  BY <1>2, <1>4, UploadFits
<1>6. objects' \in SUBSET (Kind \X Image)
  BY <1>1, <1>2, SomeOf DEF Kind
<1>7. OnlyTemporary'
  <2> SUFFICES ASSUME NEW k \in Kind \ {"image", "clear buffer"}, NEW i \in Image,
                      <<k, i>> \in objects'
               PROVE  i = work' /\ k \in Temporaries(phase')
    BY DEF OnlyTemporary
  <2>1. CASE <<k, i>> \in objects
    BY <1>1, <2>1, BusyFacts DEF Temporaries
  <2>2. CASE <<k, i>> \in Of(uses, work)
    BY <1>1, <2>2 DEF Of, Temporaries
  <2>3. QED
    BY <1>1, <2>1, <2>2
<1>8. Of(UsesOf("upload"), work) \subseteq objects'
  <2>1. UsesOf("upload") = {"image"} \cup uses
    BY DEF UsesOf
  <2>2. ASSUME NEW k \in UsesOf("upload") PROVE <<k, work>> \in objects'
    <3>1. k \in uses => <<k, work>> \in Of(uses, work)
      BY DEF Of
    <3>2. QED
      BY <1>1, <1>2, <2>1, <2>2, <3>1
  <2>3. QED
    BY <2>2 DEF Of
<1> HIDE DEF uses
<1>9. QED
  BY <1>1, <1>3, <1>5, <1>6, <1>7, <1>8, NoUploads, Submits

LEMMA UploadRefusedStep ==
  ASSUME IInv, UploadRefused
  PROVE  IInv'
<1>1. phase = "upload" /\ phase \in Busy /\ GiveUp({})
  BY DEF UploadRefused, Busy, Phase
<1>2. QED
  BY <1>1, GiveUpStep, NoUploads

LEMMA UploadedStep ==
  ASSUME IInv, Uploaded
  PROVE  IInv'
<1> DEFINE uses == {"staging", "upload buffer", "upload fence"}
<1>1. /\ phase = "uploading" /\ phase \in Busy /\ picture[work] = frame
      /\ objects' = objects \ Of(uses, work) /\ phase' = "settle"
      /\ UNCHANGED <<open, connected, changes, render, frame, gpu, lost, queue, picture, scanouts,
                     todo, output, work>>
  BY DEF Uploaded, deviceVars, Busy, Phase
<1>2. ~Pending(work)
  BY <1>1 DEF IInv, Stage
<1>3. Stage'
  BY <1>1, <1>2 DEF Stage, Pending
<1>4. \A k, i : <<k, i>> \in objects' => <<k, i>> \in objects
  BY <1>1
<1>5. ASSUME NEW k \in uses PROVE <<k, work>> \notin objects'
  BY <1>1 DEF Of
<1>6. OnlyTemporary'
  <2> SUFFICES ASSUME NEW k \in Kind \ {"image", "clear buffer"}, NEW i \in Image,
                      <<k, i>> \in objects'
               PROVE  i = work' /\ k \in Temporaries(phase')
    BY DEF OnlyTemporary
  <2>1. i = work /\ k \in {"pass", "target"} \cup uses
    BY <1>1, <1>4, BusyFacts DEF Temporaries
  <2>2. k \notin uses
    BY <1>5, <2>1
  <2>3. QED
    BY <1>1, <2>1, <2>2 DEF Temporaries
<1>7. ASSUME NEW i \in Image, <<"image", i>> \in objects PROVE <<"image", i>> \in objects'
  <2>1. <<"image", i>> \notin Of(uses, work)
    BY DEF Of
  <2>2. QED
    BY <1>1, <1>7, <2>1
<1>8. \A i \in DOMAIN queue : queue[i].kind # "upload"
  <2>1. \A i \in DOMAIN queue : queue[i].kind = "upload" => queue[i] = Upload(frame, output)
    BY DEF IInv, Queued
  <2>2. Upload(frame, output).image = work
    BY DEF Upload
  <2>3. \A i \in DOMAIN queue : queue[i].image # work
    BY <1>2 DEF Pending
  <2>4. QED
    BY <2>1, <2>2, <2>3
<1>9. objects' \in SUBSET (Kind \X Image) /\ phase' \in Busy
  BY <1>1, BusyFacts DEF Busy, Phase
<1>10. QED
  BY <1>1, <1>3, <1>6, <1>7, <1>8, <1>9, MovesOn

LEMMA UploadTimesOutStep ==
  ASSUME IInv, UploadTimesOut
  PROVE  IInv'
<1>1. /\ phase = "uploading" /\ phase \in Busy /\ phase' = "draining" /\ phase' \in Busy
      /\ UNCHANGED <<open, connected, changes, render, frame, gpu, lost, objects, queue, picture,
                     scanouts, todo, output, work>>
  BY DEF UploadTimesOut, deviceVars, gpuVars, Busy, Phase
<1>2. Stage'
  BY <1>1 DEF IInv, Stage, Pending
<1>3. OnlyTemporary'
  BY <1>1, BusyFacts DEF OnlyTemporary, Temporaries
<1>4. objects' \in SUBSET (Kind \X Image)
  BY <1>1, BusyFacts
<1>5. QED
  BY <1>1, <1>2, <1>3, <1>4, MovesOn

LEMMA DrainedStep ==
  ASSUME IInv, Drained
  PROVE  IInv'
<1>1. phase = "draining" /\ phase \in Busy /\ queue = <<>> /\ GiveUp({})
  BY DEF Drained, Busy, Phase
<1>2. \A i \in DOMAIN queue : queue[i].kind # "upload"
  BY <1>1
<1>3. QED
  BY <1>1, <1>2, GiveUpStep

LEMMA WaitIdleStep ==
  ASSUME IInv, WaitIdle
  PROVE  IInv'
<1>1. /\ phase = "settle" /\ phase \in Busy /\ phase' = "show" /\ phase' \in Busy
      /\ objects' = objects \ Of({"pass", "target"}, work)
      /\ UNCHANGED <<open, connected, changes, render, frame, gpu, lost, queue, picture, scanouts,
                     todo, output, work>>
  BY DEF WaitIdle, deviceVars, Busy, Phase
<1>2. Stage'
  BY <1>1 DEF IInv, Stage, Pending
<1>3. <<"pass", work>> \notin objects' /\ <<"target", work>> \notin objects'
  BY <1>1 DEF Of
<1>4. \A k, i : <<k, i>> \in objects' => <<k, i>> \in objects
  BY <1>1
<1>5. OnlyTemporary'
  <2> SUFFICES ASSUME NEW k \in Kind \ {"image", "clear buffer"}, NEW i \in Image,
                      <<k, i>> \in objects'
               PROVE  FALSE
    BY DEF OnlyTemporary
  <2>1. i = work /\ k \in {"pass", "target"}
    BY <1>1, <1>4, BusyFacts DEF Temporaries
  <2>2. QED
    BY <1>3, <2>1
<1>6. ASSUME NEW i \in Image, <<"image", i>> \in objects PROVE <<"image", i>> \in objects'
  <2>1. <<"image", i>> \notin Of({"pass", "target"}, work)
    BY DEF Of
  <2>2. QED
    BY <1>1, <1>6, <2>1
<1>7. objects' \in SUBSET (Kind \X Image)
  BY <1>1, BusyFacts
<1>8. QED
  BY <1>1, <1>2, <1>5, <1>6, <1>7, NoUploads, MovesOn

LEMMA DrainFailsStep ==
  ASSUME IInv, DrainFails
  PROVE  IInv'
<1>1. /\ phase = "draining" /\ phase \in Busy
      /\ objects' = objects \ Of(Kind, work) /\ queue' = Abandoned
      /\ phase' = "next" /\ output' = None
      /\ UNCHANGED <<open, connected, changes, render, frame, gpu, lost, picture, scanouts, todo,
                     work>>
  BY DEF DrainFails, deviceVars, Busy, Phase
<1>2. queue \in Seq(Submission)
  BY DEF IInv, TypeOK
<1>3. PICK l \in Nat : DOMAIN queue = 1 .. l
  BY <1>2
<1>4. ASSUME NEW i \in DOMAIN queue
      PROVE  /\ queue'[i] \in Submission
             /\ queue'[i].image = queue[i].image /\ queue'[i].kind # "upload"
             /\ queue'[i].kind = "clear" => queue'[i].draws = None
  <2>1. queue[i] \in Submission
    BY <1>2
  <2>2. CASE queue[i].image = work
    <3>1. queue'[i] = [queue[i] EXCEPT !.kind = "abandoned"]
      BY <1>1, <2>2 DEF Abandoned
    <3>2. QED
      BY <2>1, <3>1 DEF Submission
  <2>3. CASE queue[i].image # work
    <3>1. queue'[i] = queue[i]
      BY <1>1, <2>3 DEF Abandoned
    <3>2. queue[i].kind # "upload"
      <4>1. queue[i].kind = "upload" => queue[i] = Upload(frame, output)
        BY DEF IInv, Queued
      <4>2. Upload(frame, output).image = work
        BY DEF Upload
      <4>3. QED
        BY <2>3, <4>1, <4>2
    <3>3. QED
      BY <2>1, <3>1, <3>2 DEF IInv, Queued
  <2>4. QED
    BY <2>2, <2>3
<1>5. DOMAIN queue' = DOMAIN queue
  BY <1>1 DEF Abandoned
<1>6. queue' \in Seq(Submission)
  <2>1. queue' = [i \in 1 .. l |-> queue'[i]]
    BY <1>1, <1>3 DEF Abandoned
  <2>2. \A i \in 1 .. l : queue'[i] \in Submission
    BY <1>3, <1>4
  <2>3. QED
    BY <2>1, <2>2
<1>7. ASSUME NEW k \in Kind PROVE <<k, work>> \notin objects'
  <2>1. <<k, work>> \in Of(Kind, work)
    BY DEF Of
  <2>2. QED
    BY <1>1, <2>1
<1>8. ASSUME NEW k \in Kind, NEW i \in Image, i # work
      PROVE  <<k, i>> \in objects' <=> <<k, i>> \in objects
  <2>1. <<k, i>> \notin Of(Kind, work)
    BY <1>8 DEF Of
  <2>2. QED
    BY <1>1, <2>1
<1>9. objects' \in SUBSET (Kind \X Image)
  BY <1>1, BusyFacts
<1>10. QED
  BY <1>1, <1>4, <1>5, <1>6, <1>7, <1>8, <1>9, Leaves

LEMMA WaitIdleFailsStep ==
  ASSUME IInv, WaitIdleFails
  PROVE  IInv'
<1>1. phase = "settle" /\ phase \in Busy /\ GiveUp({})
  BY DEF WaitIdleFails, Busy, Phase
<1>2. QED
  BY <1>1, GiveUpStep, NoUploads

LEMMA ShowStep ==
  ASSUME IInv, Show
  PROVE  IInv'
<1>1. /\ phase = "show" /\ phase \in Busy /\ phase' = "next" /\ output' = None
      /\ scanouts' = [scanouts EXCEPT ![output] = work]
      /\ UNCHANGED <<open, connected, changes, render, frame, gpu, lost, objects, queue, picture,
                     todo, work>>
  BY DEF Show, deviceVars, gpuVars, Busy, Phase
<1>2. output \in Output /\ work \in Image /\ <<"image", work>> \in objects
  BY <1>1, BusyFacts
<1>3. picture[work] = frame /\ ~Pending(work)
  BY <1>1 DEF IInv, Stage
<1>4. /\ scanouts' \in [Output -> Image \cup {None}]
      /\ \A o \in Output : scanouts'[o] = IF o = output THEN work ELSE scanouts[o]
  BY <1>1, <1>2 DEF IInv, TypeOK
<1>5. TypeOK'
  BY <1>1, <1>4 DEF IInv, TypeOK, Phase
<1>6. Ready'
  BY <1>1 DEF IInv, Ready
<1>7. OnlyTemporary'
  BY <1>1, BusyFacts DEF OnlyTemporary, Temporaries
<1>8. Working' /\ Stage'
  BY <1>1 DEF Working, Stage, Busy
<1>9. Queued'
  BY <1>1, NoUploads DEF IInv, Queued
<1>10. Fresh'
  <2>1. work <= work
    BY <1>2 DEF Image
  <2>2. QED
    BY <1>1, <1>4, <2>1 DEF IInv, Fresh
<1>11. ShownAsAsked'
  <2> SUFFICES ASSUME NEW o \in Output, scanouts'[o] # None
               PROVE  /\ <<"image", scanouts'[o]>> \in objects
                      /\ ~Pending(scanouts'[o]) /\ picture[scanouts'[o]] = frame
    BY <1>1 DEF ShownAsAsked, Pending
  <2>1. CASE o = output
    BY <1>2, <1>3, <1>4, <2>1
  <2>2. CASE o # output
    BY <1>4, <2>2 DEF IInv, ShownAsAsked
  <2>3. QED
    BY <2>1, <2>2
<1>12. PreferredUsed'
  BY <1>1 DEF IInv, PreferredUsed
<1>13. QED
  BY <1>5, <1>6, <1>7, <1>8, <1>9, <1>10, <1>11, <1>12 DEF IInv

LEMMA ShowFailsStep ==
  ASSUME IInv, ShowFails
  PROVE  IInv'
<1>1. phase = "show" /\ phase \in Busy /\ GiveUp({})
  BY DEF ShowFails, Busy, Phase
<1>2. QED
  BY <1>1, GiveUpStep, NoUploads

----------------------------------------------------------------------------
(* The GPU.                                                                *)

\* The image of what is executed has nothing else pending: one that was given up is
\* not shown, and the one at work has what was submitted for it drawn.
LEMMA ExecuteStep ==
  ASSUME IInv, Execute
  PROVE  IInv'
<1>1. /\ queue # <<>> /\ queue' = Tail(queue)
      /\ picture' = [picture EXCEPT ![Head(queue).image] = Head(queue).draws]
      /\ UNCHANGED <<open, connected, changes, render, frame, gpu, lost, objects, scanouts, phase,
                     todo, output, work>>
  BY DEF Execute, deviceVars
<1>2. queue \in Seq(Submission) /\ picture \in [Image -> Frames \cup {Undefined, None}]
  BY DEF IInv, TypeOK
<1>3. PICK h \in Submission : h = Head(queue) /\ h = queue[1] /\ 1 \in DOMAIN queue
  BY <1>1, <1>2
<1>4. h.image \in Image /\ h.draws \in Frames \cup {None} /\ h.kind \in {"clear", "upload", "abandoned"}
  BY DEF Submission
<1>5. /\ picture' \in [Image -> Frames \cup {Undefined, None}]
      /\ \A i \in Image : picture'[i] = IF i = h.image THEN h.draws ELSE picture[i]
  BY <1>1, <1>2, <1>3, <1>4
<1>6. /\ queue' \in Seq(Submission)
      /\ \A i \in DOMAIN queue' : i + 1 \in DOMAIN queue /\ i + 1 # 1 /\ queue'[i] = queue[i + 1]
      /\ \A i, j \in DOMAIN queue' : i + 1 = j + 1 => i = j
  BY <1>1, <1>2
<1>7. \A i \in DOMAIN queue' : queue'[i].image # h.image
  BY <1>3, <1>6 DEF IInv, Queued
<1>8. \A n : ~Pending(n) => ~Pending(n)' /\ n # h.image
  BY <1>3, <1>6 DEF Pending
<1>9. ~Pending(h.image)'
  BY <1>7 DEF Pending
<1>10. TypeOK'
  BY <1>1, <1>5, <1>6 DEF IInv, TypeOK
<1>11. Ready'
  BY <1>1 DEF IInv, Ready, Path
<1>12. OnlyTemporary' /\ Working'
  BY <1>1 DEF IInv, OnlyTemporary, Working
<1>13. Queued'
  <2>1. Upload(frame, output)' = Upload(frame, output)
    BY <1>1 DEF Upload
  <2>2. ASSUME NEW i \in DOMAIN queue'
        PROVE  /\ queue'[i].image <= work
               /\ queue'[i].kind = "clear" => queue'[i].draws = None
               /\ queue'[i].kind = "upload" =>
                    phase \in {"uploading", "draining"} /\ queue'[i] = Upload(frame, output)
    <3>1. i + 1 \in DOMAIN queue /\ queue'[i] = queue[i + 1]
      BY <1>6
    <3>2. PICK n \in DOMAIN queue : queue'[i] = queue[n]
      BY <3>1
    <3>3. QED
      BY <3>2 DEF IInv, Queued
  <2>3. ASSUME NEW i \in DOMAIN queue', NEW j \in DOMAIN queue', queue'[i].image = queue'[j].image
        PROVE  i = j
    <3>1. i + 1 = j + 1
      BY <1>6, <2>3 DEF IInv, Queued
    <3>2. QED
      BY <1>6, <3>1
  <2>4. QED
    BY <1>1, <2>1, <2>2, <2>3 DEF Queued
<1>14. phase \in Busy => work \in Image
  BY DEF IInv, Working
<1>15. h.kind = "clear" => h.draws = None
  BY <1>3 DEF IInv, Queued
<1>16. h.kind = "upload" => phase \in {"uploading", "draining"} /\ h.draws = frame
  <2>1. h.kind = "upload" => phase \in {"uploading", "draining"} /\ h = Upload(frame, output)
    BY <1>3 DEF IInv, Queued
  <2>2. Upload(frame, output).draws = frame
    BY DEF Upload
  <2>3. QED
    BY <2>1, <2>2
<1>17. Stage'
  <2>1. CASE ~Pending(work) /\ phase \in Busy
    <3>1. work # h.image
      BY <1>3, <2>1 DEF Pending
    <3>2. picture'[work] = picture[work]
      BY <1>5, <1>14, <2>1, <3>1
    <3>3. \A i \in DOMAIN queue' : queue'[i].image # work
      BY <1>6, <2>1 DEF Pending
    <3>4. ~Pending(work)'
      BY <1>1, <3>3 DEF Pending
    <3>5. QED
      BY <1>1, <3>2, <3>3, <3>4 DEF IInv, Stage
  <2>2. CASE Pending(work) /\ phase = "clearing"
    <3>1. /\ phase \in Busy /\ picture[work] = Undefined
          /\ \A i \in DOMAIN queue : queue[i].image = work => queue[i].kind = "clear"
      BY <2>2 DEF IInv, Stage, Busy, Phase
    <3>2. CASE h.image = work
      <4>1. picture'[work] = None /\ ~Pending(work)'
        BY <1>1, <1>3, <1>5, <1>9, <1>14, <1>15, <2>2, <3>1, <3>2
      <4>2. \A i \in DOMAIN queue' : queue'[i].image # work
        BY <1>7, <3>2
      <4>3. QED
        BY <1>1, <2>2, <4>1, <4>2 DEF Stage
    <3>3. CASE h.image # work
      <4>1. picture'[work] = Undefined
        BY <1>5, <1>14, <3>1, <3>3
      <4>2. \A i \in DOMAIN queue' : queue'[i].image = work => queue'[i].kind = "clear"
        BY <1>6, <3>1
      <4>3. QED
        BY <1>1, <2>2, <4>1, <4>2, NoneAssumption DEF Stage
    <3>4. QED
      BY <3>2, <3>3
  <2>3. CASE Pending(work) /\ phase \in {"uploading", "draining"}
    <3>1. /\ phase \in Busy /\ frame # None /\ picture[work] = None
          /\ Of(UsesOf("upload"), work) \subseteq objects
          /\ \A i \in DOMAIN queue : queue[i].image = work => queue[i].kind = "upload"
      BY <2>3 DEF IInv, Stage, Busy, Phase
    <3>2. ASSUME NEW i \in DOMAIN queue', queue'[i].image = work PROVE queue'[i].kind = "upload"
      <4>1. PICK n \in DOMAIN queue : queue'[i] = queue[n]
        BY <1>6
      <4>2. QED
        BY <3>1, <3>2, <4>1
    <3>3. picture'[work] # None => ~Pending(work)'
      <4>1. CASE h.image = work
        BY <1>1, <1>9, <4>1
      <4>2. CASE h.image # work
        BY <1>5, <1>14, <3>1, <4>2
      <4>3. QED
        BY <4>1, <4>2
    <3>4. QED
      BY <1>1, <2>3, <3>1, <3>2, <3>3 DEF Stage
  <2>4. CASE phase \notin Busy
    BY <1>1, <2>4 DEF Stage, Busy, Phase
  <2>5. Pending(work) /\ phase \in Busy => phase \in {"clearing", "uploading", "draining"}
    BY DEF IInv, Stage, Busy, Phase
  <2>6. QED
    BY <2>1, <2>2, <2>3, <2>4, <2>5
<1>18. Fresh'
  <2>1. h.image <= work /\ work \in Nat
    BY <1>3 DEF IInv, TypeOK, Queued
  <2>2. \A i \in Image : i > work => i # h.image
    BY <2>1 DEF Image
  <2>3. QED
    BY <1>1, <1>5, <2>2 DEF IInv, Fresh
<1>19. ShownAsAsked'
  <2> SUFFICES ASSUME NEW o \in Output, scanouts[o] # None
               PROVE  /\ <<"image", scanouts[o]>> \in objects
                      /\ ~Pending(scanouts[o])' /\ picture'[scanouts[o]] = frame
    BY <1>1 DEF ShownAsAsked, Pending
  <2>1. scanouts[o] \in Image
    BY DEF IInv, TypeOK
  <2>2. /\ <<"image", scanouts[o]>> \in objects /\ ~Pending(scanouts[o])
        /\ picture[scanouts[o]] = frame
    BY DEF IInv, ShownAsAsked
  <2>3. \A i \in DOMAIN queue' : queue'[i].image # scanouts[o]
    BY <1>6, <2>2 DEF Pending
  <2>4. scanouts[o] # h.image
    BY <1>8, <2>2
  <2>5. QED
    BY <1>1, <1>5, <2>1, <2>2, <2>3, <2>4 DEF Pending
<1>20. PreferredUsed'
  BY <1>1 DEF IInv, PreferredUsed
<1>21. QED
  BY <1>10, <1>11, <1>12, <1>13, <1>17, <1>18, <1>19, <1>20 DEF IInv

----------------------------------------------------------------------------
(* The invariant.                                                          *)

LEMMA InitIInv == Init => IInv
<1> SUFFICES ASSUME Init PROVE IInv
  OBVIOUS
<1>1. /\ open = {} /\ connected = {} /\ changes = 0 /\ render = None /\ frame = None
      /\ gpu = None /\ lost = FALSE /\ objects = {} /\ queue = <<>>
      /\ picture = [i \in Image |-> Undefined] /\ scanouts = NoScanouts
      /\ phase = "idle" /\ todo = {} /\ output = None /\ work = 0
  BY DEF Init
<1> HIDE DEF Init
<1>2. TypeOK
  <2>1. queue \in Seq(Submission)
    BY <1>1
  <2>2. scanouts \in [Output -> Image \cup {None}]
    BY <1>1 DEF NoScanouts
  <2>3. picture \in [Image -> Frames \cup {Undefined, None}]
    BY <1>1
  <2>4. changes \in 0 .. MaxChanges /\ work \in 0 .. MaxWork
    BY <1>1, BoundAssumption
  <2>5. objects \in SUBSET (Kind \X Image) /\ phase \in Phase
    BY <1>1 DEF Phase
  <2>6. QED
    BY <1>1, <2>1, <2>2, <2>3, <2>4, <2>5 DEF TypeOK
<1>3. Ready
  BY <1>1, BoundAssumption, FS_EmptySet DEF Ready
<1>4. OnlyTemporary /\ Working /\ Stage
  BY <1>1 DEF OnlyTemporary, Working, Stage, Busy
<1>5. Queued
  BY <1>1 DEF Queued
<1>6. Fresh /\ ShownAsAsked
  BY <1>1 DEF Fresh, ShownAsAsked, NoScanouts
<1>7. PreferredUsed
  BY <1>1 DEF PreferredUsed
<1>8. QED
  BY <1>2, <1>3, <1>4, <1>5, <1>6, <1>7 DEF IInv

LEMMA NextIInv == IInv /\ [Next]_vars => IInv'
<1> SUFFICES ASSUME IInv, [Next]_vars PROVE IInv'
  OBVIOUS
<1>1. CASE Retire
  BY <1>1, RetireStep
<1>2. CASE Allocate
  BY <1>2, AllocateStep
<1>3. CASE MakePass
  BY <1>3, MakePassStep
<1>4. CASE MakeTarget
  BY <1>4, MakeTargetStep
<1>5. CASE SubmitClear
  BY <1>5, SubmitClearStep
<1>6. CASE ClearRefused
  BY <1>6, ClearRefusedStep
<1>7. CASE Cleared
  BY <1>7, ClearedStep
<1>8. CASE ClearTimesOut
  BY <1>8, ClearTimesOutStep
<1>9. CASE SubmitUpload
  BY <1>9, SubmitUploadStep
<1>10. CASE UploadRefused
  BY <1>10, UploadRefusedStep
<1>11. CASE Uploaded
  BY <1>11, UploadedStep
<1>12. CASE UploadTimesOut
  BY <1>12, UploadTimesOutStep
<1>13. CASE Drained
  BY <1>13, DrainedStep
<1>14. CASE WaitIdle
  BY <1>14, WaitIdleStep
<1>15. CASE WaitIdleFails
  BY <1>15, WaitIdleFailsStep
<1>16. CASE Show
  BY <1>16, ShowStep
<1>17. CASE ShowFails
  BY <1>17, ShowFailsStep
<1>18. CASE PresentDone
  BY <1>18, PresentDoneStep
<1>19. ASSUME NEW cards \in SUBSET Card, NEW lit \in SUBSET cards, CardsChange(cards, lit)
       PROVE  IInv'
  BY <1>19, CardsChangeStep
<1>20. ASSUME NEW f \in Frames, SetSurfaceFrame(f) PROVE IInv'
  BY <1>20, SetSurfaceFrameStep
<1>21. CASE RemoveSurfaceFrame
  BY <1>21, RemoveSurfaceFrameStep
<1>22. ASSUME NEW c \in Card \cup {None}, SetRenderDevice(c) PROVE IInv'
  BY <1>22, SetRenderDeviceStep
<1>23. CASE Execute
  BY <1>23, ExecuteStep
<1>24. CASE DeviceLost
  BY <1>24, DeviceLostStep
<1>25. CASE UNCHANGED vars
  <2>1. UNCHANGED <<open, connected, changes, render, frame, gpu, lost, objects, queue, picture,
                    scanouts, phase, todo, output, work>>
    BY <1>25 DEF vars, deviceVars, gpuVars
  <2>2. TypeOK' /\ Ready'
    BY <2>1 DEF IInv, TypeOK, Ready, Path
  <2>3. OnlyTemporary' /\ Working' /\ Fresh'
    BY <2>1 DEF IInv, OnlyTemporary, Working, Fresh
  <2>4. Queued'
    BY <2>1 DEF IInv, Queued, Upload
  <2>5. Stage' /\ ShownAsAsked'
    BY <2>1 DEF IInv, Stage, ShownAsAsked, Pending
  <2>6. PreferredUsed'
    BY <2>1 DEF IInv, PreferredUsed
  <2>7. QED
    BY <2>2, <2>3, <2>4, <2>5, <2>6 DEF IInv
<1>26. CASE DrainFails
  BY <1>26, DrainFailsStep
<1>27. QED
  BY <1>1, <1>2, <1>3, <1>4, <1>5, <1>6, <1>7, <1>8, <1>9, <1>10, <1>11, <1>12, <1>13, <1>14,
     <1>15, <1>16, <1>17, <1>18, <1>19, <1>20, <1>21, <1>22, <1>23, <1>24, <1>25, <1>26 DEF Next

LEMMA Invariant == Spec => []IInv
  BY InitIInv, NextIInv, PTL DEF Spec

----------------------------------------------------------------------------
(* The promises.                                                           *)

\* The renderer's fields, what a presentation holds and the GPU's queue have their
\* types: no more images are made than there are, and what is submitted is well formed.
THEOREM TypeCorrect == Spec => []TypeOK
<1>1. IInv => TypeOK
  BY DEF IInv
<1>2. QED
  BY <1>1, Invariant, PTL

\* A picture that is lit is finished and is what was asked for, though clears that
\* timed out and abandoned uploads stay in the queue and the device may be lost
\* (present_one_output).
THEOREM AlwaysShownAsAsked == Spec => []ShownAsAsked
<1>1. IInv => ShownAsAsked
  BY DEF IInv
<1>2. QED
  BY <1>1, Invariant, PTL

\* Of a pending upload nothing is freed unless it is abandoned, and it copies within the frame's pixels, the
\* staging buffer and the image (SurfaceFrame::validate, prepare_surface_upload,
\* upload_bgra_to_image).
THEOREM UploadsAlwaysKept == Spec => []UploadsKept
<1>1. IInv => UploadsKept
  <2> SUFFICES ASSUME IInv, NEW i \in DOMAIN queue, queue[i].kind = "upload"
               PROVE  /\ Of(UsesOf("upload"), queue[i].image) \subseteq objects
                      /\ output # None /\ queue[i].image = work
                      /\ queue[i].width <= OutputSize[output].width
                      /\ queue[i].height <= OutputSize[output].height
                      /\ (queue[i].height - 1) * frame.stride + 4 * queue[i].width <= frame.length
                      /\ queue[i].bytes >= 4 * queue[i].width * queue[i].height
    BY DEF UploadsKept
  <2>1. phase \in {"uploading", "draining"} /\ queue[i] = Upload(frame, output)
    BY DEF IInv, Queued
  <2>2. frame # None /\ Of(UsesOf("upload"), work) \subseteq objects
    BY <2>1 DEF IInv, Stage
  <2>3. frame \in Frames /\ Valid(frame)
    BY <2>2 DEF IInv, TypeOK, Ready
  <2>4. output \in Output /\ work \in Image
    BY <2>1 DEF IInv, Working, Busy, Phase
  <2>5. output # None
    BY <2>4, NumberAssumption, NoneAssumption
  <2>6. PICK s : s = queue[i]
    OBVIOUS
  <2>7. /\ s.image = work
        /\ s.width <= OutputSize[output].width /\ s.height <= OutputSize[output].height
        /\ (s.height - 1) * frame.stride + 4 * s.width <= frame.length
        /\ s.bytes >= 4 * s.width * s.height
    BY <2>1, <2>3, <2>4, <2>6, UploadFits
  <2>8. QED
    BY <2>2, <2>5, <2>6, <2>7
<1>2. QED
  BY <1>1, Invariant, PTL

\* Whichever call of a presentation fails, and however often, nothing temporary is
\* left after it but the command buffers of failed clears.
THEOREM TemporariesAlwaysGone == Spec => []TemporariesGone
<1>1. IInv => TemporariesGone
  BY DEF IInv, OnlyTemporary, Temporaries, TemporariesGone
<1>2. QED
  BY <1>1, Invariant, PTL

\* For all GPUs and cards the preferred card's GPU draws (PhysicalDevice::select: its
\* bonus outweighs every type and version; ensure_vulkan).
THEOREM PreferredAlwaysUsed == Spec => []PreferredUsed
<1>1. IInv => PreferredUsed
  BY DEF IInv
<1>2. QED
  BY <1>1, Invariant, PTL
===============================================================================
