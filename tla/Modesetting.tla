----------------------------- MODULE Modesetting ----------------------------
(***************************************************************************)
(* Lighting the outputs (crates/lumalla_renderer, lib.rs and drm/): the    *)
(* presentation collects, card by card and in the order of the connectors' *)
(* names, a CRTC, a primary plane and a mode for every enabled connected   *)
(* output, then imports an image, makes a mode blob and commits one atomic *)
(* modeset per output.  Every one of those calls can fail, and what was    *)
(* made for the output is then freed by the destructors.                   *)
(*                                                                         *)
(* The kernel's part is external: which encoder and CRTC each connector is *)
(* routed to, what each plane shows, and the framebuffers, GEM handles and *)
(* blobs that exist.  Displays come and go, and the session, with the      *)
(* right to commit, can be taken away, between any two calls.              *)
(***************************************************************************)
EXTENDS Naturals, Sequences

CONSTANTS
  Card,            \* DRM primary nodes
  Connector,       \* connectors, numbered in the order of their names
  Crtc,            \* CRTCs, numbered in the order of each card's list
  Plane,           \* primary planes, numbered in the order of each card's list
  Encoder,         \* encoders
  Handle,          \* ids the kernel gives to framebuffers, GEM handles and blobs
  ConnectorCard,   \* the card of a connector,
  CrtcCard,        \* of a CRTC,
  PlaneCard,       \* and of a plane
  EncodersOf,      \* the encoders of a connector, in its list's order
  PossibleCrtcs,   \* the CRTCs an encoder can take its picture from
  PlaneCrtcs,      \* the CRTCs a primary plane can feed
  Modes,           \* the mode names of a connector, in its list's order
  Preferred,       \* the places of its preferred modes
  StopsCrtc,       \* cards whose driver stops a CRTC when its picture is removed
  Other,           \* the picture of another DRM master, or of the console
  ConfigModes,     \* mode names a configuration can ask for, or None
  ConsoleRoutes,   \* how the connectors may be routed when the compositor starts
  MaxChanges,      \* bound: displays plugged, sessions lost, other masters' changes
                   \* and configurations
  None

ASSUME OrderAssumption ==
  Connector \subseteq Nat /\ Crtc \subseteq Nat /\ Plane \subseteq Nat /\ Handle \subseteq Nat
ASSUME CardAssumption ==
  /\ ConnectorCard \in [Connector -> Card]
  /\ CrtcCard \in [Crtc -> Card]
  /\ PlaneCard \in [Plane -> Card]
ASSUME EncoderAssumption ==
  /\ EncodersOf \in [Connector -> Seq(Encoder)]
  /\ PossibleCrtcs \in [Encoder -> SUBSET Crtc]
  /\ \A k \in Connector : \A i \in DOMAIN EncodersOf[k] :
       \A c \in PossibleCrtcs[EncodersOf[k][i]] : CrtcCard[c] = ConnectorCard[k]
ASSUME PlaneAssumption ==
  /\ PlaneCrtcs \in [Plane -> SUBSET Crtc]
  /\ \A p \in Plane : \A c \in PlaneCrtcs[p] : CrtcCard[c] = PlaneCard[p]
ASSUME ModeAssumption ==
  /\ \A k \in Connector : Modes[k] \in Seq(STRING) /\ Preferred[k] \subseteq DOMAIN Modes[k]
ASSUME StopsAssumption == StopsCrtc \subseteq Card
ASSUME OtherAssumption == Other \notin Handle
ASSUME BoundAssumption == MaxChanges \in Nat
ASSUME RouteAssumption ==
  ConsoleRoutes \subseteq [Connector -> [encoder : Encoder, crtc : Crtc] \cup {None}]
ASSUME ConfigAssumption == ConfigModes \subseteq STRING \cup {None}
ASSUME NoneAssumption ==
  /\ None \notin Crtc /\ None \notin Plane /\ None \notin Nat /\ None \notin Handle
  /\ None \notin Connector /\ None \notin Card /\ None \notin STRING /\ None # Other

VARIABLES
  plugged,     \* hardware: connectors with a display
  route,       \* kernel: the encoder and CRTC of each connector
  shows,       \* kernel: the CRTC and framebuffer of each plane
  crtcMode,    \* kernel: the mode of each CRTC, by its place in the list
  fbs,         \* kernel: framebuffers of our descriptor of each card,
  gems,        \* its GEM handles
  blobs,       \* and its blobs
  changes,     \* changes from outside so far
  open,        \* DrmDevices.opened
  live,        \* those of them whose session is still ours
  cached,      \* connectors that DrmDevice.connectors calls connected
  configs,     \* RendererState.output_configs
  scanouts,    \* RendererState.scanouts
  phase,       \* what present_enabled_outputs is doing
  cardsLeft,   \* collect_present_targets: cards still to visit,
  card,        \* the card it visits,
  used,        \* the card's used_crtcs
  walk,        \* and its connectors still to resolve
  targets,     \* the outputs resolved and not yet presented
  work         \* present_one_output: what it made so far

kmsVars     == <<route, shows, crtcMode>>
objVars     == <<fbs, gems, blobs>>
deviceVars  == <<open, live, cached>>
collectVars == <<cardsLeft, card, used, walk>>
vars == <<plugged, kmsVars, objVars, changes, deviceVars, configs, scanouts, phase,
          collectVars, targets, work>>

\* A connected output ready for a modeset (ConnectedOutput).
Output == [crtc : Crtc, plane : Plane, mode : Nat]

\* What an output of the scanout table owns (OutputScanout).
Scanout == [output : Output, fb : Handle, gem : Handle, blob : Handle]

\* What present_one_output holds for an output, from the import on.
Work == [connector : Connector, output : Output, gem : Handle,
         fb : Handle \cup {None}, blob : Handle \cup {None}]

Config == [enabled : BOOLEAN, mode : STRING \cup {None}]

ASSUME RecordAssumption ==
  /\ None \notin Scanout /\ None \notin Work
  /\ None \notin [encoder : Encoder, crtc : Crtc]
  /\ None \notin [crtc : Crtc, fb : Handle \cup {Other}]

TypeOK ==
  /\ plugged \in SUBSET Connector
  /\ route \in [Connector -> [encoder : Encoder, crtc : Crtc] \cup {None}]
  /\ shows \in [Plane -> [crtc : Crtc, fb : Handle \cup {Other}] \cup {None}]
  /\ crtcMode \in [Crtc -> Nat \cup {None}]
  /\ fbs \in [Card -> SUBSET Handle]
  /\ gems \in [Card -> SUBSET Handle]
  /\ blobs \in [Card -> SUBSET Handle]
  /\ changes \in Nat
  /\ open \in SUBSET Card
  /\ live \in SUBSET open
  /\ cached \in SUBSET Connector
  /\ configs \in [Connector -> Config]
  /\ scanouts \in [Connector -> Scanout \cup {None}]
  /\ phase \in {"idle", "collect", "present"}
  /\ cardsLeft \in SUBSET open
  /\ card \in Card \cup {None}
  /\ used \in SUBSET Crtc
  /\ walk \in SUBSET Connector
  /\ targets \in [Connector -> Output \cup {None}]
  /\ work \in Work \cup {None}

----------------------------------------------------------------------------
(* The kernel.                                                             *)

Lowest(S) == CHOOSE n \in S : \A m \in S : n <= m

\* The id the kernel gives next, if it has one left: the lowest that is free.
FreeHandle(taken) == {h \in Handle \ taken : \A g \in Handle \ taken : h <= g}

\* The CRTC an encoder takes its picture from now.
EncoderCrtc(e) ==
  IF \E k \in Connector : route[k] # None /\ route[k].encoder = e
  THEN route[CHOOSE k \in Connector : route[k] # None /\ route[k].encoder = e].crtc
  ELSE None

\* No encoder serves two connectors, and an encoder is routed to a CRTC it can use.
RoutesValid(r) ==
  \A k \in Connector : r[k] # None =>
    /\ \E i \in DOMAIN EncodersOf[k] : EncodersOf[k][i] = r[k].encoder
    /\ r[k].crtc \in PossibleCrtcs[r[k].encoder]
    /\ \A j \in Connector \ {k} : r[j] # None => r[j].encoder # r[k].encoder

\* The kernel's side of removing framebuffers: a plane that shows one of them
\* is turned off, and some drivers stop its CRTC and unroute its connectors.
RemoveFbs(removed) ==
  LET dark == {p \in Plane : shows[p] # None /\ <<PlaneCard[p], shows[p].fb>> \in removed}
      stopped == {shows[p].crtc : p \in {q \in dark : PlaneCard[q] \in StopsCrtc}}
  IN /\ shows' = [p \in Plane |-> IF p \in dark THEN None ELSE shows[p]]
     /\ crtcMode' = [c \in Crtc |-> IF c \in stopped THEN None ELSE crtcMode[c]]
     /\ route' = [k \in Connector |->
                    IF route[k] # None /\ route[k].crtc \in stopped THEN None ELSE route[k]]

\* What the kernel refuses whatever the driver: a commit without the session, a
\* plane moved from a CRTC to another at once, an encoder another connector has.
Committable(k, o, e) ==
  /\ ConnectorCard[k] \in live
  /\ shows[o.plane] # None => shows[o.plane].crtc = o.crtc
  /\ \E i \in DOMAIN EncodersOf[k] : EncodersOf[k][i] = e
  /\ o.crtc \in PossibleCrtcs[e]
  /\ \A j \in Connector \ {k} : route[j] # None => route[j].encoder # e

\* A display is plugged in or out.
Plug(k) ==
  /\ changes < MaxChanges
  /\ changes' = changes + 1
  /\ plugged' = IF k \in plugged THEN plugged \ {k} ELSE plugged \cup {k}
  /\ UNCHANGED <<kmsVars, objVars, deviceVars, configs, scanouts, phase,
                 collectVars, targets, work>>

\* The session is taken away: the open descriptors lose their rights.
Revoke ==
  /\ live # {}
  /\ changes < MaxChanges
  /\ changes' = changes + 1
  /\ live' = {}
  /\ UNCHANGED <<plugged, kmsVars, objVars, open, cached, configs, scanouts, phase,
                 collectVars, targets, work>>

\* Another master lights a connector of its choice while the session is away.
Foreign(k, e, c, p) ==
  /\ live = {}
  /\ changes < MaxChanges
  /\ changes' = changes + 1
  /\ PlaneCard[p] = ConnectorCard[k] /\ c \in PlaneCrtcs[p]
  /\ route' = [route EXCEPT ![k] = [encoder |-> e, crtc |-> c]]
  /\ RoutesValid(route')
  /\ shows' = [shows EXCEPT ![p] = [crtc |-> c, fb |-> Other]]
  /\ crtcMode' = [crtcMode EXCEPT ![c] = 0]
  /\ UNCHANGED <<plugged, objVars, deviceVars, configs, scanouts, phase, collectVars,
                 targets, work>>

----------------------------------------------------------------------------
(* Resolving one output (drm/modeset.rs).                                  *)

\* Mutation: the encoder's present CRTC is taken whoever has it.
CrtcFromEncoderKeepsCurrent(e) ==
  LET current == EncoderCrtc(e)
      free == PossibleCrtcs[e] \ used
  IN IF current # None THEN current
     ELSE IF free # {} THEN Lowest(free) ELSE None

\* A CRTC for an encoder: the one it has, unless taken, else its first free one.
CrtcFromEncoder(e) ==
  LET current == EncoderCrtc(e)
      free == PossibleCrtcs[e] \ used
  IN IF current # None /\ current \notin used THEN current
     ELSE IF free # {} THEN Lowest(free) ELSE None

\* The first CRTC found, trying the encoder the connector has now before its list.
FindCrtc(k) ==
  LET current == IF route[k] # None THEN <<route[k].encoder>> ELSE <<>>
      tried == current \o EncodersOf[k]
      found == {i \in DOMAIN tried : CrtcFromEncoder(tried[i]) # None}
  IN IF found = {} THEN None ELSE CrtcFromEncoder(tried[Lowest(found)])

\* The first primary plane that can feed the CRTC.
FindPrimaryPlane(c) ==
  LET able == {p \in Plane : c \in PlaneCrtcs[p]}
  IN IF able = {} THEN None ELSE Lowest(able)

\* The mode asked for by name, else the first preferred one, else the first.
SelectMode(k, wanted) ==
  LET named == {i \in DOMAIN Modes[k] : wanted # None /\ Modes[k][i] = wanted}
  IN IF named # {} THEN Lowest(named)
     ELSE IF Preferred[k] # {} THEN Lowest(Preferred[k]) ELSE 1

----------------------------------------------------------------------------
(* What owns kernel objects, and its destructors.                          *)

NoScanouts == [k \in Connector |-> None]
NoTargets  == [k \in Connector |-> None]

Held == {k \in Connector : scanouts[k] # None}
HeldOn(c) == {k \in Held : ConnectorCard[k] = c}

\* RendererState.scanouts is cleared: each output's blob, framebuffer and GEM handle go.
DropScanouts ==
  /\ RemoveFbs({<<ConnectorCard[k], scanouts[k].fb>> : k \in Held})
  /\ fbs' = [c \in Card |-> fbs[c] \ {scanouts[k].fb : k \in HeldOn(c)}]
  /\ gems' = [c \in Card |-> gems[c] \ {scanouts[k].gem : k \in HeldOn(c)}]
  /\ blobs' = [c \in Card |-> blobs[c] \ {scanouts[k].blob : k \in HeldOn(c)}]
  /\ scanouts' = NoScanouts

\* An object more, or one less, of the card the work is for.
WorkCard == ConnectorCard[work.connector]
With(objects, h) == [objects EXCEPT ![WorkCard] = @ \cup {h}]
Without(objects, h) == [objects EXCEPT ![WorkCard] = @ \ {h}]

----------------------------------------------------------------------------
(* A presentation.                                                         *)

\* The table is cleared first.  Nothing more happens without an open card (no
\* render device) or when the render context cannot be made.
BeginPresent(opened) ==
  /\ DropScanouts
  /\ UNCHANGED <<card, used, walk, targets, work>>
  /\ \/ phase' = "idle" /\ UNCHANGED cardsLeft
     \/ opened # {} /\ phase' = "collect" /\ cardsLeft' = opened

\* The next open card, in no particular order: no CRTC of it is used yet, and
\* its connected and enabled connectors are resolved by name.
VisitCard(c) ==
  /\ phase = "collect" /\ walk = {} /\ c \in cardsLeft
  /\ cardsLeft' = cardsLeft \ {c}
  /\ card' = c
  /\ used' = {}
  /\ walk' = {k \in cached : ConnectorCard[k] = c /\ configs[k].enabled}
  /\ UNCHANGED <<plugged, kmsVars, objVars, changes, deviceVars, configs, scanouts, phase,
                 targets, work>>

\* Resolving the next connector fails, or finds no display, mode, CRTC or plane.
ResolveNone(k) ==
  /\ phase = "collect" /\ walk # {} /\ k = Lowest(walk)
  /\ walk' = walk \ {k}
  /\ UNCHANGED <<plugged, kmsVars, objVars, changes, deviceVars, configs, scanouts, phase,
                 cardsLeft, card, used, targets, work>>

\* The next connector has a display, a mode, a CRTC nobody took and a plane.  The
\* CRTC is taken even when a property of the three is not found.
Resolve(k) ==
  /\ phase = "collect" /\ walk # {} /\ k = Lowest(walk)
  /\ k \in plugged /\ Modes[k] # <<>>
  /\ LET crtc == FindCrtc(k)
         plane == FindPrimaryPlane(crtc)
     IN /\ crtc # None /\ plane # None
        /\ used' = used \cup {crtc}
        /\ \/ targets' = [targets EXCEPT ![k] =
                [crtc |-> crtc, plane |-> plane, mode |-> SelectMode(k, configs[k].mode)]]
           \/ UNCHANGED targets
  /\ walk' = walk \ {k}
  /\ UNCHANGED <<plugged, kmsVars, objVars, changes, deviceVars, configs, scanouts, phase,
                 cardsLeft, card, work>>

\* Every card is visited: the targets are presented in the order of their names.
CollectDone ==
  /\ phase = "collect" /\ walk = {} /\ cardsLeft = {}
  /\ phase' = "present"
  /\ card' = None
  /\ used' = {}
  /\ UNCHANGED <<plugged, kmsVars, objVars, changes, deviceVars, configs, scanouts,
                 cardsLeft, walk, targets, work>>

ToPresent == {k \in Connector : targets[k] # None}

\* The next target's image is rendered and exported, and imported on its card.
\* A failure of any of it is logged and gives the output up.
Import(k) ==
  /\ phase = "present" /\ work = None /\ ToPresent # {} /\ k = Lowest(ToPresent)
  /\ targets' = [targets EXCEPT ![k] = None]
  /\ UNCHANGED <<plugged, kmsVars, fbs, blobs, changes, deviceVars, configs, scanouts, phase,
                 collectVars>>
  /\ \/ UNCHANGED <<gems, work>>
     \/ \E h \in FreeHandle(gems[ConnectorCard[k]]) :
          /\ gems' = [gems EXCEPT ![ConnectorCard[k]] = @ \cup {h}]
          /\ work' = [connector |-> k, output |-> targets[k], gem |-> h,
                      fb |-> None, blob |-> None]

\* Mutation: the handle is not closed when the framebuffer cannot be made.
AddFbKeepsHandle ==
  /\ phase = "present" /\ work # None /\ work.fb = None
  /\ UNCHANGED <<plugged, kmsVars, gems, blobs, changes, deviceVars, configs, scanouts, phase,
                 collectVars, targets>>
  /\ \/ work' = None /\ UNCHANGED fbs
     \/ \E h \in FreeHandle(fbs[WorkCard]) :
          fbs' = With(fbs, h) /\ work' = [work EXCEPT !.fb = h]

\* The framebuffer is made, or the GEM handle is closed again.
AddFb ==
  /\ phase = "present" /\ work # None /\ work.fb = None
  /\ UNCHANGED <<plugged, kmsVars, blobs, changes, deviceVars, configs, scanouts, phase,
                 collectVars, targets>>
  /\ \/ /\ gems' = Without(gems, work.gem)
        /\ work' = None
        /\ UNCHANGED fbs
     \/ \E h \in FreeHandle(fbs[WorkCard]) :
          /\ fbs' = With(fbs, h)
          /\ work' = [work EXCEPT !.fb = h]
          /\ UNCHANGED gems

\* The mode blob is made, or the framebuffer and the handle are freed.
CreateBlob ==
  /\ phase = "present" /\ work # None /\ work.fb # None /\ work.blob = None
  /\ UNCHANGED <<plugged, kmsVars, changes, deviceVars, configs, scanouts, phase,
                 collectVars, targets>>
  /\ \/ /\ fbs' = Without(fbs, work.fb)
        /\ gems' = Without(gems, work.gem)
        /\ work' = None
        /\ UNCHANGED blobs
     \/ \E h \in FreeHandle(blobs[WorkCard]) :
          /\ blobs' = With(blobs, h)
          /\ work' = [work EXCEPT !.blob = h]
          /\ UNCHANGED <<fbs, gems>>

Presented ==
  [output |-> work.output, fb |-> work.fb, gem |-> work.gem, blob |-> work.blob]

\* The kernel takes the modeset: the connector is routed to the CRTC through an
\* encoder of the kernel's choice, the CRTC gets the mode and the plane the
\* framebuffer.  The output enters the table.
Commit ==
  /\ phase = "present" /\ work # None /\ work.blob # None
  /\ LET k == work.connector
         o == work.output
     IN \E e \in Encoder :
          /\ Committable(k, o, e)
          /\ route' = [route EXCEPT ![k] = [encoder |-> e, crtc |-> o.crtc]]
          /\ crtcMode' = [crtcMode EXCEPT ![o.crtc] = o.mode]
          /\ shows' = [shows EXCEPT ![o.plane] = [crtc |-> o.crtc, fb |-> work.fb]]
          /\ scanouts' = [scanouts EXCEPT ![k] = Presented]
  /\ work' = None
  /\ UNCHANGED <<plugged, objVars, changes, deviceVars, configs, phase, collectVars, targets>>

\* Mutation: the output enters the table before the commit that can be refused.
CommitRefusedKeepsOutput ==
  /\ phase = "present" /\ work # None /\ work.blob # None
  /\ scanouts' = [scanouts EXCEPT ![work.connector] = Presented]
  /\ work' = None
  /\ UNCHANGED <<plugged, kmsVars, objVars, changes, deviceVars, configs, phase,
                 collectVars, targets>>

\* The kernel refuses it: blob, framebuffer and handle are freed.
CommitRefused ==
  /\ phase = "present" /\ work # None /\ work.blob # None
  /\ blobs' = Without(blobs, work.blob)
  /\ fbs' = Without(fbs, work.fb)
  /\ gems' = Without(gems, work.gem)
  /\ work' = None
  /\ UNCHANGED <<plugged, kmsVars, changes, deviceVars, configs, scanouts, phase,
                 collectVars, targets>>

PresentDone ==
  /\ phase = "present" /\ work = None /\ ToPresent = {}
  /\ phase' = "idle"
  /\ UNCHANGED <<plugged, kmsVars, objVars, changes, deviceVars, configs, scanouts,
                 collectVars, targets, work>>

----------------------------------------------------------------------------
(* What starts a presentation, between two of them.                        *)

\* DrmDevice::probe_connectors on some open cards: each connector is found as it
\* is now, or left out when it cannot be read.
Probe(cards) ==
  \E seen \in SUBSET {k \in plugged : ConnectorCard[k] \in cards} :
    cached' = {k \in cached : ConnectorCard[k] \notin cards} \cup seen

\* The session is given: missing cards are opened, all are probed and presented;
\* an error on the way ends it with some opened and some probed.
Activate ==
  /\ phase = "idle"
  /\ UNCHANGED <<plugged, changes, configs>>
  /\ \/ /\ open' = Card
        /\ live' = live \cup (Card \ open)
        /\ Probe(Card)
        /\ BeginPresent(Card)
     \/ \E new \in SUBSET (Card \ open) :
          /\ open' = open \cup new
          /\ live' = live \cup new
          /\ \E probed \in SUBSET open' : Probe(probed)
          /\ UNCHANGED <<kmsVars, objVars, scanouts, phase, collectVars, targets, work>>

\* The session was taken away: the outputs are dropped, then the cards closed,
\* which frees whatever their descriptors still had.
Deactivate ==
  /\ phase = "idle" /\ live = {} /\ open # {}
  /\ RemoveFbs({pair \in Card \X Handle : pair[2] \in fbs[pair[1]]})
  /\ fbs' = [c \in Card |-> {}]
  /\ gems' = [c \in Card |-> {}]
  /\ blobs' = [c \in Card |-> {}]
  /\ scanouts' = NoScanouts
  /\ open' = {}
  /\ cached' = {}
  /\ UNCHANGED <<plugged, changes, live, configs, phase, collectVars, targets, work>>

\* Connectors changed: every open card is probed and, if the seat is enabled, the
\* outputs are presented.  A probe that fails ends it, the change it found lost.
DispatchUdev ==
  /\ phase = "idle" /\ open # {}
  /\ UNCHANGED <<plugged, changes, open, live, configs>>
  /\ \/ \E probed \in SUBSET open :
          /\ Probe(probed)
          /\ probed # open \/ cached' = cached \/ live = {}
          /\ UNCHANGED <<kmsVars, objVars, scanouts, phase, collectVars, targets, work>>
     \/ Probe(open) /\ BeginPresent(open)

\* Mutation: the config waits for the next presentation.
SetOutputConfigWaits(k, config) ==
  /\ phase = "idle"
  /\ changes < MaxChanges
  /\ changes' = changes + 1
  /\ configs' = [configs EXCEPT ![k] = config]
  /\ UNCHANGED <<plugged, kmsVars, objVars, deviceVars, scanouts, phase,
                 collectVars, targets, work>>

\* RendererState::set_output_configs, one connector's at a time.
SetOutputConfig(k, config) ==
  /\ phase = "idle"
  /\ changes < MaxChanges
  /\ changes' = changes + 1
  /\ configs' = [configs EXCEPT ![k] = config]
  /\ IF open # {} THEN BeginPresent(open)
     ELSE UNCHANGED <<kmsVars, objVars, scanouts, phase, collectVars, targets, work>>
  /\ UNCHANGED <<plugged, deviceVars>>

\* Another frame, its removal or another render device presents again.
Represent ==
  /\ phase = "idle" /\ open # {}
  /\ BeginPresent(open)
  /\ UNCHANGED <<plugged, changes, deviceVars, configs>>

----------------------------------------------------------------------------

\* Before the compositor starts the console, or nobody, lights the connectors.
ConsoleShows(r) ==
  [p \in Plane |->
     LET lit == {c \in PlaneCrtcs[p] : /\ \E k \in Connector : r[k] # None /\ r[k].crtc = c
                                       /\ FindPrimaryPlane(c) = p}
     IN IF lit = {} THEN None ELSE [crtc |-> Lowest(lit), fb |-> Other]]

Init ==
  /\ plugged \in SUBSET Connector
  /\ route \in ConsoleRoutes
  /\ RoutesValid(route)
  /\ shows = ConsoleShows(route)
  /\ crtcMode = [c \in Crtc |->
                   IF \E k \in Connector : route[k] # None /\ route[k].crtc = c THEN 0 ELSE None]
  /\ fbs = [c \in Card |-> {}]
  /\ gems = [c \in Card |-> {}]
  /\ blobs = [c \in Card |-> {}]
  /\ changes = 0
  /\ open = {}
  /\ live = {}
  /\ cached = {}
  /\ configs = [k \in Connector |-> [enabled |-> TRUE, mode |-> None]]
  /\ scanouts = NoScanouts
  /\ phase = "idle"
  /\ cardsLeft = {}
  /\ card = None
  /\ used = {}
  /\ walk = {}
  /\ targets = NoTargets
  /\ work = None

Next ==
  \/ \E k \in Connector : Plug(k)
  \/ Revoke
  \/ \E k \in Connector, e \in Encoder, c \in Crtc, p \in Plane : Foreign(k, e, c, p)
  \/ \E c \in Card : VisitCard(c)
  \/ \E k \in Connector : ResolveNone(k)
  \/ \E k \in Connector : Resolve(k)
  \/ CollectDone
  \/ \E k \in Connector : Import(k)
  \/ AddFb
  \/ CreateBlob
  \/ Commit
  \/ CommitRefused
  \/ PresentDone
  \/ Activate
  \/ Deactivate
  \/ DispatchUdev
  \/ \E k \in Connector, on \in BOOLEAN, m \in ConfigModes :
       SetOutputConfig(k, [enabled |-> on, mode |-> m])
  \/ Represent

Spec == Init /\ [][Next]_vars

----------------------------------------------------------------------------
(* What a presentation promises.                                           *)

\* The CRTCs that resolved, held and presented outputs are to drive.
ClaimedCrtc(k) ==
  CASE scanouts[k] # None -> scanouts[k].output.crtc
    [] targets[k] # None -> targets[k].crtc
    [] work # None /\ work.connector = k -> work.output.crtc
    [] OTHER -> None

\* No two outputs are ever given the same CRTC, although connectors share
\* encoders and CRTCs and each is resolved by itself (find_crtc_for_connector
\* and used_crtcs), and each gets one of its own card.
OutputsApart ==
  \A j, k \in Connector :
    /\ ClaimedCrtc(k) # None => CrtcCard[ClaimedCrtc(k)] = ConnectorCard[k]
    /\ j # k /\ ClaimedCrtc(k) # None => ClaimedCrtc(j) # ClaimedCrtc(k)

\* An output in the scanout table is lit by its own framebuffer, in its mode,
\* through its plane and CRTC, until its session is taken away: what comes
\* after it in the presentation never takes them over (present_one_output).
ScanoutsShown ==
  \A k \in Connector :
    scanouts[k] # None /\ ConnectorCard[k] \in live =>
      LET o == scanouts[k].output
      IN /\ shows[o.plane] = [crtc |-> o.crtc, fb |-> scanouts[k].fb]
         /\ route[k] # None /\ route[k].crtc = o.crtc
         /\ crtcMode[o.crtc] = o.mode

\* The handles of one kind that the table and the work in progress own on a card.
OwnedFbs(c) == {scanouts[k].fb : k \in HeldOn(c)}
  \cup (IF work # None /\ WorkCard = c /\ work.fb # None THEN {work.fb} ELSE {})
OwnedGems(c) == {scanouts[k].gem : k \in HeldOn(c)}
  \cup (IF work # None /\ WorkCard = c THEN {work.gem} ELSE {})
OwnedBlobs(c) == {scanouts[k].blob : k \in HeldOn(c)}
  \cup (IF work # None /\ WorkCard = c /\ work.blob # None THEN {work.blob} ELSE {})

\* Every framebuffer, GEM handle and blob the kernel keeps for a card has its
\* owner in the program and every owner's are alive, whichever call of a
\* presentation failed (the destructors of DrmFramebuffer and ModeBlob).
ObjectsAccounted ==
  \A c \in Card : fbs[c] = OwnedFbs(c) /\ gems[c] = OwnedGems(c) /\ blobs[c] = OwnedBlobs(c)

\* Between presentations, an output that is lit is enabled and runs the mode its
\* latest configuration names, when it has one of that name (set_output_configs).
ConfigApplied ==
  phase = "idle" =>
    \A k \in Held :
      /\ configs[k].enabled
      /\ \A i \in DOMAIN Modes[k] :
           Modes[k][i] = configs[k].mode => Modes[k][scanouts[k].output.mode] = configs[k].mode
=============================================================================
