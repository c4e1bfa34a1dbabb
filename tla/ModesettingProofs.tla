-------------------------- MODULE ModesettingProofs --------------------------
(***************************************************************************)
(* The promises of a presentation hold for all cards, connectors, CRTCs,   *)
(* planes and handles: outputs get CRTCs of their own, an output of the    *)
(* table stays lit until its session is taken away, every kernel object    *)
(* has its owner, and what is lit is configured.                           *)
(*                                                                         *)
(* The invariant follows an output through the presentation: resolved, in  *)
(* work and presented it is at one of the three places only, and at each   *)
(* of them it fits its connector's card and configuration.                 *)
(***************************************************************************)
EXTENDS Modesetting, WellFoundedInduction, TLAPS

\* What each phase has and has not.
Phases ==
  /\ phase # "collect" => cardsLeft = {} /\ walk = {} /\ card = None
  /\ phase = "collect" => scanouts = NoScanouts /\ work = None
  /\ phase = "idle" => targets = NoTargets /\ work = None

\* While the cards are visited: the targets are of cards visited already, and those
\* of the present card have their CRTCs in used_crtcs.
Visited ==
  phase = "collect" =>
    /\ card \notin cardsLeft
    /\ \A k \in walk : ConnectorCard[k] = card /\ card \in open /\ configs[k].enabled
    /\ \A k \in Connector : targets[k] # None =>
         /\ ConnectorCard[k] \notin cardsLeft
         /\ ConnectorCard[k] = card => targets[k].crtc \in used

\* An output is at one place.
OnePlace ==
  /\ \A k \in Connector : scanouts[k] # None => targets[k] = None
  /\ work # None => scanouts[work.connector] = None /\ targets[work.connector] = None

\* An output of connector k is on its card, which is open, and as configured.
Fits(k, o) ==
  /\ CrtcCard[o.crtc] = ConnectorCard[k]
  /\ ConnectorCard[k] \in open
  /\ configs[k].enabled
  /\ \A i \in DOMAIN Modes[k] :
       Modes[k][i] = configs[k].mode => Modes[k][o.mode] = configs[k].mode

AllFit ==
  /\ \A k \in Connector : targets[k] # None => Fits(k, targets[k])
  /\ \A k \in Connector : scanouts[k] # None => Fits(k, scanouts[k].output)
  /\ work # None => Fits(work.connector, work.output)

\* What the table owns on a card.
TableFbs(c) == {scanouts[k].fb : k \in HeldOn(c)}
TableGems(c) == {scanouts[k].gem : k \in HeldOn(c)}
TableBlobs(c) == {scanouts[k].blob : k \in HeldOn(c)}

\* What is in work owns handles that the table does not.
Unshared ==
  work # None =>
    /\ work.blob # None => work.fb # None
    /\ work.fb \notin TableFbs(WorkCard)
    /\ work.gem \notin TableGems(WorkCard)
    /\ work.blob \notin TableBlobs(WorkCard)

IInv ==
  /\ TypeOK
  /\ RoutesValid(route)
  /\ Phases
  /\ Visited
  /\ OnePlace
  /\ AllFit
  /\ OutputsApart
  /\ ScanoutsShown
  /\ ObjectsAccounted
  /\ Unshared

----------------------------------------------------------------------------
(* Choices.                                                                *)

\* A set of numbers has a lowest.
LEMMA Minimum ==
  ASSUME NEW S \in SUBSET Nat, S # {}
  PROVE  Lowest(S) \in S /\ \A m \in S : Lowest(S) <= m
<1>1. PICK n \in S : \A m \in S : <<m, n>> \notin OpToRel(<, Nat)
  BY NatLessThanWellFounded, WFMin
<1>2. \A m \in S : n <= m
  <2> SUFFICES ASSUME NEW m \in S PROVE n <= m
    OBVIOUS
  <2>1. ~(m < n)
    BY <1>1 DEF OpToRel
  <2>2. QED
    BY <2>1
<1>3. QED
  BY <1>1, <1>2 DEF Lowest

\* The CRTC that an encoder of a connector gives is the connector's card's, and free.
LEMMA EncoderGives ==
  ASSUME RoutesValid(route), route \in [Connector -> [encoder : Encoder, crtc : Crtc] \cup {None}],
         NEW e \in Encoder, NEW n, CrtcFromEncoder(e) = n, n # None
  PROVE  n \in Crtc /\ n \notin used /\ n \in PossibleCrtcs[e]
<1> DEFINE current == EncoderCrtc(e)
           free == PossibleCrtcs[e] \ used
<1>1. current # None => current \in PossibleCrtcs[e]
  <2> SUFFICES ASSUME current # None PROVE current \in PossibleCrtcs[e]
    OBVIOUS
  <2>1. \E k \in Connector : route[k] # None /\ route[k].encoder = e
    BY DEF EncoderCrtc
  <2>2. PICK k \in Connector : route[k] # None /\ route[k].encoder = e /\ current = route[k].crtc
    BY <2>1 DEF EncoderCrtc
  <2>3. QED
    BY <2>2 DEF RoutesValid
<1>2. PossibleCrtcs[e] \subseteq Crtc /\ Crtc \subseteq Nat
  BY EncoderAssumption, OrderAssumption
<1>3. CASE current # None /\ current \notin used
  BY <1>1, <1>2, <1>3 DEF CrtcFromEncoder
<1>4. CASE ~(current # None /\ current \notin used)
  <2>1. free # {} /\ n = Lowest(free)
    BY <1>4 DEF CrtcFromEncoder
  <2>2. Lowest(free) \in free
    BY <1>2, <2>1, Minimum
  <2>3. QED
    BY <1>2, <2>1, <2>2
<1>5. QED
  BY <1>3, <1>4

LEMMA Finds ==
  ASSUME RoutesValid(route), route \in [Connector -> [encoder : Encoder, crtc : Crtc] \cup {None}],
         NEW k \in Connector, FindCrtc(k) # None
  PROVE  /\ FindCrtc(k) \in Crtc /\ FindCrtc(k) \notin used
         /\ CrtcCard[FindCrtc(k)] = ConnectorCard[k]
<1> DEFINE current == IF route[k] # None THEN <<route[k].encoder>> ELSE <<>>
           tried == current \o EncodersOf[k]
           found == {i \in DOMAIN tried : CrtcFromEncoder(tried[i]) # None}
<1>1. EncodersOf[k] \in Seq(Encoder)
  BY EncoderAssumption
<1>2. current \in Seq(Encoder)
  <2>1. CASE route[k] # None
    <3>1. route[k].encoder \in Encoder
      BY <2>1
    <3>2. QED
      BY <2>1, <3>1
  <2>2. CASE route[k] = None
    BY <2>2
  <2>3. QED
    BY <2>1, <2>2
<1>3. tried \in Seq(Encoder) /\ DOMAIN tried \subseteq Nat
  <2> HIDE DEF current
  <2>1. QED
    BY <1>1, <1>2
<1>4. \A i \in DOMAIN tried : \E j \in DOMAIN EncodersOf[k] : EncodersOf[k][j] = tried[i]
  <2> SUFFICES ASSUME NEW i \in DOMAIN tried
               PROVE  \E j \in DOMAIN EncodersOf[k] : EncodersOf[k][j] = tried[i]
    OBVIOUS
  <2>1. CASE route[k] # None
    <3>1. current = <<route[k].encoder>> /\ Len(current) = 1 /\ current[1] = route[k].encoder
      BY <2>1
    <3> HIDE DEF current
    <3>2. CASE i = 1
      <4>1. tried[i] = route[k].encoder
        BY <1>1, <1>2, <3>1, <3>2
      <4>2. QED
        BY <2>1, <4>1 DEF RoutesValid
    <3>3. CASE i # 1
      <4>1. i - 1 \in DOMAIN EncodersOf[k] /\ tried[i] = EncodersOf[k][i - 1]
        BY <1>1, <1>2, <3>1, <3>3
      <4>2. QED
        BY <4>1
    <3>4. QED
      BY <3>2, <3>3
  <2>2. CASE route[k] = None
    <3>1. tried = EncodersOf[k]
      BY <1>1, <2>2
    <3>2. QED
      BY <3>1
  <2>3. QED
    BY <2>1, <2>2
<1> HIDE DEF tried, current
<1>5. found # {} /\ FindCrtc(k) = CrtcFromEncoder(tried[Lowest(found)])
  BY DEF FindCrtc, tried, current
<1>6. Lowest(found) \in DOMAIN tried
  BY <1>3, <1>5, Minimum
<1>7. PICK e \in Encoder : e = tried[Lowest(found)]
  <2>1. \A i \in DOMAIN tried : tried[i] \in Encoder
    BY <1>3
  <2>2. QED
    BY <1>6, <2>1
<1>8. FindCrtc(k) \in Crtc /\ FindCrtc(k) \notin used /\ FindCrtc(k) \in PossibleCrtcs[e]
  BY <1>5, <1>7, EncoderGives
<1>9. PICK j \in DOMAIN EncodersOf[k] : EncodersOf[k][j] = e
  BY <1>4, <1>6, <1>7
<1>10. QED
  BY <1>8, <1>9, EncoderAssumption

\* The plane and the mode are there.
LEMMA FindsPlane ==
  ASSUME NEW c, FindPrimaryPlane(c) # None
  PROVE  FindPrimaryPlane(c) \in Plane
<1> DEFINE able == {p \in Plane : c \in PlaneCrtcs[p]}
<1>1. able # {} /\ FindPrimaryPlane(c) = Lowest(able)
  BY DEF FindPrimaryPlane
<1>2. QED
  BY <1>1, Minimum, OrderAssumption

\* A mode of the name that is asked for is selected, if there is one.
LEMMA Selects ==
  ASSUME NEW k \in Connector, NEW wanted
  PROVE  /\ SelectMode(k, wanted) \in Nat
         /\ \A i \in DOMAIN Modes[k] :
              Modes[k][i] = wanted => Modes[k][SelectMode(k, wanted)] = wanted
<1> DEFINE named == {i \in DOMAIN Modes[k] : wanted # None /\ Modes[k][i] = wanted}
<1>1. /\ Modes[k] \in Seq(STRING) /\ DOMAIN Modes[k] \subseteq Nat
      /\ Preferred[k] \subseteq DOMAIN Modes[k]
  BY ModeAssumption
<1>2. CASE named # {}
  <2>1. SelectMode(k, wanted) = Lowest(named)
    BY <1>2 DEF SelectMode
  <2>2. Lowest(named) \in named
    BY <1>1, <1>2, Minimum
  <2>3. QED
    BY <1>1, <2>1, <2>2
<1>3. CASE named = {}
  <2>1. \A i \in DOMAIN Modes[k] : Modes[k][i] # wanted
    BY <1>1, <1>3, NoneAssumption
  <2>2. SelectMode(k, wanted) = IF Preferred[k] # {} THEN Lowest(Preferred[k]) ELSE 1
    BY <1>3 DEF SelectMode
  <2>3. Preferred[k] # {} => Lowest(Preferred[k]) \in Nat
    BY <1>1, Minimum
  <2>4. QED
    BY <2>1, <2>2, <2>3
<1>4. QED
  BY <1>2, <1>3

----------------------------------------------------------------------------
(* What steps have in common.                                              *)

\* Claims that stay, or are given up, stay apart.
LEMMA Moves ==
  ASSUME OutputsApart,
         \A k \in Connector : ClaimedCrtc(k)' = ClaimedCrtc(k) \/ ClaimedCrtc(k)' = None
  PROVE  OutputsApart'
BY DEF OutputsApart

\* Nothing of what a presentation has in hand changes.
LEMMA SameHands ==
  ASSUME IInv,
         UNCHANGED <<open, configs, scanouts, phase, cardsLeft, card, used, walk, targets, work>>
  PROVE  Phases' /\ Visited' /\ OnePlace' /\ AllFit' /\ OutputsApart' /\ Unshared'
<1>1. Phases' /\ Visited' /\ OnePlace'
  BY DEF IInv, Phases, Visited, OnePlace
<1>2. AllFit'
  BY DEF IInv, AllFit, Fits
<1>3. OutputsApart'
  BY DEF IInv, OutputsApart, ClaimedCrtc
<1>4. Unshared'
  BY DEF IInv, Unshared, TableFbs, TableGems, TableBlobs, WorkCard, HeldOn, Held
<1>5. QED
  BY <1>1, <1>2, <1>3, <1>4

\* Nor what the kernel shows and keeps.
LEMMA SameKernel ==
  ASSUME IInv, UNCHANGED <<kmsVars, objVars, scanouts, work>>,
         \A k \in Connector : scanouts[k] # None /\ ConnectorCard[k] \in live' =>
                                ConnectorCard[k] \in live
  PROVE  RoutesValid(route)' /\ ScanoutsShown' /\ ObjectsAccounted'
<1>1. RoutesValid(route)'
  BY DEF IInv, RoutesValid, kmsVars
<1>2. ScanoutsShown'
  BY DEF IInv, ScanoutsShown, kmsVars
<1>3. ObjectsAccounted'
  BY DEF IInv, ObjectsAccounted, OwnedFbs, OwnedGems, OwnedBlobs, HeldOn, Held, WorkCard, objVars
<1>4. QED
  BY <1>1, <1>2, <1>3

LEMMA PlugStep ==
  ASSUME IInv, NEW k \in Connector, Plug(k)
  PROVE  IInv'
<1>1. TypeOK'
  BY DEF IInv, TypeOK, Plug, kmsVars, objVars, deviceVars, collectVars
<1>2. Phases' /\ Visited' /\ OnePlace' /\ AllFit' /\ OutputsApart' /\ Unshared'
  BY SameHands DEF Plug, deviceVars, collectVars
<1>3. RoutesValid(route)' /\ ScanoutsShown' /\ ObjectsAccounted'
  BY SameKernel DEF Plug, deviceVars
<1>4. QED
  BY <1>1, <1>2, <1>3 DEF IInv

LEMMA RevokeStep ==
  ASSUME IInv, Revoke
  PROVE  IInv'
<1>1. TypeOK'
  BY DEF IInv, TypeOK, Revoke, kmsVars, objVars, collectVars
<1>2. Phases' /\ Visited' /\ OnePlace' /\ AllFit' /\ OutputsApart' /\ Unshared'
  BY SameHands DEF Revoke, collectVars
<1>3. RoutesValid(route)' /\ ScanoutsShown' /\ ObjectsAccounted'
  BY SameKernel DEF Revoke
<1>4. QED
  BY <1>1, <1>2, <1>3 DEF IInv

\* The session is away: nothing is promised to be lit.
LEMMA ForeignStep ==
  ASSUME IInv, NEW k \in Connector, NEW e \in Encoder, NEW c \in Crtc, NEW p \in Plane,
         Foreign(k, e, c, p)
  PROVE  IInv'
<1>1. TypeOK'
  BY DEF IInv, TypeOK, Foreign, objVars, deviceVars, collectVars
<1>2. Phases' /\ Visited' /\ OnePlace' /\ AllFit' /\ OutputsApart' /\ Unshared'
  BY SameHands DEF Foreign, deviceVars, collectVars
<1>3. RoutesValid(route)'
  BY DEF Foreign, RoutesValid
<1>4. ScanoutsShown'
  BY DEF Foreign, ScanoutsShown, deviceVars
<1>5. ObjectsAccounted'
  BY DEF IInv, Foreign, ObjectsAccounted, OwnedFbs, OwnedGems, OwnedBlobs, HeldOn, Held, WorkCard,
         objVars
<1>6. QED
  BY <1>1, <1>2, <1>3, <1>4, <1>5 DEF IInv

\* Removing framebuffers unroutes, at most.
LEMMA Removes ==
  ASSUME TypeOK, RoutesValid(route), NEW removed, RemoveFbs(removed)
  PROVE  /\ RoutesValid(route)'
         /\ route' \in [Connector -> [encoder : Encoder, crtc : Crtc] \cup {None}]
         /\ shows' \in [Plane -> [crtc : Crtc, fb : Handle \cup {Other}] \cup {None}]
         /\ crtcMode' \in [Crtc -> Nat \cup {None}]
<1>1. /\ \A k \in Connector : route'[k] = None \/ route'[k] = route[k]
      /\ route' \in [Connector -> [encoder : Encoder, crtc : Crtc] \cup {None}]
  BY DEF RemoveFbs, TypeOK
<1>2. RoutesValid(route)'
  BY <1>1 DEF RoutesValid
<1>3. shows' \in [Plane -> [crtc : Crtc, fb : Handle \cup {Other}] \cup {None}]
  BY DEF RemoveFbs, TypeOK
<1>4. crtcMode' \in [Crtc -> Nat \cup {None}]
  BY DEF RemoveFbs, TypeOK
<1>5. QED
  BY <1>1, <1>2, <1>3, <1>4

\* Between presentations the table owns every object, and nothing else is in hand.
LEMMA IdleFacts ==
  ASSUME IInv, phase = "idle"
  PROVE  /\ cardsLeft = {} /\ walk = {} /\ card = None /\ targets = NoTargets /\ work = None
         /\ \A c \in Card : fbs[c] = TableFbs(c) /\ gems[c] = TableGems(c) /\ blobs[c] = TableBlobs(c)
<1>1. cardsLeft = {} /\ walk = {} /\ card = None /\ targets = NoTargets /\ work = None
  BY DEF IInv, Phases
<1>2. QED
  BY <1>1 DEF IInv, ObjectsAccounted, OwnedFbs, OwnedGems, OwnedBlobs, TableFbs, TableGems, TableBlobs

\* With nothing in hand and no object left the promises are kept.
LEMMA EmptyHands ==
  ASSUME scanouts' = NoScanouts, targets' = NoTargets, work' = None,
         \A c \in Card : fbs'[c] = {} /\ gems'[c] = {} /\ blobs'[c] = {}
  PROVE  /\ OnePlace' /\ AllFit' /\ OutputsApart' /\ ScanoutsShown' /\ Unshared'
         /\ ObjectsAccounted'
<1>1. \A k \in Connector : scanouts'[k] = None /\ targets'[k] = None
  BY DEF NoScanouts, NoTargets
<1>2. OnePlace' /\ AllFit' /\ ScanoutsShown' /\ Unshared'
  BY <1>1 DEF OnePlace, AllFit, ScanoutsShown, Unshared
<1>3. OutputsApart'
  BY <1>1 DEF OutputsApart, ClaimedCrtc
<1>4. \A c \in Card : OwnedFbs(c)' = {} /\ OwnedGems(c)' = {} /\ OwnedBlobs(c)' = {}
  BY <1>1 DEF OwnedFbs, OwnedGems, OwnedBlobs, HeldOn, Held
<1>5. ObjectsAccounted'
  BY <1>4 DEF ObjectsAccounted
<1>6. QED
  BY <1>2, <1>3, <1>5

\* The variables of the outside and of the devices that a step between two
\* presentations changes have their types.
Devices ==
  /\ plugged \in SUBSET Connector
  /\ changes \in Nat
  /\ open \in SUBSET Card
  /\ live \in SUBSET open
  /\ cached \in SUBSET Connector
  /\ configs \in [Connector -> Config]

LEMMA TypeParts ==
  TypeOK => Devices /\ scanouts \in [Connector -> Scanout \cup {None}]
BY DEF TypeOK, Devices

LEMMA BeginStep ==
  ASSUME IInv, phase = "idle", NEW opened, BeginPresent(opened), opened \subseteq open', Devices'
  PROVE  IInv'
<1>1. TypeOK /\ RoutesValid(route)
  BY DEF IInv
<1>2. /\ cardsLeft = {} /\ walk = {} /\ card = None /\ targets = NoTargets /\ work = None
      /\ \A c \in Card : fbs[c] = TableFbs(c) /\ gems[c] = TableGems(c) /\ blobs[c] = TableBlobs(c)
  BY IdleFacts
<1>3. /\ DropScanouts /\ UNCHANGED <<card, used, walk, targets, work>>
      /\ \/ phase' = "idle" /\ cardsLeft' = cardsLeft
         \/ phase' = "collect" /\ cardsLeft' = opened
  BY DEF BeginPresent
<1>4. scanouts' = NoScanouts /\ targets' = NoTargets /\ work' = None
  BY <1>2, <1>3 DEF DropScanouts
<1>5. \A c \in Card : fbs'[c] = {} /\ gems'[c] = {} /\ blobs'[c] = {}
  BY <1>2, <1>3 DEF DropScanouts, TableFbs, TableGems, TableBlobs
<1>6. /\ RoutesValid(route)'
      /\ route' \in [Connector -> [encoder : Encoder, crtc : Crtc] \cup {None}]
      /\ shows' \in [Plane -> [crtc : Crtc, fb : Handle \cup {Other}] \cup {None}]
      /\ crtcMode' \in [Crtc -> Nat \cup {None}]
  BY <1>1, <1>3, Removes DEF DropScanouts
<1>7. TypeOK'
  <2>1. /\ fbs' \in [Card -> SUBSET Handle] /\ gems' \in [Card -> SUBSET Handle]
        /\ blobs' \in [Card -> SUBSET Handle]
    BY <1>1, <1>3 DEF DropScanouts, TypeOK
  <2>2. /\ scanouts' \in [Connector -> Scanout \cup {None}]
        /\ targets' \in [Connector -> Output \cup {None}] /\ work' \in Work \cup {None}
    BY <1>4 DEF NoScanouts, NoTargets
  <2>3. /\ phase' \in {"idle", "collect", "present"} /\ cardsLeft' \in SUBSET open'
        /\ card' \in Card \cup {None} /\ used' \in SUBSET Crtc /\ walk' \in SUBSET Connector
    BY <1>1, <1>2, <1>3 DEF TypeOK
  <2>4. QED
    BY <1>6, <2>1, <2>2, <2>3 DEF TypeOK, Devices
<1>8. Phases'
  BY <1>2, <1>3, <1>4 DEF Phases
<1>9. Visited'
  <2>1. card' \notin cardsLeft'
    BY <1>2, <1>3, NoneAssumption DEF Devices
  <2>2. QED
    BY <1>2, <1>3, <2>1 DEF Visited, NoTargets
<1>10. QED
  BY <1>4, <1>5, <1>6, <1>7, <1>8, <1>9, EmptyHands DEF IInv

\* No presentation begins: cards may be opened, or configurations change that no
\* output has.
LEMMA StayStep ==
  ASSUME IInv, phase = "idle", Devices', open \subseteq open', live' \cap open \subseteq live,
         UNCHANGED <<kmsVars, objVars, scanouts, phase, collectVars, targets, work>>,
         configs' = configs \/ open = {}
  PROVE  IInv'
<1>1. TypeOK
  BY DEF IInv
<1>2. cardsLeft = {} /\ walk = {} /\ card = None /\ targets = NoTargets /\ work = None
  BY IdleFacts
<1>3. TypeOK'
  BY <1>1, <1>2 DEF TypeOK, Devices, kmsVars, objVars, collectVars
<1>4. \A k \in Connector : scanouts[k] # None => ConnectorCard[k] \in open
  BY DEF IInv, AllFit, Fits
<1>5. RoutesValid(route)' /\ ScanoutsShown' /\ ObjectsAccounted'
  BY <1>4, SameKernel
<1>6. Phases' /\ Visited' /\ OnePlace'
  BY DEF IInv, Phases, Visited, OnePlace, collectVars
<1>7. AllFit'
  BY <1>2, <1>4 DEF IInv, AllFit, Fits, NoTargets
<1>8. OutputsApart'
  BY DEF IInv, OutputsApart, ClaimedCrtc
<1>9. Unshared'
  BY <1>2 DEF Unshared
<1>10. QED
  BY <1>3, <1>5, <1>6, <1>7, <1>8, <1>9 DEF IInv

LEMMA ActivateStep ==
  ASSUME IInv, Activate
  PROVE  IInv'
<1>1. TypeOK /\ Devices
  BY TypeParts DEF IInv
<1>2. phase = "idle" /\ UNCHANGED <<plugged, changes, configs>>
  BY DEF Activate
<1>3. CASE open' = Card /\ live' = live \cup (Card \ open) /\ Probe(Card) /\ BeginPresent(Card)
  <2>1. Devices'
    BY <1>1, <1>2, <1>3 DEF Devices, Probe
  <2>2. QED
    BY <1>2, <1>3, <2>1, BeginStep
<1>4. ASSUME NEW new \in SUBSET (Card \ open), open' = open \cup new, live' = live \cup new,
             \E probed \in SUBSET open' : Probe(probed),
             UNCHANGED <<kmsVars, objVars, scanouts, phase, collectVars, targets, work>>
      PROVE  IInv'
  <2>1. Devices'
    BY <1>1, <1>2, <1>4 DEF Devices, Probe
  <2>2. QED
    BY <1>2, <1>4, <2>1, StayStep
<1>5. QED
  BY <1>3, <1>4 DEF Activate

LEMMA DeactivateStep ==
  ASSUME IInv, Deactivate
  PROVE  IInv'
<1>1. TypeOK /\ Devices /\ RoutesValid(route)
  BY TypeParts DEF IInv
<1>2. /\ phase = "idle" /\ live = {}
      /\ RemoveFbs({pair \in Card \X Handle : pair[2] \in fbs[pair[1]]})
      /\ fbs' = [c \in Card |-> {}] /\ gems' = [c \in Card |-> {}] /\ blobs' = [c \in Card |-> {}]
      /\ scanouts' = NoScanouts /\ open' = {} /\ cached' = {}
      /\ UNCHANGED <<plugged, changes, live, configs, phase, collectVars, targets, work>>
  BY DEF Deactivate
<1>3. cardsLeft = {} /\ walk = {} /\ card = None /\ targets = NoTargets /\ work = None
  BY <1>2, IdleFacts
<1>4. /\ RoutesValid(route)'
      /\ route' \in [Connector -> [encoder : Encoder, crtc : Crtc] \cup {None}]
      /\ shows' \in [Plane -> [crtc : Crtc, fb : Handle \cup {Other}] \cup {None}]
      /\ crtcMode' \in [Crtc -> Nat \cup {None}]
  BY <1>1, <1>2, Removes
<1>5. TypeOK'
  BY <1>1, <1>2, <1>3, <1>4 DEF TypeOK, Devices, collectVars, NoScanouts
<1>6. Phases' /\ Visited'
  BY <1>2, <1>3 DEF Phases, Visited, collectVars
<1>7. OnePlace' /\ AllFit' /\ OutputsApart' /\ ScanoutsShown' /\ Unshared' /\ ObjectsAccounted'
  <2>1. targets' = NoTargets /\ work' = None
    BY <1>2, <1>3
  <2>2. QED
    BY <1>2, <2>1, EmptyHands
<1>8. QED
  BY <1>4, <1>5, <1>6, <1>7 DEF IInv

LEMMA DispatchUdevStep ==
  ASSUME IInv, DispatchUdev
  PROVE  IInv'
<1>1. TypeOK /\ Devices
  BY TypeParts DEF IInv
<1>2. phase = "idle" /\ UNCHANGED <<plugged, changes, open, live, configs>>
  BY DEF DispatchUdev
<1>3. ASSUME NEW probed, Probe(probed) PROVE Devices'
  BY <1>1, <1>2, <1>3 DEF Devices, Probe
<1>4. ASSUME NEW probed \in SUBSET open, Probe(probed),
             UNCHANGED <<kmsVars, objVars, scanouts, phase, collectVars, targets, work>>
      PROVE  IInv'
  BY <1>2, <1>3, <1>4, StayStep
<1>5. CASE Probe(open) /\ BeginPresent(open)
  BY <1>2, <1>3, <1>5, BeginStep
<1>6. QED
  BY <1>4, <1>5 DEF DispatchUdev

LEMMA SetOutputConfigStep ==
  ASSUME IInv, NEW k \in Connector, NEW config \in Config, SetOutputConfig(k, config)
  PROVE  IInv'
<1>1. TypeOK /\ Devices
  BY TypeParts DEF IInv
<1>2. /\ phase = "idle" /\ changes' = changes + 1 /\ configs' = [configs EXCEPT ![k] = config]
      /\ UNCHANGED <<plugged, open, live, cached>>
  BY DEF SetOutputConfig, deviceVars
<1>3. Devices'
  BY <1>1, <1>2 DEF Devices
<1>4. CASE open # {}
  BY <1>2, <1>3, <1>4, BeginStep DEF SetOutputConfig
<1>5. CASE open = {}
  BY <1>2, <1>3, <1>5, StayStep DEF SetOutputConfig
<1>6. QED
  BY <1>4, <1>5

LEMMA RepresentStep ==
  ASSUME IInv, Represent
  PROVE  IInv'
<1>1. Devices
  BY TypeParts DEF IInv
<1>2. /\ phase = "idle" /\ BeginPresent(open) /\ UNCHANGED <<plugged, changes, open, live, cached, configs>>
  BY DEF Represent, deviceVars
<1>3. Devices'
  BY <1>1, <1>2 DEF Devices
<1>4. QED
  BY <1>2, <1>3, BeginStep

----------------------------------------------------------------------------
(* The cards are visited.                                                  *)

\* While they are, nothing is lit or in work.
LEMMA CollectFacts ==
  ASSUME IInv, phase = "collect"
  PROVE  scanouts = NoScanouts /\ work = None
BY DEF IInv, Phases

LEMMA VisitCardStep ==
  ASSUME IInv, NEW c \in Card, VisitCard(c)
  PROVE  IInv'
<1>1. /\ phase = "collect" /\ walk = {} /\ c \in cardsLeft
      /\ cardsLeft' = cardsLeft \ {c} /\ card' = c /\ used' = {}
      /\ walk' = {k \in cached : ConnectorCard[k] = c /\ configs[k].enabled}
      /\ UNCHANGED <<plugged, kmsVars, objVars, changes, deviceVars, configs, scanouts, phase,
                     targets, work>>
  BY DEF VisitCard
<1>2. TypeOK /\ scanouts = NoScanouts /\ work = None
  BY <1>1, CollectFacts DEF IInv
<1>3. TypeOK'
  BY <1>1, <1>2 DEF TypeOK, kmsVars, objVars, deviceVars
<1>4. RoutesValid(route)' /\ ScanoutsShown' /\ ObjectsAccounted'
  BY <1>1, SameKernel DEF deviceVars
<1>5. Phases' /\ OnePlace'
  BY <1>1 DEF IInv, Phases, OnePlace
<1>6. Visited'
  <2>1. \A k \in walk' : ConnectorCard[k] = card' /\ card' \in open' /\ configs'[k].enabled
    BY <1>1, <1>2 DEF TypeOK, deviceVars
  <2>2. \A k \in Connector : targets'[k] # None =>
          ConnectorCard[k] \notin cardsLeft' /\ ConnectorCard[k] # card'
    BY <1>1 DEF IInv, Visited
  <2>3. QED
    BY <1>1, <2>1, <2>2 DEF Visited
<1>7. AllFit'
  BY <1>1 DEF IInv, AllFit, Fits, deviceVars
<1>8. OutputsApart'
  BY <1>1 DEF IInv, OutputsApart, ClaimedCrtc
<1>9. Unshared'
  BY <1>1, <1>2 DEF Unshared
<1>10. QED
  BY <1>3, <1>4, <1>5, <1>6, <1>7, <1>8, <1>9 DEF IInv

LEMMA ResolveNoneStep ==
  ASSUME IInv, NEW k \in Connector, ResolveNone(k)
  PROVE  IInv'
<1>1. /\ phase = "collect" /\ walk' = walk \ {k}
      /\ UNCHANGED <<plugged, kmsVars, objVars, changes, deviceVars, configs, scanouts, phase,
                     cardsLeft, card, used, targets, work>>
  BY DEF ResolveNone
<1>2. TypeOK /\ scanouts = NoScanouts /\ work = None
  BY <1>1, CollectFacts DEF IInv
<1>3. TypeOK'
  BY <1>1, <1>2 DEF TypeOK, kmsVars, objVars, deviceVars
<1>4. RoutesValid(route)' /\ ScanoutsShown' /\ ObjectsAccounted'
  BY <1>1, SameKernel DEF deviceVars
<1>5. Phases' /\ OnePlace'
  BY <1>1 DEF IInv, Phases, OnePlace
<1>6. Visited'
  BY <1>1 DEF IInv, Visited, deviceVars
<1>7. AllFit'
  BY <1>1 DEF IInv, AllFit, Fits, deviceVars
<1>8. OutputsApart'
  BY <1>1 DEF IInv, OutputsApart, ClaimedCrtc
<1>9. Unshared'
  BY <1>1, <1>2 DEF Unshared
<1>10. QED
  BY <1>3, <1>4, <1>5, <1>6, <1>7, <1>8, <1>9 DEF IInv

\* The new output takes a CRTC of its card that none of the card's outputs has; those
\* of other cards have other CRTCs.
LEMMA ResolveStep ==
  ASSUME IInv, NEW k \in Connector, Resolve(k)
  PROVE  IInv'
<1> DEFINE crtc == FindCrtc(k)
           output == [crtc |-> crtc, plane |-> FindPrimaryPlane(crtc),
                      mode |-> SelectMode(k, configs[k].mode)]
<1>1. /\ phase = "collect" /\ walk # {} /\ k = Lowest(walk) /\ walk' = walk \ {k}
      /\ crtc # None /\ FindPrimaryPlane(crtc) # None /\ used' = used \cup {crtc}
      /\ targets' = [targets EXCEPT ![k] = output] \/ targets' = targets
      /\ UNCHANGED <<plugged, kmsVars, objVars, changes, deviceVars, configs, scanouts, phase,
                     cardsLeft, card, work>>
  BY DEF Resolve
<1>2. TypeOK /\ scanouts = NoScanouts /\ work = None /\ RoutesValid(route)
  BY <1>1, CollectFacts DEF IInv
<1>3. k \in walk
  BY <1>1, <1>2, Minimum, OrderAssumption DEF TypeOK
<1>4. /\ ConnectorCard[k] = card /\ card \in open /\ card \notin cardsLeft /\ configs[k].enabled
      /\ \A j \in Connector : targets[j] # None =>
           ConnectorCard[j] \notin cardsLeft /\ (ConnectorCard[j] = card => targets[j].crtc \in used)
  BY <1>1, <1>3 DEF IInv, Visited
<1>5. crtc \in Crtc /\ crtc \notin used /\ CrtcCard[crtc] = card
  BY <1>1, <1>2, <1>4, Finds DEF TypeOK
<1>6. FindPrimaryPlane(crtc) \in Plane
  BY <1>1, FindsPlane
<1>7. /\ SelectMode(k, configs[k].mode) \in Nat
      /\ \A i \in DOMAIN Modes[k] : Modes[k][i] = configs[k].mode =>
           Modes[k][SelectMode(k, configs[k].mode)] = configs[k].mode
  BY Selects
<1>8. /\ output \in Output /\ output.crtc = crtc /\ output.mode = SelectMode(k, configs[k].mode)
  BY <1>5, <1>6, <1>7 DEF Output
<1> HIDE DEF output, crtc
<1>9. \A j \in Connector : targets'[j] = targets[j] \/ (j = k /\ targets'[j] = output)
  BY <1>1, <1>2 DEF TypeOK
<1>10. TypeOK'
  <2>1. targets' \in [Connector -> Output \cup {None}]
    BY <1>1, <1>2, <1>8 DEF TypeOK
  <2>2. used' \in SUBSET Crtc /\ walk' \in SUBSET Connector
    BY <1>1, <1>2, <1>5 DEF TypeOK
  <2>3. QED
    BY <1>1, <1>2, <2>1, <2>2 DEF TypeOK, kmsVars, objVars, deviceVars
<1>11. RoutesValid(route)' /\ ScanoutsShown' /\ ObjectsAccounted'
  BY <1>1, SameKernel DEF deviceVars
<1>12. Phases' /\ OnePlace'
  <2>1. Phases'
    BY <1>1 DEF IInv, Phases
  <2>2. OnePlace'
    BY <1>1, <1>2 DEF OnePlace, NoScanouts
  <2>3. QED
    BY <2>1, <2>2
<1>13. Visited'
  <2>1. \A j \in walk' : ConnectorCard[j] = card' /\ card' \in open' /\ configs'[j].enabled
    BY <1>1 DEF IInv, Visited, deviceVars
  <2>2. \A j \in Connector : targets'[j] # None =>
          ConnectorCard[j] \notin cardsLeft' /\ (ConnectorCard[j] = card' => targets'[j].crtc \in used')
    BY <1>1, <1>4, <1>8, <1>9
  <2>3. QED
    BY <1>1, <1>4, <2>1, <2>2 DEF Visited
<1>14. Fits(k, output)
  BY <1>4, <1>5, <1>7, <1>8 DEF Fits
<1>15. AllFit'
  <2>1. \A j \in Connector : targets'[j] # None => Fits(j, targets'[j])
    BY <1>9, <1>14 DEF IInv, AllFit
  <2>2. open' = open /\ configs' = configs
    BY <1>1 DEF deviceVars
  <2>3. \A j \in Connector : targets'[j] # None => Fits(j, targets[j])'
    BY <2>1, <2>2 DEF Fits
  <2>4. QED
    BY <1>1, <1>2, <2>3 DEF AllFit, NoScanouts
<1>16. OutputsApart'
  <2>1. \A j \in Connector : /\ ClaimedCrtc(j) = IF targets[j] # None THEN targets[j].crtc ELSE None
                             /\ ClaimedCrtc(j)' = IF targets'[j] # None THEN targets'[j].crtc ELSE None
    BY <1>1, <1>2 DEF ClaimedCrtc, NoScanouts
  <2>2. \A j \in Connector : \/ ClaimedCrtc(j)' = ClaimedCrtc(j)
                             \/ ClaimedCrtc(j)' = None
                             \/ /\ j = k
                                /\ ClaimedCrtc(j)' = crtc
    BY <1>8, <1>9, <2>1
  <2>3. \A j \in Connector : ClaimedCrtc(j) # crtc
    <3> SUFFICES ASSUME NEW j \in Connector, targets[j] # None PROVE targets[j].crtc # crtc
      BY <1>1, <2>1
    <3>1. CrtcCard[targets[j].crtc] = ConnectorCard[j]
      BY DEF IInv, AllFit, Fits
    <3>2. QED
      BY <1>4, <1>5, <3>1
  <2>4. CrtcCard[crtc] = ConnectorCard[k]
    BY <1>4, <1>5
  <2>5. OutputsApart
    BY DEF IInv
  <2>6. QED
    BY <2>2, <2>3, <2>4, <2>5 DEF OutputsApart
<1>17. Unshared'
  BY <1>1, <1>2 DEF Unshared
<1>18. QED
  BY <1>10, <1>11, <1>12, <1>13, <1>15, <1>16, <1>17 DEF IInv

LEMMA CollectDoneStep ==
  ASSUME IInv, CollectDone
  PROVE  IInv'
<1>1. /\ phase = "collect" /\ walk = {} /\ cardsLeft = {} /\ phase' = "present"
      /\ card' = None /\ used' = {}
      /\ UNCHANGED <<plugged, kmsVars, objVars, changes, deviceVars, configs, scanouts,
                     cardsLeft, walk, targets, work>>
  BY DEF CollectDone
<1>2. TypeOK /\ scanouts = NoScanouts /\ work = None
  BY <1>1, CollectFacts DEF IInv
<1>3. TypeOK'
  BY <1>1, <1>2 DEF TypeOK, kmsVars, objVars, deviceVars
<1>4. RoutesValid(route)' /\ ScanoutsShown' /\ ObjectsAccounted'
  BY <1>1, SameKernel DEF deviceVars
<1>5. Phases' /\ Visited' /\ OnePlace'
  BY <1>1 DEF IInv, Phases, Visited, OnePlace
<1>6. AllFit'
  BY <1>1 DEF IInv, AllFit, Fits, deviceVars
<1>7. OutputsApart'
  BY <1>1 DEF IInv, OutputsApart, ClaimedCrtc
<1>8. Unshared'
  BY <1>1, <1>2 DEF Unshared
<1>9. QED
  BY <1>3, <1>4, <1>5, <1>6, <1>7, <1>8 DEF IInv

----------------------------------------------------------------------------
(* The outputs are presented.                                              *)

\* What the step under way owns on a card.
WorkFbs(c) == IF work # None /\ WorkCard = c /\ work.fb # None THEN {work.fb} ELSE {}
WorkGems(c) == IF work # None /\ WorkCard = c THEN {work.gem} ELSE {}
WorkBlobs(c) == IF work # None /\ WorkCard = c /\ work.blob # None THEN {work.blob} ELSE {}

LEMMA Accounts ==
  ObjectsAccounted <=>
    \A c \in Card : /\ fbs[c] = TableFbs(c) \cup WorkFbs(c)
                    /\ gems[c] = TableGems(c) \cup WorkGems(c)
                    /\ blobs[c] = TableBlobs(c) \cup WorkBlobs(c)
BY DEF ObjectsAccounted, OwnedFbs, OwnedGems, OwnedBlobs, TableFbs, TableGems, TableBlobs,
       WorkFbs, WorkGems, WorkBlobs

\* A step that leaves the table and the kernel's picture alone is right if what it has
\* in work and what the kernel keeps agree.
LEMMA WorkStep ==
  ASSUME IInv, phase = "present", TypeOK',
         UNCHANGED <<plugged, kmsVars, changes, deviceVars, configs, scanouts, phase, collectVars>>,
         \A k \in Connector : targets'[k] = targets[k] \/ targets'[k] = None,
         \/ work' = None
         \/ /\ work # None /\ work'.connector = work.connector
            /\ work'.output = work.output
         \/ /\ work = None /\ targets[work'.connector] # None
            /\ work'.output = targets[work'.connector]
            /\ targets'[work'.connector] = None,
         \A c \in Card : /\ fbs'[c] = TableFbs(c) \cup WorkFbs(c)'
                         /\ gems'[c] = TableGems(c) \cup WorkGems(c)'
                         /\ blobs'[c] = TableBlobs(c) \cup WorkBlobs(c)',
         work' # None =>
           /\ work'.blob # None => work'.fb # None
           /\ work'.fb \notin TableFbs(WorkCard')
           /\ work'.gem \notin TableGems(WorkCard')
           /\ work'.blob \notin TableBlobs(WorkCard')
  PROVE  IInv'
<1>1. TypeOK
  BY DEF IInv
<1>2. scanouts' = scanouts /\ open' = open /\ live' = live /\ configs' = configs /\ phase' = phase
  BY DEF deviceVars
<1>3. work' # None => work'.connector \in Connector /\ work'.output \in Output
  BY DEF TypeOK, Work
<1>4. RoutesValid(route)' /\ ScanoutsShown'
  BY <1>2 DEF IInv, RoutesValid, ScanoutsShown, kmsVars
<1>5. Phases' /\ Visited'
  BY <1>2 DEF IInv, Phases, Visited, collectVars
<1>6. OnePlace'
  BY <1>2, <1>3 DEF IInv, OnePlace
<1>7. AllFit'
  <2>1. \A k \in Connector : targets'[k] # None => Fits(k, targets'[k])
    BY DEF IInv, AllFit
  <2>2. work' # None => Fits(work'.connector, work'.output)
    BY <1>3 DEF IInv, AllFit
  <2>3. \A k \in Connector : scanouts'[k] # None => Fits(k, scanouts'[k].output)
    BY <1>2 DEF IInv, AllFit
  <2>4. QED
    BY <1>2, <2>1, <2>2, <2>3 DEF AllFit, Fits
<1>8. OutputsApart'
  <2>1. \A k \in Connector : ClaimedCrtc(k)' = ClaimedCrtc(k) \/ ClaimedCrtc(k)' = None
    BY <1>2, <1>3 DEF IInv, OnePlace, ClaimedCrtc
  <2>2. OutputsApart
    BY DEF IInv
  <2>3. QED
    BY <2>1, <2>2, Moves
<1>9. \A c \in Card : TableFbs(c)' = TableFbs(c) /\ TableGems(c)' = TableGems(c) /\ TableBlobs(c)' = TableBlobs(c)
  BY <1>2 DEF TableFbs, TableGems, TableBlobs, HeldOn, Held
<1>10. ObjectsAccounted'
  BY <1>9 DEF ObjectsAccounted, OwnedFbs, OwnedGems, OwnedBlobs, TableFbs, TableGems, TableBlobs,
              WorkFbs, WorkGems, WorkBlobs
<1>11. Unshared'
  <2>1. work' # None => WorkCard' \in Card
    BY <1>3, CardAssumption DEF WorkCard
  <2>2. QED
    BY <1>9, <2>1 DEF Unshared
<1>12. QED
  BY <1>4, <1>5, <1>6, <1>7, <1>8, <1>10, <1>11 DEF IInv

\* What the kernel keeps, while outputs are presented.
LEMMA WorkFacts ==
  ASSUME IInv
  PROVE  /\ TypeOK /\ Unshared
         /\ \A c \in Card : /\ fbs[c] = TableFbs(c) \cup WorkFbs(c)
                            /\ gems[c] = TableGems(c) \cup WorkGems(c)
                            /\ blobs[c] = TableBlobs(c) \cup WorkBlobs(c)
         /\ work # None => /\ work.connector \in Connector /\ work.output \in Output
                           /\ WorkCard \in Card /\ work.gem \in Handle
<1>1. TypeOK /\ Unshared /\ ObjectsAccounted
  BY DEF IInv
<1>2. work # None => /\ work.connector \in Connector /\ work.output \in Output
                     /\ work.gem \in Handle
  BY <1>1 DEF TypeOK, Work
<1>3. QED
  BY <1>1, <1>2, Accounts, CardAssumption DEF WorkCard

\* The table owns handles only.
LEMMA TableHandles ==
  ASSUME TypeOK, NEW c
  PROVE  TableFbs(c) \subseteq Handle /\ TableGems(c) \subseteq Handle /\ TableBlobs(c) \subseteq Handle
<1>1. \A k \in HeldOn(c) : scanouts[k] \in Scanout
  BY DEF TypeOK, HeldOn, Held
<1>2. QED
  BY <1>1 DEF TableFbs, TableGems, TableBlobs, Scanout

LEMMA ImportStep ==
  ASSUME IInv, NEW k \in Connector, Import(k)
  PROVE  IInv'
<1> DEFINE taken(h) == [connector |-> k, output |-> targets[k], gem |-> h, fb |-> None, blob |-> None]
<1>1. /\ phase = "present" /\ work = None /\ ToPresent # {} /\ k = Lowest(ToPresent)
      /\ targets' = [targets EXCEPT ![k] = None]
      /\ UNCHANGED <<plugged, kmsVars, fbs, blobs, changes, deviceVars, configs, scanouts, phase,
                     collectVars>>
      /\ \/ gems' = gems /\ work' = work
         \/ \E h \in FreeHandle(gems[ConnectorCard[k]]) :
              /\ gems' = [gems EXCEPT ![ConnectorCard[k]] = gems[ConnectorCard[k]] \cup {h}]
              /\ work' = taken(h)
  BY DEF Import
<1>2. /\ TypeOK /\ ConnectorCard[k] \in Card
      /\ \A c \in Card : fbs[c] = TableFbs(c) /\ gems[c] = TableGems(c) /\ blobs[c] = TableBlobs(c)
  BY <1>1, WorkFacts, CardAssumption DEF WorkFbs, WorkGems, WorkBlobs
<1>3. targets[k] # None /\ targets[k] \in Output
  <2>1. ToPresent \in SUBSET Nat
    BY OrderAssumption DEF ToPresent
  <2>2. k \in ToPresent
    BY <1>1, <2>1, Minimum
  <2>3. targets \in [Connector -> Output \cup {None}]
    BY <1>2 DEF TypeOK
  <2>4. QED
    BY <2>2, <2>3 DEF ToPresent
<1>4. targets' \in [Connector -> Output \cup {None}] /\ targets'[k] = None
      /\ \A j \in Connector \ {k} : targets'[j] = targets[j]
  BY <1>1, <1>2 DEF TypeOK
<1>5. CASE gems' = gems /\ work' = work
  <2>1. TypeOK'
    BY <1>1, <1>2, <1>4, <1>5 DEF TypeOK, kmsVars, deviceVars, collectVars
  <2>2. \A c \in Card : WorkFbs(c)' = {} /\ WorkGems(c)' = {} /\ WorkBlobs(c)' = {}
    BY <1>1, <1>5 DEF WorkFbs, WorkGems, WorkBlobs
  <2>3. QED
    BY <1>1, <1>2, <1>4, <1>5, <2>1, <2>2, WorkStep
<1>6. ASSUME NEW h \in FreeHandle(gems[ConnectorCard[k]]),
             gems' = [gems EXCEPT ![ConnectorCard[k]] = gems[ConnectorCard[k]] \cup {h}],
             work' = taken(h)
      PROVE  IInv'
  <2>1. h \in Handle /\ h \notin TableGems(ConnectorCard[k])
    BY <1>2 DEF FreeHandle
  <2>2. /\ work' \in Work /\ work'.connector = k /\ work'.output = targets[k] /\ work'.gem = h
        /\ work'.fb = None /\ work'.blob = None /\ work' # None
    BY <1>3, <1>6, <2>1, RecordAssumption DEF Work
  <2>3. WorkCard' = ConnectorCard[k]
    BY <2>2 DEF WorkCard
  <2>4. TypeOK'
    <3>1. gems' \in [Card -> SUBSET Handle]
      BY <1>2, <1>6, <2>1 DEF TypeOK
    <3>2. QED
      BY <1>1, <1>2, <1>4, <2>2, <3>1 DEF TypeOK, kmsVars, deviceVars, collectVars
  <2>5. \A c \in Card : /\ WorkFbs(c)' = {} /\ WorkBlobs(c)' = {}
                        /\ WorkGems(c)' = IF c = ConnectorCard[k] THEN {h} ELSE {}
    BY <2>2, <2>3 DEF WorkFbs, WorkGems, WorkBlobs
  <2>6. \A c \in Card : gems'[c] = IF c = ConnectorCard[k] THEN gems[c] \cup {h} ELSE gems[c]
    BY <1>2, <1>6 DEF TypeOK
  <2>7. \A c \in Card : /\ fbs'[c] = TableFbs(c) \cup WorkFbs(c)'
                        /\ gems'[c] = TableGems(c) \cup WorkGems(c)'
                        /\ blobs'[c] = TableBlobs(c) \cup WorkBlobs(c)'
    <3> SUFFICES ASSUME NEW c \in Card
                 PROVE  /\ fbs'[c] = TableFbs(c) \cup WorkFbs(c)'
                        /\ gems'[c] = TableGems(c) \cup WorkGems(c)'
                        /\ blobs'[c] = TableBlobs(c) \cup WorkBlobs(c)'
      OBVIOUS
    <3>1. fbs'[c] = TableFbs(c) /\ blobs'[c] = TableBlobs(c) /\ gems[c] = TableGems(c)
      BY <1>1, <1>2
    <3> HIDE DEF taken
    <3>2. QED
      BY <2>5, <2>6, <3>1
  <2>8. None \notin TableFbs(ConnectorCard[k]) /\ None \notin TableBlobs(ConnectorCard[k])
    BY <1>2, TableHandles, NoneAssumption
  <2> HIDE DEF taken
  <2>9. /\ \A j \in Connector : targets'[j] = targets[j] \/ targets'[j] = None
        /\ work = None /\ targets[work'.connector] # None
        /\ work'.output = targets[work'.connector] /\ targets'[work'.connector] = None
    BY <1>1, <1>3, <1>4, <2>2
  <2>10. /\ work'.fb \notin TableFbs(WorkCard') /\ work'.gem \notin TableGems(WorkCard')
         /\ work'.blob \notin TableBlobs(WorkCard') /\ work'.blob = None
    BY <2>1, <2>2, <2>3, <2>8
  <2>11. QED
    BY <1>1, <2>4, <2>7, <2>9, <2>10, WorkStep
<1>7. QED
  BY <1>1, <1>5, <1>6

\* The step under way is given up, and what it had made freed.
LEMMA GivesUp ==
  ASSUME IInv, phase = "present", work # None,
         UNCHANGED <<plugged, kmsVars, changes, deviceVars, configs, scanouts, phase,
                     collectVars, targets>>,
         work' = None,
         \A c \in Card : /\ fbs'[c] = fbs[c] \ WorkFbs(c)
                         /\ gems'[c] = gems[c] \ WorkGems(c)
                         /\ blobs'[c] = blobs[c] \ WorkBlobs(c),
         fbs' \in [Card -> SUBSET Handle], gems' \in [Card -> SUBSET Handle],
         blobs' \in [Card -> SUBSET Handle]
  PROVE  IInv'
<1>1. TypeOK'
  BY WorkFacts DEF TypeOK, kmsVars, deviceVars, collectVars
<1>2. \A c \in Card : WorkFbs(c)' = {} /\ WorkGems(c)' = {} /\ WorkBlobs(c)' = {}
  BY DEF WorkFbs, WorkGems, WorkBlobs
<1>3. \A c \in Card : /\ WorkFbs(c) \cap TableFbs(c) = {} /\ WorkGems(c) \cap TableGems(c) = {}
                      /\ WorkBlobs(c) \cap TableBlobs(c) = {}
  BY WorkFacts DEF Unshared, WorkFbs, WorkGems, WorkBlobs
<1>4. \A c \in Card : /\ fbs[c] = TableFbs(c) \cup WorkFbs(c)
                      /\ gems[c] = TableGems(c) \cup WorkGems(c)
                      /\ blobs[c] = TableBlobs(c) \cup WorkBlobs(c)
  BY WorkFacts
<1>5. \A c \in Card : /\ fbs'[c] = TableFbs(c) \cup WorkFbs(c)'
                      /\ gems'[c] = TableGems(c) \cup WorkGems(c)'
                      /\ blobs'[c] = TableBlobs(c) \cup WorkBlobs(c)'
  <2> SUFFICES ASSUME NEW c \in Card
               PROVE  /\ fbs'[c] = TableFbs(c) \cup WorkFbs(c)'
                      /\ gems'[c] = TableGems(c) \cup WorkGems(c)'
                      /\ blobs'[c] = TableBlobs(c) \cup WorkBlobs(c)'
    OBVIOUS
  <2>1. fbs'[c] = TableFbs(c) /\ gems'[c] = TableGems(c) /\ blobs'[c] = TableBlobs(c)
    <3>1. fbs'[c] = TableFbs(c)
      BY <1>3, <1>4
    <3>2. gems'[c] = TableGems(c)
      BY <1>3, <1>4
    <3>3. blobs'[c] = TableBlobs(c)
      BY <1>3, <1>4
    <3>4. QED
      BY <3>1, <3>2, <3>3
  <2>2. QED
    BY <1>2, <2>1
<1>6. QED
  BY <1>1, <1>5, WorkStep

\* A framebuffer, a handle or a blob less of the step under way.
LEMMA Freeing ==
  ASSUME TypeOK, work # None, NEW c \in Card, NEW h
  PROVE  /\ Without(fbs, h)[c] = IF c = WorkCard THEN fbs[c] \ {h} ELSE fbs[c]
         /\ Without(gems, h)[c] = IF c = WorkCard THEN gems[c] \ {h} ELSE gems[c]
         /\ Without(blobs, h)[c] = IF c = WorkCard THEN blobs[c] \ {h} ELSE blobs[c]
         /\ Without(fbs, h) \in [Card -> SUBSET Handle]
         /\ Without(gems, h) \in [Card -> SUBSET Handle]
         /\ Without(blobs, h) \in [Card -> SUBSET Handle]
BY DEF Without, TypeOK

LEMMA AddFbStep ==
  ASSUME IInv, AddFb
  PROVE  IInv'
<1>1. /\ phase = "present" /\ work # None /\ work.fb = None
      /\ UNCHANGED <<plugged, kmsVars, blobs, changes, deviceVars, configs, scanouts, phase,
                     collectVars, targets>>
      /\ \/ gems' = Without(gems, work.gem) /\ work' = None /\ fbs' = fbs
         \/ \E h \in FreeHandle(fbs[WorkCard]) :
              /\ fbs' = With(fbs, h) /\ gems' = gems
              /\ work' = [work EXCEPT !.fb = h]
  BY DEF AddFb
<1>2. /\ TypeOK /\ Unshared /\ work \in Work
      /\ work.connector \in Connector /\ work.output \in Output
      /\ WorkCard \in Card /\ work.gem \in Handle /\ work.blob = None
  BY <1>1, WorkFacts DEF Unshared, TypeOK
<1>3. \A c \in Card : /\ WorkFbs(c) = {} /\ WorkBlobs(c) = {}
                      /\ WorkGems(c) = IF c = WorkCard THEN {work.gem} ELSE {}
  BY <1>1, <1>2 DEF WorkFbs, WorkGems, WorkBlobs
<1>4. CASE gems' = Without(gems, work.gem) /\ work' = None /\ fbs' = fbs
  <2>1. ASSUME NEW c \in Card PROVE gems'[c] = gems[c] \ WorkGems(c)
    <3>1. gems'[c] = IF c = WorkCard THEN gems[c] \ {work.gem} ELSE gems[c]
      BY <1>1, <1>2, <1>4, Freeing
    <3>2. QED
      BY <1>3, <3>1
  <2>2. \A c \in Card : fbs'[c] = fbs[c] \ WorkFbs(c) /\ blobs'[c] = blobs[c] \ WorkBlobs(c)
    BY <1>1, <1>3, <1>4
  <2>3. /\ fbs' \in [Card -> SUBSET Handle] /\ gems' \in [Card -> SUBSET Handle]
        /\ blobs' \in [Card -> SUBSET Handle]
    BY <1>1, <1>2, <1>4, Freeing DEF TypeOK
  <2>4. QED
    BY <1>1, <1>4, <2>1, <2>2, <2>3, GivesUp
<1>5. ASSUME NEW h \in FreeHandle(fbs[WorkCard]), fbs' = With(fbs, h), gems' = gems,
             work' = [work EXCEPT !.fb = h]
      PROVE  IInv'
  <2>1. h \in Handle /\ h \notin fbs[WorkCard] /\ h # None
    BY NoneAssumption DEF FreeHandle
  <2>2. /\ work' \in Work /\ work'.connector = work.connector /\ work'.output = work.output
        /\ work'.gem = work.gem /\ work'.fb = h /\ work'.blob = None /\ work' # None
    BY <1>2, <1>5, <2>1, RecordAssumption DEF Work
  <2>3. WorkCard' = WorkCard
    BY <2>2 DEF WorkCard
  <2>4. /\ fbs' \in [Card -> SUBSET Handle]
        /\ \A c \in Card : fbs'[c] = IF c = WorkCard THEN fbs[c] \cup {h} ELSE fbs[c]
    BY <1>2, <1>5, <2>1 DEF With, TypeOK
  <2>5. TypeOK'
    BY <1>1, <1>2, <1>5, <2>2, <2>4 DEF TypeOK, kmsVars, deviceVars, collectVars
  <2>6. \A c \in Card : /\ WorkFbs(c)' = IF c = WorkCard THEN {h} ELSE {}
                        /\ WorkGems(c)' = WorkGems(c) /\ WorkBlobs(c)' = WorkBlobs(c)
    BY <1>1, <1>2, <2>1, <2>2, <2>3 DEF WorkFbs, WorkGems, WorkBlobs
  <2>7. \A c \in Card : /\ fbs[c] = TableFbs(c) \cup WorkFbs(c)
                        /\ gems[c] = TableGems(c) \cup WorkGems(c)
                        /\ blobs[c] = TableBlobs(c) \cup WorkBlobs(c)
    BY WorkFacts
  <2>8. \A c \in Card : /\ fbs'[c] = TableFbs(c) \cup WorkFbs(c)'
                        /\ gems'[c] = TableGems(c) \cup WorkGems(c)'
                        /\ blobs'[c] = TableBlobs(c) \cup WorkBlobs(c)'
    <3> SUFFICES ASSUME NEW c \in Card
                 PROVE  /\ fbs'[c] = TableFbs(c) \cup WorkFbs(c)'
                        /\ gems'[c] = TableGems(c) \cup WorkGems(c)'
                        /\ blobs'[c] = TableBlobs(c) \cup WorkBlobs(c)'
      OBVIOUS
    <3>1. fbs[c] = TableFbs(c) /\ gems' = gems /\ blobs' = blobs
      BY <1>1, <1>3, <1>5, <2>7
    <3>2. QED
      BY <2>4, <2>6, <2>7, <3>1
  <2>9. h \notin TableFbs(WorkCard)
    BY <1>2, <2>1, <2>7
  <2>10. /\ work'.fb \notin TableFbs(WorkCard') /\ work'.gem \notin TableGems(WorkCard')
         /\ work'.blob \notin TableBlobs(WorkCard')
    BY <1>1, <1>2, <2>2, <2>3, <2>9 DEF Unshared
  <2>11. QED
    BY <1>1, <2>2, <2>5, <2>8, <2>10, WorkStep
<1>6. QED
  BY <1>1, <1>4, <1>5

LEMMA CreateBlobStep ==
  ASSUME IInv, CreateBlob
  PROVE  IInv'
<1>1. /\ phase = "present" /\ work # None /\ work.fb # None /\ work.blob = None
      /\ UNCHANGED <<plugged, kmsVars, changes, deviceVars, configs, scanouts, phase,
                     collectVars, targets>>
      /\ \/ /\ fbs' = Without(fbs, work.fb) /\ gems' = Without(gems, work.gem)
            /\ work' = None /\ blobs' = blobs
         \/ \E h \in FreeHandle(blobs[WorkCard]) :
              /\ blobs' = With(blobs, h) /\ fbs' = fbs /\ gems' = gems
              /\ work' = [work EXCEPT !.blob = h]
  BY DEF CreateBlob
<1>2. /\ TypeOK /\ Unshared /\ work \in Work
      /\ work.connector \in Connector /\ work.output \in Output
      /\ WorkCard \in Card /\ work.gem \in Handle /\ work.fb \in Handle
  BY <1>1, WorkFacts DEF TypeOK, Work
<1>3. \A c \in Card : /\ WorkBlobs(c) = {}
                      /\ WorkFbs(c) = IF c = WorkCard THEN {work.fb} ELSE {}
                      /\ WorkGems(c) = IF c = WorkCard THEN {work.gem} ELSE {}
  BY <1>1, <1>2 DEF WorkFbs, WorkGems, WorkBlobs
<1>4. CASE /\ fbs' = Without(fbs, work.fb) /\ gems' = Without(gems, work.gem)
           /\ work' = None /\ blobs' = blobs
  <2>1. \A c \in Card : gems'[c] = gems[c] \ WorkGems(c) /\ fbs'[c] = fbs[c] \ WorkFbs(c)
    <3> SUFFICES ASSUME NEW c \in Card
                 PROVE  gems'[c] = gems[c] \ WorkGems(c) /\ fbs'[c] = fbs[c] \ WorkFbs(c)
      OBVIOUS
    <3>1. gems'[c] = IF c = WorkCard THEN gems[c] \ {work.gem} ELSE gems[c]
      BY <1>1, <1>2, <1>4, Freeing
    <3>2. fbs'[c] = IF c = WorkCard THEN fbs[c] \ {work.fb} ELSE fbs[c]
      BY <1>1, <1>2, <1>4, Freeing
    <3>3. gems'[c] = gems[c] \ WorkGems(c)
      BY <1>3, <3>1
    <3>4. fbs'[c] = fbs[c] \ WorkFbs(c)
      BY <1>3, <3>2
    <3>5. QED
      BY <3>3, <3>4
  <2>2. \A c \in Card : blobs'[c] = blobs[c] \ WorkBlobs(c)
    BY <1>3, <1>4
  <2>3. /\ fbs' \in [Card -> SUBSET Handle] /\ gems' \in [Card -> SUBSET Handle]
        /\ blobs' \in [Card -> SUBSET Handle]
    BY <1>1, <1>2, <1>4, Freeing DEF TypeOK
  <2>4. QED
    BY <1>1, <1>4, <2>1, <2>2, <2>3, GivesUp
<1>5. ASSUME NEW h \in FreeHandle(blobs[WorkCard]), blobs' = With(blobs, h), fbs' = fbs,
             gems' = gems, work' = [work EXCEPT !.blob = h]
      PROVE  IInv'
  <2>1. h \in Handle /\ h \notin blobs[WorkCard] /\ h # None
    BY NoneAssumption DEF FreeHandle
  <2>2. /\ work' \in Work /\ work'.connector = work.connector /\ work'.output = work.output
        /\ work'.gem = work.gem /\ work'.fb = work.fb /\ work'.blob = h /\ work' # None
    BY <1>2, <1>5, <2>1, RecordAssumption DEF Work
  <2>3. WorkCard' = WorkCard
    BY <2>2 DEF WorkCard
  <2>4. /\ blobs' \in [Card -> SUBSET Handle]
        /\ \A c \in Card : blobs'[c] = IF c = WorkCard THEN blobs[c] \cup {h} ELSE blobs[c]
    BY <1>2, <1>5, <2>1 DEF With, TypeOK
  <2>5. TypeOK'
    BY <1>1, <1>2, <1>5, <2>2, <2>4 DEF TypeOK, kmsVars, deviceVars, collectVars
  <2>6. \A c \in Card : /\ WorkBlobs(c)' = IF c = WorkCard THEN {h} ELSE {}
                        /\ WorkGems(c)' = WorkGems(c) /\ WorkFbs(c)' = WorkFbs(c)
    BY <1>1, <1>2, <2>1, <2>2, <2>3 DEF WorkFbs, WorkGems, WorkBlobs
  <2>7. \A c \in Card : /\ fbs[c] = TableFbs(c) \cup WorkFbs(c)
                        /\ gems[c] = TableGems(c) \cup WorkGems(c)
                        /\ blobs[c] = TableBlobs(c) \cup WorkBlobs(c)
    BY WorkFacts
  <2>8. \A c \in Card : /\ fbs'[c] = TableFbs(c) \cup WorkFbs(c)'
                        /\ gems'[c] = TableGems(c) \cup WorkGems(c)'
                        /\ blobs'[c] = TableBlobs(c) \cup WorkBlobs(c)'
    <3> SUFFICES ASSUME NEW c \in Card
                 PROVE  /\ fbs'[c] = TableFbs(c) \cup WorkFbs(c)'
                        /\ gems'[c] = TableGems(c) \cup WorkGems(c)'
                        /\ blobs'[c] = TableBlobs(c) \cup WorkBlobs(c)'
      OBVIOUS
    <3>1. blobs[c] = TableBlobs(c) /\ gems' = gems /\ fbs' = fbs
      BY <1>1, <1>3, <1>5, <2>7
    <3>2. QED
      BY <2>4, <2>6, <2>7, <3>1
  <2>9. h \notin TableBlobs(WorkCard)
    BY <1>2, <2>1, <2>7
  <2>10. /\ work'.fb \notin TableFbs(WorkCard') /\ work'.gem \notin TableGems(WorkCard')
         /\ work'.blob \notin TableBlobs(WorkCard') /\ work'.fb # None
    BY <1>1, <1>2, <2>2, <2>3, <2>9 DEF Unshared
  <2>11. QED
    BY <1>1, <2>2, <2>5, <2>8, <2>10, WorkStep
<1>6. QED
  BY <1>1, <1>4, <1>5

\* What is in work when its modeset is committed.
LEMMA CommitFacts ==
  ASSUME IInv, work # None, work.blob # None
  PROVE  /\ TypeOK /\ work \in Work
         /\ work.connector \in Connector /\ work.output \in Output /\ WorkCard \in Card
         /\ work.gem \in Handle /\ work.fb \in Handle /\ work.blob \in Handle
         /\ \A c \in Card : /\ WorkFbs(c) = IF c = WorkCard THEN {work.fb} ELSE {}
                            /\ WorkGems(c) = IF c = WorkCard THEN {work.gem} ELSE {}
                            /\ WorkBlobs(c) = IF c = WorkCard THEN {work.blob} ELSE {}
<1>1. /\ TypeOK /\ work \in Work /\ work.connector \in Connector /\ work.output \in Output
      /\ WorkCard \in Card /\ work.gem \in Handle /\ work.fb # None
  BY WorkFacts DEF Unshared, TypeOK
<1>2. work.fb \in Handle /\ work.blob \in Handle
  BY <1>1 DEF Work
<1>3. \A c \in Card : /\ WorkFbs(c) = IF c = WorkCard THEN {work.fb} ELSE {}
                      /\ WorkGems(c) = IF c = WorkCard THEN {work.gem} ELSE {}
                      /\ WorkBlobs(c) = IF c = WorkCard THEN {work.blob} ELSE {}
  BY <1>1 DEF WorkFbs, WorkGems, WorkBlobs
<1>4. QED
  BY <1>1, <1>2, <1>3

LEMMA CommitRefusedStep ==
  ASSUME IInv, CommitRefused
  PROVE  IInv'
<1>1. /\ phase = "present" /\ work # None /\ work.blob # None
      /\ blobs' = Without(blobs, work.blob) /\ fbs' = Without(fbs, work.fb)
      /\ gems' = Without(gems, work.gem) /\ work' = None
      /\ UNCHANGED <<plugged, kmsVars, changes, deviceVars, configs, scanouts, phase,
                     collectVars, targets>>
  BY DEF CommitRefused
<1>2. /\ TypeOK
      /\ \A c \in Card : /\ WorkFbs(c) = IF c = WorkCard THEN {work.fb} ELSE {}
                         /\ WorkGems(c) = IF c = WorkCard THEN {work.gem} ELSE {}
                         /\ WorkBlobs(c) = IF c = WorkCard THEN {work.blob} ELSE {}
  BY <1>1, CommitFacts
<1>3. ASSUME NEW c \in Card
      PROVE  /\ fbs'[c] = fbs[c] \ WorkFbs(c)
             /\ gems'[c] = gems[c] \ WorkGems(c)
             /\ blobs'[c] = blobs[c] \ WorkBlobs(c)
  <2>1. fbs'[c] = IF c = WorkCard THEN fbs[c] \ {work.fb} ELSE fbs[c]
    BY <1>1, <1>2, Freeing
  <2>2. gems'[c] = IF c = WorkCard THEN gems[c] \ {work.gem} ELSE gems[c]
    BY <1>1, <1>2, Freeing
  <2>3. blobs'[c] = IF c = WorkCard THEN blobs[c] \ {work.blob} ELSE blobs[c]
    BY <1>1, <1>2, Freeing
  <2>4. fbs'[c] = fbs[c] \ WorkFbs(c)
    BY <1>2, <2>1
  <2>5. gems'[c] = gems[c] \ WorkGems(c)
    BY <1>2, <2>2
  <2>6. blobs'[c] = blobs[c] \ WorkBlobs(c)
    BY <1>2, <2>3
  <2>7. QED
    BY <2>4, <2>5, <2>6
<1>4. /\ fbs' \in [Card -> SUBSET Handle] /\ gems' \in [Card -> SUBSET Handle]
      /\ blobs' \in [Card -> SUBSET Handle]
  BY <1>1, <1>2, Freeing, CardAssumption, CommitFacts
<1>5. QED
  BY <1>1, <1>3, <1>4, GivesUp

\* What an output of the table claims.
LEMMA TableClaims ==
  ASSUME IInv, NEW j \in Connector, scanouts[j] # None
  PROVE  ClaimedCrtc(j) = scanouts[j].output.crtc
<1>1. targets[j] = None /\ ~(work # None /\ work.connector = j)
  BY DEF IInv, OnePlace
<1>2. QED
  BY <1>1 DEF ClaimedCrtc

\* The new output takes over no plane, CRTC or encoder of an output that is lit: the
\* kernel moves no plane from a CRTC to another, and the CRTCs differ.
LEMMA CommitStep ==
  ASSUME IInv, Commit
  PROVE  IInv'
<1> DEFINE k == work.connector
           o == work.output
<1>1. /\ phase = "present" /\ work # None /\ work.blob # None /\ work' = None
      /\ UNCHANGED <<plugged, objVars, changes, deviceVars, configs, phase, collectVars, targets>>
  BY DEF Commit
<1>2. PICK e \in Encoder :
        /\ Committable(k, o, e)
        /\ route' = [route EXCEPT ![k] = [encoder |-> e, crtc |-> o.crtc]]
        /\ crtcMode' = [crtcMode EXCEPT ![o.crtc] = o.mode]
        /\ shows' = [shows EXCEPT ![o.plane] = [crtc |-> o.crtc, fb |-> work.fb]]
        /\ scanouts' = [scanouts EXCEPT ![k] = Presented]
  BY DEF Commit
<1>3. /\ TypeOK /\ work \in Work /\ k \in Connector /\ o \in Output /\ WorkCard \in Card
      /\ work.gem \in Handle /\ work.fb \in Handle /\ work.blob \in Handle
      /\ \A c \in Card : /\ WorkFbs(c) = IF c = WorkCard THEN {work.fb} ELSE {}
                         /\ WorkGems(c) = IF c = WorkCard THEN {work.gem} ELSE {}
                         /\ WorkBlobs(c) = IF c = WorkCard THEN {work.blob} ELSE {}
  BY <1>1, CommitFacts
<1>4. o.crtc \in Crtc /\ o.plane \in Plane /\ o.mode \in Nat
  BY <1>3 DEF Output
<1>5. /\ Presented \in Scanout /\ Presented # None /\ Presented.output = o
      /\ Presented.fb = work.fb /\ Presented.gem = work.gem /\ Presented.blob = work.blob
  BY <1>3, RecordAssumption DEF Presented, Scanout
<1>6. scanouts[k] = None /\ targets[k] = None
  BY <1>1 DEF IInv, OnePlace
<1>7. scanouts'[k] = Presented /\ \A j \in Connector \ {k} : scanouts'[j] = scanouts[j]
  BY <1>2, <1>3 DEF TypeOK
<1>8. TypeOK'
  <2>1. route' \in [Connector -> [encoder : Encoder, crtc : Crtc] \cup {None}]
    BY <1>2, <1>3, <1>4 DEF TypeOK
  <2>2. crtcMode' \in [Crtc -> Nat \cup {None}]
    BY <1>2, <1>3, <1>4 DEF TypeOK
  <2>3. shows' \in [Plane -> [crtc : Crtc, fb : Handle \cup {Other}] \cup {None}]
    BY <1>2, <1>3, <1>4 DEF TypeOK
  <2>4. scanouts' \in [Connector -> Scanout \cup {None}]
    BY <1>2, <1>3, <1>5 DEF TypeOK
  <2>5. QED
    BY <1>1, <1>3, <2>1, <2>2, <2>3, <2>4 DEF TypeOK, objVars, deviceVars, collectVars
<1>9. RoutesValid(route)'
  <2>1. route'[k] = [encoder |-> e, crtc |-> o.crtc] /\ \A j \in Connector \ {k} : route'[j] = route[j]
    BY <1>2, <1>3 DEF TypeOK
  <2>2. route'[k].encoder = e /\ route'[k].crtc = o.crtc
    BY <2>1
  <2>3. /\ \E i \in DOMAIN EncodersOf[k] : EncodersOf[k][i] = e
        /\ o.crtc \in PossibleCrtcs[e]
        /\ \A j \in Connector \ {k} : route[j] # None => route[j].encoder # e
    BY <1>2 DEF Committable
  <2>4. RoutesValid(route)
    BY DEF IInv
  <2> HIDE DEF k, o
  <2>5. QED
    BY <2>1, <2>2, <2>3, <2>4 DEF RoutesValid
<1>10. Phases' /\ Visited' /\ OnePlace'
  BY <1>1, <1>6, <1>7 DEF IInv, Phases, Visited, OnePlace, collectVars
<1>11. AllFit'
  <2>1. \A j \in Connector : targets[j] # None => Fits(j, targets[j])
    BY DEF IInv, AllFit
  <2>2. \A j \in Connector : scanouts'[j] # None => Fits(j, scanouts'[j].output)
    BY <1>1, <1>5, <1>7 DEF IInv, AllFit
  <2>3. open' = open /\ configs' = configs /\ targets' = targets
    BY <1>1 DEF deviceVars
  <2>4. QED
    BY <1>1, <2>1, <2>2, <2>3 DEF AllFit, Fits
<1>12. OutputsApart /\ ClaimedCrtc(k) = o.crtc
  BY <1>1, <1>6 DEF IInv, ClaimedCrtc
<1>13. OutputsApart'
  <2>1. \A j \in Connector : ClaimedCrtc(j)' = ClaimedCrtc(j)
    BY <1>1, <1>5, <1>6, <1>7 DEF ClaimedCrtc
  <2>2. QED
    BY <1>12, <2>1, Moves
<1>14. ScanoutsShown'
  <2> SUFFICES ASSUME NEW j \in Connector, scanouts'[j] # None, ConnectorCard[j] \in live'
               PROVE  /\ shows'[scanouts'[j].output.plane] =
                           [crtc |-> scanouts'[j].output.crtc, fb |-> scanouts'[j].fb]
                      /\ route'[j] # None /\ route'[j].crtc = scanouts'[j].output.crtc
                      /\ crtcMode'[scanouts'[j].output.crtc] = scanouts'[j].output.mode
    BY DEF ScanoutsShown
  <2>1. CASE j = k
    <3>1. route'[k] = [encoder |-> e, crtc |-> o.crtc]
      BY <1>2, <1>3 DEF TypeOK
    <3>2. route'[k] # None /\ route'[k].crtc = o.crtc
      <4>1. [encoder |-> e, crtc |-> o.crtc] # None
        BY <1>4, RecordAssumption
      <4>2. QED
        BY <3>1, <4>1
    <3>3. shows'[o.plane] = [crtc |-> o.crtc, fb |-> work.fb] /\ crtcMode'[o.crtc] = o.mode
      BY <1>2, <1>3, <1>4 DEF TypeOK
    <3>4. QED
      BY <1>5, <1>7, <2>1, <3>2, <3>3
  <2>2. CASE j # k
    <3>1. scanouts'[j] = scanouts[j] /\ ConnectorCard[j] \in live /\ scanouts[j] # None
      BY <1>1, <1>7, <2>2 DEF deviceVars
    <3>2. PICK q : q = scanouts[j].output
      OBVIOUS
    <3>3. /\ shows[q.plane] = [crtc |-> q.crtc, fb |-> scanouts[j].fb]
          /\ route[j] # None /\ route[j].crtc = q.crtc /\ crtcMode[q.crtc] = q.mode
      BY <3>1, <3>2 DEF IInv, ScanoutsShown
    <3>4. q \in Output /\ q.crtc \in Crtc /\ q.plane \in Plane /\ scanouts[j].fb \in Handle
      BY <1>3, <3>1, <3>2 DEF TypeOK, Scanout, Output
    <3>5. q.crtc # o.crtc
      <4>1. ClaimedCrtc(j) = q.crtc
        BY <3>1, <3>2, TableClaims
      <4>2. ClaimedCrtc(k) # None
        BY <1>4, <1>12, NoneAssumption
      <4> HIDE DEF k, o
      <4>3. QED
        BY <1>3, <1>12, <2>2, <4>1, <4>2 DEF OutputsApart
    <3>6. q.plane # o.plane
      <4>1. shows[o.plane] # None => shows[o.plane].crtc = o.crtc
        BY <1>2 DEF Committable
      <4>2. [crtc |-> q.crtc, fb |-> scanouts[j].fb] # None
        BY <3>4, RecordAssumption
      <4> HIDE DEF k, o
      <4>3. QED
        BY <3>3, <3>5, <4>1, <4>2
    <3>7. shows'[q.plane] = shows[q.plane] /\ route'[j] = route[j] /\ crtcMode'[q.crtc] = crtcMode[q.crtc]
      BY <1>2, <1>3, <2>2, <3>4, <3>5, <3>6 DEF TypeOK
    <3>8. QED
      BY <3>1, <3>2, <3>3, <3>7
  <2>3. QED
    BY <2>1, <2>2
<1>15. ObjectsAccounted'
  <2>1. \A c \in Card : HeldOn(c)' = IF c = WorkCard THEN HeldOn(c) \cup {k} ELSE HeldOn(c)
    BY <1>3, <1>5, <1>6, <1>7 DEF HeldOn, Held, WorkCard
  <2>2. \A c \in Card : \A j \in HeldOn(c) : scanouts'[j] = scanouts[j]
    BY <1>6, <1>7 DEF HeldOn, Held
  <2>3. \A c \in Card : /\ OwnedFbs(c)' = {scanouts'[j].fb : j \in HeldOn(c)'}
                        /\ OwnedGems(c)' = {scanouts'[j].gem : j \in HeldOn(c)'}
                        /\ OwnedBlobs(c)' = {scanouts'[j].blob : j \in HeldOn(c)'}
    BY <1>1 DEF OwnedFbs, OwnedGems, OwnedBlobs
  <2>4. \A c \in Card : /\ fbs[c] = TableFbs(c) \cup WorkFbs(c)
                        /\ gems[c] = TableGems(c) \cup WorkGems(c)
                        /\ blobs[c] = TableBlobs(c) \cup WorkBlobs(c)
    BY WorkFacts
  <2>5. ASSUME NEW c \in Card
        PROVE  /\ OwnedFbs(c)' = TableFbs(c) \cup WorkFbs(c)
               /\ OwnedGems(c)' = TableGems(c) \cup WorkGems(c)
               /\ OwnedBlobs(c)' = TableBlobs(c) \cup WorkBlobs(c)
    <3>1. CASE c = WorkCard
      <4>1. HeldOn(c)' = HeldOn(c) \cup {k} /\ \A j \in HeldOn(c) : scanouts'[j] = scanouts[j]
        BY <2>1, <2>2, <3>1
      <4>2. WorkFbs(c) = {work.fb} /\ WorkGems(c) = {work.gem} /\ WorkBlobs(c) = {work.blob}
        BY <1>3, <3>1
      <4>3. /\ scanouts'[k].fb = work.fb /\ scanouts'[k].gem = work.gem
            /\ scanouts'[k].blob = work.blob
        BY <1>5, <1>7
      <4> HIDE DEF k
      <4>4. QED
        BY <2>3, <4>1, <4>2, <4>3 DEF TableFbs, TableGems, TableBlobs
    <3>2. CASE c # WorkCard
      <4>1. HeldOn(c)' = HeldOn(c) /\ \A j \in HeldOn(c) : scanouts'[j] = scanouts[j]
        BY <2>1, <2>2, <3>2
      <4>2. WorkFbs(c) = {} /\ WorkGems(c) = {} /\ WorkBlobs(c) = {}
        BY <1>3, <3>2
      <4>3. QED
        BY <2>3, <4>1, <4>2 DEF TableFbs, TableGems, TableBlobs
    <3>3. QED
      BY <3>1, <3>2
  <2>6. fbs' = fbs /\ gems' = gems /\ blobs' = blobs
    BY <1>1 DEF objVars
  <2>7. QED
    BY <2>4, <2>5, <2>6 DEF ObjectsAccounted
<1>16. Unshared'
  BY <1>1 DEF Unshared
<1>17. QED
  BY <1>8, <1>9, <1>10, <1>11, <1>13, <1>14, <1>15, <1>16 DEF IInv

LEMMA PresentDoneStep ==
  ASSUME IInv, PresentDone
  PROVE  IInv'
<1>1. /\ phase = "present" /\ work = None /\ ToPresent = {} /\ phase' = "idle"
      /\ UNCHANGED <<plugged, kmsVars, objVars, changes, deviceVars, configs, scanouts,
                     collectVars, targets, work>>
  BY DEF PresentDone
<1>2. TypeOK'
  BY <1>1 DEF IInv, TypeOK, kmsVars, objVars, deviceVars, collectVars
<1>3. targets = NoTargets
  BY <1>1 DEF IInv, TypeOK, ToPresent, NoTargets
<1>4. Phases' /\ Visited' /\ OnePlace'
  BY <1>1, <1>3 DEF IInv, Phases, Visited, OnePlace, collectVars
<1>5. RoutesValid(route)' /\ ScanoutsShown' /\ ObjectsAccounted'
  BY <1>1, SameKernel DEF deviceVars
<1>6. AllFit'
  BY <1>1 DEF IInv, AllFit, Fits, deviceVars
<1>7. OutputsApart'
  BY <1>1 DEF IInv, OutputsApart, ClaimedCrtc
<1>8. Unshared'
  BY <1>1 DEF Unshared
<1>9. QED
  BY <1>2, <1>4, <1>5, <1>6, <1>7, <1>8 DEF IInv

----------------------------------------------------------------------------
(* The invariant.                                                          *)

\* What the console shows has its type.
LEMMA ConsoleTyped ==
  ASSUME NEW r
  PROVE  ConsoleShows(r) \in [Plane -> [crtc : Crtc, fb : Handle \cup {Other}] \cup {None}]
<1> DEFINE lit(p) == {c \in PlaneCrtcs[p] : /\ \E k \in Connector : r[k] # None /\ r[k].crtc = c
                                            /\ FindPrimaryPlane(c) = p}
           shown(p) == IF lit(p) = {} THEN None ELSE [crtc |-> Lowest(lit(p)), fb |-> Other]
<1>1. ASSUME NEW p \in Plane
      PROVE  shown(p) \in [crtc : Crtc, fb : Handle \cup {Other}] \cup {None}
  <2>1. lit(p) \subseteq Crtc /\ Crtc \subseteq Nat
    BY PlaneAssumption, OrderAssumption
  <2> HIDE DEF lit
  <2>2. lit(p) # {} => Lowest(lit(p)) \in Crtc
    BY <2>1, Minimum
  <2>3. QED
    BY <2>2
<1>2. ConsoleShows(r) = [p \in Plane |-> shown(p)]
  BY DEF ConsoleShows
<1> HIDE DEF shown
<1>3. QED
  BY <1>1, <1>2

LEMMA InitIInv == Init => IInv
<1> SUFFICES ASSUME Init PROVE IInv
  OBVIOUS
<1>1. /\ plugged \in SUBSET Connector /\ route \in ConsoleRoutes /\ RoutesValid(route)
      /\ shows = ConsoleShows(route)
      /\ fbs = [c \in Card |-> {}] /\ gems = [c \in Card |-> {}] /\ blobs = [c \in Card |-> {}]
      /\ changes = 0 /\ open = {} /\ live = {} /\ cached = {} /\ scanouts = NoScanouts
      /\ phase = "idle" /\ cardsLeft = {} /\ card = None /\ used = {} /\ walk = {}
      /\ targets = NoTargets /\ work = None
  BY DEF Init
<1>2. configs \in [Connector -> Config] /\ crtcMode \in [Crtc -> Nat \cup {None}]
  BY DEF Init, Config
<1>3. shows \in [Plane -> [crtc : Crtc, fb : Handle \cup {Other}] \cup {None}]
  BY <1>1, ConsoleTyped
<1>4. route \in [Connector -> [encoder : Encoder, crtc : Crtc] \cup {None}]
  BY <1>1, RouteAssumption
<1>5. /\ fbs \in [Card -> SUBSET Handle] /\ gems \in [Card -> SUBSET Handle]
      /\ blobs \in [Card -> SUBSET Handle]
  BY <1>1
<1>6. /\ scanouts \in [Connector -> Scanout \cup {None}]
      /\ targets \in [Connector -> Output \cup {None}]
  BY <1>1 DEF NoScanouts, NoTargets
<1> HIDE DEF Init
<1>7. TypeOK
  BY <1>1, <1>2, <1>3, <1>4, <1>5, <1>6 DEF TypeOK
<1>8. \A k \in Connector : scanouts[k] = None /\ targets[k] = None
  BY <1>1 DEF NoScanouts, NoTargets
<1>9. Phases /\ Visited /\ OnePlace /\ AllFit /\ ScanoutsShown /\ Unshared
  BY <1>1, <1>8 DEF Phases, Visited, OnePlace, AllFit, ScanoutsShown, Unshared
<1>10. OutputsApart
  BY <1>1, <1>8 DEF OutputsApart, ClaimedCrtc
<1>11. ObjectsAccounted
  <2>1. \A c \in Card : OwnedFbs(c) = {} /\ OwnedGems(c) = {} /\ OwnedBlobs(c) = {}
    BY <1>1, <1>8 DEF OwnedFbs, OwnedGems, OwnedBlobs, HeldOn, Held
  <2>2. QED
    BY <1>1, <2>1 DEF ObjectsAccounted
<1>12. QED
  BY <1>1, <1>7, <1>9, <1>10, <1>11 DEF IInv

LEMMA NextIInv == IInv /\ [Next]_vars => IInv'
<1> SUFFICES ASSUME IInv, [Next]_vars PROVE IInv'
  OBVIOUS
<1>1. ASSUME NEW k \in Connector, Plug(k) PROVE IInv'
  BY <1>1, PlugStep
<1>2. CASE Revoke
  BY <1>2, RevokeStep
<1>3. ASSUME NEW k \in Connector, NEW e \in Encoder, NEW c \in Crtc, NEW p \in Plane,
             Foreign(k, e, c, p)
      PROVE  IInv'
  BY <1>3, ForeignStep
<1>4. ASSUME NEW c \in Card, VisitCard(c) PROVE IInv'
  BY <1>4, VisitCardStep
<1>5. ASSUME NEW k \in Connector, ResolveNone(k) PROVE IInv'
  BY <1>5, ResolveNoneStep
<1>6. ASSUME NEW k \in Connector, Resolve(k) PROVE IInv'
  BY <1>6, ResolveStep
<1>7. CASE CollectDone
  BY <1>7, CollectDoneStep
<1>8. ASSUME NEW k \in Connector, Import(k) PROVE IInv'
  BY <1>8, ImportStep
<1>9. CASE AddFb
  BY <1>9, AddFbStep
<1>10. CASE CreateBlob
  BY <1>10, CreateBlobStep
<1>11. CASE Commit
  BY <1>11, CommitStep
<1>12. CASE CommitRefused
  BY <1>12, CommitRefusedStep
<1>13. CASE PresentDone
  BY <1>13, PresentDoneStep
<1>14. CASE Activate
  BY <1>14, ActivateStep
<1>15. CASE Deactivate
  BY <1>15, DeactivateStep
<1>16. CASE DispatchUdev
  BY <1>16, DispatchUdevStep
<1>17. ASSUME NEW k \in Connector, NEW on \in BOOLEAN, NEW m \in ConfigModes,
              SetOutputConfig(k, [enabled |-> on, mode |-> m])
       PROVE  IInv'
  <2>1. [enabled |-> on, mode |-> m] \in Config
    BY ConfigAssumption DEF Config
  <2>2. QED
    BY <1>17, <2>1, SetOutputConfigStep
<1>18. CASE Represent
  BY <1>18, RepresentStep
<1>19. CASE UNCHANGED vars
  <2>1. /\ UNCHANGED <<plugged, kmsVars, objVars, changes, deviceVars, configs, scanouts, phase,
                       collectVars, targets, work>>
    BY <1>19 DEF vars
  <2>2. TypeOK' /\ RoutesValid(route)'
    BY <2>1 DEF IInv, TypeOK, RoutesValid, kmsVars, objVars, deviceVars, collectVars
  <2>3. Phases' /\ Visited' /\ OnePlace'
    BY <2>1 DEF IInv, Phases, Visited, OnePlace, deviceVars, collectVars
  <2>4. AllFit' /\ Unshared'
    BY <2>1 DEF IInv, AllFit, Fits, Unshared, WorkCard, TableFbs, TableGems, TableBlobs, HeldOn,
                Held, deviceVars
  <2>5. OutputsApart'
    BY <2>1 DEF IInv, OutputsApart, ClaimedCrtc
  <2>6. ScanoutsShown'
    BY <2>1 DEF IInv, ScanoutsShown, kmsVars, deviceVars
  <2>7. ObjectsAccounted'
    BY <2>1 DEF IInv, ObjectsAccounted, OwnedFbs, OwnedGems, OwnedBlobs, HeldOn, Held, WorkCard,
                objVars
  <2>8. QED
    BY <2>2, <2>3, <2>4, <2>5, <2>6, <2>7 DEF IInv
<1>20. QED
  BY <1>1, <1>2, <1>3, <1>4, <1>5, <1>6, <1>7, <1>8, <1>9, <1>10, <1>11, <1>12, <1>13, <1>14,
     <1>15, <1>16, <1>17, <1>18, <1>19 DEF Next

LEMMA Invariant == Spec => []IInv
  BY InitIInv, NextIInv, PTL DEF Spec

----------------------------------------------------------------------------
(* The promises.                                                           *)

\* The tables of the renderer, what a presentation holds in hand and the kernel's
\* side of them have their types: every CRTC, plane and handle is a real one.
THEOREM TypeCorrect == Spec => []TypeOK
<1>1. IInv => TypeOK
  BY DEF IInv
<1>2. QED
  BY <1>1, Invariant, PTL

\* However connectors share encoders and CRTCs, no two outputs are given the same
\* CRTC or one of another card (find_crtc_for_connector and used_crtcs).
THEOREM OutputsAlwaysApart == Spec => []OutputsApart
<1>1. IInv => OutputsApart
  BY DEF IInv
<1>2. QED
  BY <1>1, Invariant, PTL

\* Nothing a presentation does after committing an output darkens it or takes its
\* plane or CRTC over (present_one_output), for as long as its session is ours.
THEOREM ScanoutsAlwaysShown == Spec => []ScanoutsShown
<1>1. IInv => ScanoutsShown
  BY DEF IInv
<1>2. QED
  BY <1>1, Invariant, PTL

\* Whichever call of a presentation fails, no framebuffer, GEM handle or blob is
\* left without an owner and none is freed that has one (the destructors of
\* DrmFramebuffer and ModeBlob, and the error paths of present_one_output).
THEOREM ObjectsAlwaysAccounted == Spec => []ObjectsAccounted
<1>1. IInv => ObjectsAccounted
  BY DEF IInv
<1>2. QED
  BY <1>1, Invariant, PTL

\* After set_output_configs nothing stays lit that is disabled, or in another mode
\* than the one that is asked for and exists.
THEOREM ConfigAlwaysApplied == Spec => []ConfigApplied
<1>1. IInv => ConfigApplied
  BY DEF IInv, AllFit, Fits, ConfigApplied, Held
<1>2. QED
  BY <1>1, Invariant, PTL
===============================================================================
