----------------------------- MODULE MCTracking -----------------------------
(***************************************************************************)
(* The four parts of the tracking in the drift chambers, each with every   *)
(* input of its own: the hits of the wires, the space points of a chamber, *)
(* the linking of the stubs of two, or the fits of stubs and lines.        *)
(*                                                                         *)
(* The wires are those of three planes, the last in a chamber of its own,  *)
(* counted from either end.  A wire has up to three times, in front of, in *)
(* and behind the TDC window; up to two wires of a plane have one, and the *)
(* event has a start time or none; an event may be one of pedestals.       *)
(*                                                                         *)
(* The chamber has planes U, U', X, X', Y, Y', where U measures x + y.     *)
(* Each plane has no hit, one, or two; the second wire is a neighbour of   *)
(* the first or the one a second particle would hit, with a shorter, equal *)
(* or longer drift time.                                                   *)
(*                                                                         *)
(* The chambers to link have up to four points; any of them may have a     *)
(* stub, any two of these may match.  Both lists can be longer than their  *)
(* limits and the tracks more than there is room for.                      *)
(*                                                                         *)
(* The fits are of up to four points of chambers with four planes.  Points *)
(* share hits or lack planes; hits are on either side, far or near.        *)
(***************************************************************************)
EXTENDS SpacePoints

CONSTANTS MAXTRACKS, ChamberLimit, ListLimit

VARIABLES wires, seen, event, planes, chambers, dc, stage

VARIABLES fitting, isp, stubs, sides, lines, itrack, NLoops, fit

VARIABLES linking, size, stubbed, matches, tracks, seed, next, seedTracks, newtrack, step

MCXsp == <<1, 1, 1, 1, 0, 0>>
MCYsp == <<1, 1, 0, 0, 1, 1>>

Hit(p, pos, t) == [plane |-> p, pos |-> pos, time |-> t]

\* the hits a plane may have
InU(p) == {<<>>, <<Hit(p, 0, 5)>>, <<Hit(p, 0, 5), Hit(p, 1, 4)>>}
InX(p) == {<<>>, <<Hit(p, p - 3, 3)>>, <<Hit(p, 0, 3), Hit(p, 3, 3)>>}
InY(p) == {<<>>, <<Hit(p, 0, 3)>>, <<Hit(p, 0, 3), Hit(p, p - 4, 6)>>}

\* a particle alone
Alone(x, y) == [p \in 1 .. 6 |-> Hit(p, x * MCXsp[p] + y * MCYsp[p], 3)]

MCEvents ==
  {Alone(x, y) : x \in -2 .. 2, y \in -2 .. 2} \union
  {FlattenSeq(<<u, v, x, w, y, z>>) :
     u \in InU(1), v \in InU(2), x \in InX(3), w \in InX(4), y \in InY(5), z \in InY(6)}

Chamber(minHits, minCombos, criterion, hms, poor, new, fix) ==
  [MinHits |-> minHits, MaxHits |-> 9, MinCombos |-> minCombos, Criterion |-> criterion,
   HMSStyle |-> hms, RemovePoor |-> poor, NewSearch |-> new, FixProp |-> fix]

Chambers ==
  {Chamber(4, 2, 2, TRUE, FALSE, FALSE, TRUE), Chamber(4, 0, 2, TRUE, TRUE, FALSE, TRUE),
   Chamber(4, 4, 2, FALSE, FALSE, FALSE, TRUE), Chamber(5, 6, 1, FALSE, FALSE, FALSE, FALSE),
   Chamber(4, 1, 2, FALSE, FALSE, TRUE, TRUE)}

Linking(single, hms, new) == [SingleStub |-> single, HMSStyle |-> hms, NewLink |-> new]
Linkings ==
  {Linking(FALSE, TRUE, FALSE), Linking(FALSE, FALSE, FALSE), Linking(TRUE, TRUE, FALSE),
   Linking(FALSE, FALSE, TRUE)}
Sizes == {<<0, 2>>, <<2, 0>>, <<1, 4>>, <<2, 4>>, <<3, 3>>, <<4, 2>>}

LS == INSTANCE LinkStubs WITH setup <- linking, pc <- step, Setups <- Linkings

linkVars == <<linking, size, stubbed, matches, tracks, seed, next, seedTracks, newtrack, step>>

WireSetup(order, central, center, zero, new, max) ==
  [fWireOrder |-> order, fCentralWire |-> central, fCenter |-> center,
   fTzeroWire |-> zero, NewFit |-> new, MaxEvents |-> max]
MCWireSetups ==
  {WireSetup(0, 2, 0, <<0, 0, 0>>, FALSE, 2), WireSetup(1, 2, 1, <<0, 1, 0>>, FALSE, 2),
   WireSetup(0, 1, -1, <<1, 0, 0>>, TRUE, 1)}

RawHit(p, w, tdc) == [plane |-> p, counter |-> w, tdc |-> tdc, ref |-> TRUE]
Tdcs == {<<1>>, <<1, 5>>, <<4, 2, 6>>, <<8>>, <<9, 7>>, <<3, 9>>}
RawIn(p) ==
  {<<>>} \union {<<RawHit(p, 1, t)>> : t \in Tdcs} \union
  {<<RawHit(p, 1, <<3, 9>>), RawHit(p, 3, t)>> : t \in {<<1>>, <<8, 6>>, <<2>>}}
PhysicsEvents ==
  {[pedestal |-> FALSE, raw |-> FlattenSeq(<<u, v, x>>), start |-> start, line |-> <<>>] :
     u \in RawIn(1), v \in {<<>>, <<RawHit(2, 2, <<6, 4>>)>>}, x \in RawIn(3), start \in {-1000, 0, 3}}
Pedestals == [pedestal |-> TRUE, raw |-> <<RawHit(1, 2, <<4>>)>>, start |-> 0, line |-> <<>>]

\* The last event is any; one before it is of one wire, or of pedestals.
MCWireEvents(s, n) ==
  IF s.MaxEvents = n THEN PhysicsEvents \union {Pedestals}
  ELSE {Pedestals} \union {e \in PhysicsEvents : Len(e.raw) = 1 /\ e.start = 0}

DH == INSTANCE DriftHits WITH
  setup <- wires, pc <- stage, fNChamber <- <<1, 1, 2>>, fNWires <- 3,
  fT0 <- 0, fBinSize <- 2, fTable <- <<0, 1, 3, 4>>, fFull <- 5,
  fTdcWinMin <- 2, fTdcWinMax <- 8, fMin_DriftTime <- -2, fMax_DriftTime <- 9,
  fPlaneTimeZero <- 8, kNone <- 1000, DCSetups <- MCWireSetups, DCEvents <- MCWireEvents,
  Lines <- {<<0, 0, 0>>, <<-3, 1, 4>>, <<2, -4, -1>>, <<5, 3, -6>>}

ASSUME DH!BoardsAreMirrored

hitVars == <<wires, seen, event, planes, chambers, dc, stage>>

At(p, pos) == [plane |-> p, pos |-> pos]
FrontPoints ==
  {<<<<At(1, 0), At(2, 1), At(3, 0), At(4, 0)>>>>,
   <<<<At(1, 0), At(2, 1), At(3, 0), At(4, 0)>>, <<At(1, 0), At(2, 1), At(3, 4), At(4, 6)>>>>,
   <<<<At(1, 0), At(2, 1), At(4, 0)>>, <<At(4, 0), At(1, 0)>>>>}
BackPoints ==
  {<<>>, <<<<At(5, 0), At(6, 0), At(7, 3), At(8, 2)>>>>,
   <<<<At(5, 0), At(7, 3), At(8, 2)>>, <<At(5, 0)>>>>}
PointLists == {f \o b : f \in FrontPoints, b \in BackPoints}

FitSetup(pts, hms, small, diff, dist, truth, lean) ==
  [points |-> pts, HMSStyle |-> hms, SmallAngle |-> small, StubMaxXPDiff |-> diff, dist |-> dist,
   truth |-> truth, lean |-> lean, FixLR |-> TRUE, FixPropagation |-> TRUE, SingleStub |-> FALSE,
   TrackLargeResidCut |-> -1, off |-> [p \in 1 .. 8 |-> 0]]
Truths == {[p \in 1 .. 8 |-> 1], [p \in 1 .. 8 |-> IF p % 3 = 0 THEN 1 ELSE -1]}
Dists == {[p \in 1 .. 8 |-> 2], [p \in 1 .. 8 |-> p % 3]}
Offs == {[p \in 1 .. 8 |-> IF p \in q THEN 2 + p ELSE 0] : q \in {{}, {2}, {1, 8}, {3, 4, 7}}}

MCFitSetups ==
  {FitSetup(pts, hms, small, diff, dist, truth, lean) :
     pts \in PointLists, hms \in BOOLEAN, small \in BOOLEAN, diff \in {2, 100}, dist \in Dists,
     truth \in Truths, lean \in {<<1, -1, 0, 1>>, <<2, 1, 1, -1>>}} \union
  {[FitSetup(pts, TRUE, FALSE, 100, dist, truth, <<1, 0, 0, 1>>) EXCEPT
      !.FixLR = fix[1], !.FixPropagation = fix[2], !.SingleStub = fix[3], !.TrackLargeResidCut = 2,
      !.off = off] :
     pts \in PointLists, dist \in Dists, truth \in Truths, off \in Offs,
     fix \in {<<TRUE, TRUE, TRUE>>, <<TRUE, TRUE, FALSE>>, <<FALSE, TRUE, FALSE>>, <<FALSE, FALSE, TRUE>>}}

DF == INSTANCE DriftFit WITH
  setup <- fitting, points <- stubs, hitLR <- sides, tracks <- lines, pc <- fit, FitSetups <- MCFitSetups,
  NPlanes <- 4, NUM_FPRAY <- 2, YPlaneInd <- 1, YPlanePInd <- 3, MinXP <- 2

fitVars == <<fitting, isp, stubs, sides, lines, itrack, NLoops, fit>>

\* all parts but one are off
NoFits ==
  /\ fitting = (CHOOSE s \in MCFitSetups : s.SingleStub) /\ isp = 1 /\ stubs = <<>>
  /\ sides = <<>> /\ lines = <<>> /\ itrack = 1 /\ NLoops = 0 /\ fit = "off"
NoHits ==
  /\ wires = (CHOOSE s \in MCWireSetups : s.MaxEvents = 1) /\ seen = 1 /\ event = <<>>
  /\ planes = <<>> /\ chambers = <<>> /\ dc = <<>> /\ stage = "done"
NoChamber ==
  /\ setup = CHOOSE c \in Chambers : TRUE
  /\ hits = <<>> /\ time = <<>> /\ points = <<>> /\ easy = FALSE /\ pc = "off"
NoLinking ==
  /\ linking = Linking(FALSE, TRUE, FALSE) /\ size = <<0, 0>> /\ stubbed = {} /\ matches = {}
  /\ tracks = <<>> /\ seed = 1 /\ next = 2 /\ seedTracks = <<>> /\ newtrack = TRUE /\ step = "off"

MCInit ==
  \/ Init /\ NoLinking /\ NoHits /\ NoFits
  \/ LS!Init /\ NoChamber /\ NoHits /\ NoFits
  \/ DH!Init /\ NoChamber /\ NoLinking /\ NoFits
  \/ DF!Init /\ NoChamber /\ NoLinking /\ NoHits
MCNext ==
  \/ Next /\ UNCHANGED <<linkVars, hitVars, fitVars>>
  \/ LS!Next /\ UNCHANGED <<vars, hitVars, fitVars>>
  \/ DH!Next /\ UNCHANGED <<vars, linkVars, fitVars>>
  \/ DF!Next /\ UNCHANGED <<vars, linkVars, hitVars>>
MCSpec == MCInit /\ [][MCNext]_<<vars, linkVars, hitVars, fitVars>>

Types == TypeInvariant /\ LS!TypeInvariant /\ (dc # <<>> => DH!TypeInvariant) /\
         (fit # "off" => DF!TypeInvariant)

\* Every combination of crossings ends in a point, and what is done to the points with
\* several hits in a plane makes the choices of one each, all of them.
PointsAreAccountedFor == CombosAreCovered /\ ClonesAreAllChoices

\* The hits of the chambers are those of this event, with distances that grow with the
\* times, and the wires said to be hit those the best track passes.
HitsAreFirst == dc # <<>> => DH!HitsAreFirst /\ DH!DistancesGrow /\ DH!WiresAreTrue

\* The tracks of the linked stubs, the events that have none although stubs matched, and
\* the stubs and the lines that are fitted.
MatchesAreTracks ==
  /\ LS!MatchesAreTracks /\ LS!GivenUpOnlyWhenFull
  /\ DF!StubsAreBest /\ DF!LinesAreOfTheHits /\ DF!DoublesAreOther

\* A property the program does not have, checked in a run of its own.
OneTrackForAPair == LS!OneTrackForAPair

\* Nor does it have this one.
EventsAreCounted == dc # <<>> => DH!EventsAreCounted
=============================================================================
