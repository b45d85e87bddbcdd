----------------------------- MODULE DriftHits -----------------------------
(***************************************************************************)
(* From the raw hits of the drift chambers to the hits the tracking works  *)
(* with, and to the wires the best track is compared with (THcDC.cxx,      *)
(* THcDriftChamberPlane.cxx, THcDCLookupTTDConv.cxx).                      *)
(*                                                                         *)
(* Decode gives each plane its part of the sorted hit list, of which it    *)
(* keeps the first time in the TDC window of each wire.  CoarseTrack takes *)
(* off the start time, looks the drift distance up, keeps the hits in the  *)
(* drift window, and collects those of each chamber.  After the tracks are *)
(* found, SetFocalPlaneBestTrack compares the best one with the wires.     *)
(*                                                                         *)
(* Times are integers; places are in units of a quarter of the pitch; the  *)
(* drift distance is in units of which the bins of the table hold whole    *)
(* multiples.  A TDC counts one per unit of time (fNSperChan is 1).        *)
(***************************************************************************)
EXTENDS Integers, FiniteSetsExt, SequencesExt

CONSTANTS
  fNChamber,                     \* the chamber of each plane
  fNWires,
  fT0, fBinSize, fTable, fFull,  \* the time-to-distance table, and fMaxDriftDistance
  fTdcWinMin, fTdcWinMax,
  fMin_DriftTime, fMax_DriftTime,
  fPlaneTimeZero,
  kNone,                         \* 1000, no wire
  DCSetups,                      \* fWireOrder, fCentralWire, fCenter, fTzeroWire, NewFit, and the bound MaxEvents
  DCEvents(_, _), Lines          \* the n-th events of a setup, and the places of a track in the planes

VARIABLES setup, seen, event, planes, chambers, dc, pc

vars == <<setup, seen, event, planes, chambers, dc, pc>>

Planes == DOMAIN fNChamber
Chambers == ToSet(fNChamber)

---------------------------------------------------------------------------
(* The wires *)

\* The place of a wire: those of a plane are counted from either end.
Pos(w) == 4 * (IF setup.fWireOrder = 0 THEN w ELSE fNWires - w + 1) - 4 * setup.fCentralWire - setup.fCenter

\* four times the number of the wire, which need not be whole, at a place
CalcWireFromPos(pos) ==
  LET n == pos + setup.fCenter + 4 * setup.fCentralWire
  IN  IF setup.fWireOrder = 0 THEN n ELSE 4 - (n - 4 * fNWires)

\* the nearest whole number to n / 4; halves are rounded away from zero
Round4(n) == IF n >= 0 THEN (n + 2) \div 4 ELSE -((2 - n) \div 4)

\* The side a wire is read out on, for the chambers of HMS (1) and SHMS (0): the plane's
\* board, each with the first wires of the sides behind the first.
Boards ==
  [v \in {0, 1} |-> [x \in BOOLEAN |-> [tb \in BOOLEAN |->
     CASE v = 1 /\ x /\ tb -> <<<<60, 2>>, <<200, 4>>>>
       [] v = 1 /\ x /\ ~tb -> <<<<44, 4>>, <<200, 2>>>>
       [] v = 1 /\ ~x /\ tb -> <<<<51, 2>>, <<65, 1>>, <<200, 4>>>>
       [] v = 1 /\ ~x /\ ~tb -> <<<<33, 4>>, <<47, 1>>, <<200, 2>>>>
       [] v = 0 /\ x /\ tb -> <<<<49, 4>>, <<200, 2>>>>
       [] v = 0 /\ x /\ ~tb -> <<<<33, 2>>, <<200, 4>>>>
       [] v = 0 /\ ~x /\ tb -> <<<<41, 4>>, <<64, 3>>, <<70, 1>>, <<200, 2>>>>
       [] v = 0 /\ ~x /\ ~tb -> <<<<39, 2>>, <<45, 1>>, <<68, 3>>, <<200, 4>>>>]]]

ReadoutSide(v, plane, tb, w) ==
  LET board == Boards[v][(plane \in {3, 4, 9, 10})][tb]
  IN  board[Min({i \in DOMAIN board : w < board[i][1]})][2]

---------------------------------------------------------------------------
(* The drift distance *)

\* The quotient of integers as the source's conversion to Int_t gives it, toward zero.
Trunc(a, b) == IF a >= 0 THEN a \div b ELSE -((-a) \div b)

\* The table is indexed from 1 here.  A time less than a bin in front of the table is in
\* its first bin, where the line between the first two entries is drawn out.
ConvertTimeToDist(t) ==
  LET ib == Trunc(t - fT0, fBinSize)
      off == t - fT0 - ib * fBinSize
  IN  IF ib + 1 >= Len(fTable) THEN fFull * fBinSize
      ELSE IF ib < 0 THEN 0
      ELSE fTable[ib + 1] * (fBinSize - off) + fTable[ib + 2] * off

---------------------------------------------------------------------------
(* THcDriftChamberPlane *)

\* a THcDCHit, whose distance is looked up when it is made
DCHit(p, w, rawtdc, t) ==
  [plane |-> p, wire |-> w, pos |-> Pos(w), rawtdc |-> rawtdc, time |-> t, dist |-> ConvertTimeToDist(t)]

NewPlane == [fRawHits |-> <<>>, fFirstPassHits |-> <<>>, fHits |-> <<>>, fTdcRefTime |-> "none"]

\* the first hit of the list behind those of plane p
Behind(raw, p) == Min({i \in DOMAIN raw : raw[i].plane > p} \union {Len(raw) + 1})
\* A plane takes the hits from where the one before stopped to the first of a later plane.
Share(raw, p) == SubSeq(raw, Behind(raw, p - 1), Behind(raw, p) - 1)

InWindow(rawtdc) == fTdcWinMin <= rawtdc /\ rawtdc <= fTdcWinMax

DriftHit(p, hit, rawtdc) ==
  DCHit(p, hit.counter, rawtdc, fPlaneTimeZero - rawtdc - setup.fTzeroWire[hit.counter])

RawHits(p, hit) == [m \in DOMAIN hit.tdc |-> DriftHit(p, hit, hit.tdc[m])]

\* Mutant: the wire's first hit is taken, in the window or not.
FirstPass_Any(p, hit) ==
  IF hit.tdc # <<>> /\ InWindow(hit.tdc[1]) THEN <<DriftHit(p, hit, hit.tdc[1])>> ELSE <<>>

\* the first time of a wire in the window
FirstPass(p, hit) ==
  LET good == SelectSeq(hit.tdc, InWindow)
  IN  IF good = <<>> THEN <<>> ELSE <<DriftHit(p, hit, good[1])>>

ProcessHits(p, raw) ==
  LET mine == Share(raw, p)
      refs == SelectSeq(mine, LAMBDA hit : hit.ref)
  IN  [NewPlane EXCEPT
         !.fRawHits = FlattenSeq([i \in DOMAIN mine |-> RawHits(p, mine[i])]),
         !.fFirstPassHits = FlattenSeq([i \in DOMAIN mine |-> FirstPass(p, mine[i])]),
         !.fTdcRefTime = IF refs = <<>> THEN "none" ELSE "of the event"]

\* a start time of -1000 is none
StartTime(start) == IF start = -1000 THEN 0 ELSE start

SubtractStartTime(plane, start) ==
  LET late == [i \in DOMAIN plane.fFirstPassHits |->
                 LET h == plane.fFirstPassHits[i]
                 IN  DCHit(h.plane, h.wire, h.rawtdc, h.time - StartTime(start))]
  IN  [plane EXCEPT !.fFirstPassHits = late,
                    !.fHits = SelectSeq(late, LAMBDA h : fMin_DriftTime < h.time /\ h.time < fMax_DriftTime)]

---------------------------------------------------------------------------
(* THcDC *)

ClearedDC ==
  [fN_True_RawHits |-> 0, fNthits |-> 0, best |-> [p \in Planes |-> <<>>],
   fWire_hit_did |-> [p \in Planes |-> kNone], fWire_hit_should |-> [p \in Planes |-> kNone]]

NewCounts ==
  [fTotEvents |-> 0, fNChamHits |-> [c \in Chambers |-> 0], fPlaneEvents |-> [p \in Planes |-> 0]]

\* Eff: with the hits the chambers and planes have at the time
Eff(counts, cs, ps) ==
  [fTotEvents |-> counts.fTotEvents + 1,
   fNChamHits |-> [c \in Chambers |-> counts.fNChamHits[c] + IF cs[c] # <<>> THEN 1 ELSE 0],
   fPlaneEvents |-> [p \in Planes |-> counts.fPlaneEvents[p] + IF ps[p].fHits # <<>> THEN 1 ELSE 0]]

\* the hits of a chamber's planes, in their order
ChamberHits(ps, c) ==
  FlattenSeq([p \in Planes |-> IF fNChamber[p] = c THEN ps[p].fHits ELSE <<>>])

\* The coordinates of a fit: the new one sets those of the planes with a hit of the track.
Coord(line, its, p) == IF setup.NewFit /\ p \notin {h.plane : h \in its} THEN 0 ELSE line[p]

EfficiencyPerWire(line, its) ==
  LET should == [p \in Planes |-> Round4(CalcWireFromPos(Coord(line, its, p)))]
  IN  [did |-> [p \in Planes |-> IF \E h \in its : h.plane = p /\ h.wire = should[p] THEN should[p] ELSE kNone],
       should |-> should]

---------------------------------------------------------------------------

NoEvent == [pedestal |-> TRUE, raw |-> <<>>, start |-> 0, line |-> <<>>]

Init ==
  /\ setup \in DCSetups /\ seen = 0 /\ event = NoEvent
  /\ planes = [p \in Planes |-> NewPlane]
  /\ chambers = [c \in Chambers |-> <<>>]
  /\ dc = [event |-> ClearedDC, counts |-> NewCounts]
  /\ pc = "done"

\* ClearEvent empties the chambers, and ProcessHits the planes, which keep their hits in a
\* pedestal event.
Decode ==
  /\ pc = "done" /\ seen < setup.MaxEvents
  /\ seen' = seen + 1
  /\ event' \in DCEvents(setup, seen')
  /\ chambers' = [c \in Chambers |-> <<>>]
  /\ IF event'.pedestal
     THEN /\ dc' = [dc EXCEPT !.event = ClearedDC]
          /\ pc' = "done" /\ UNCHANGED planes
     ELSE /\ planes' = [p \in Planes |-> ProcessHits(p, event'.raw)]
          /\ dc' = [event |-> [ClearedDC EXCEPT !.fN_True_RawHits =
                                 MapThenSumSet(LAMBDA p : Len(planes'[p].fRawHits), Planes)],
                    counts |-> Eff(dc.counts, chambers', planes')]
          /\ pc' = "decoded"
  /\ UNCHANGED setup

\* the beginning of CoarseTrack, up to the search for space points
CoarseTrack ==
  /\ pc = "decoded" /\ pc' = "tracked"
  /\ planes' = [p \in Planes |-> SubtractStartTime(planes[p], event.start)]
  /\ chambers' = [c \in Chambers |-> ChamberHits(planes', c)]
  /\ dc' = [dc EXCEPT !.event.fNthits = @ + MapThenSumSet(LAMBDA c : Len(chambers'[c]), Chambers)]
  /\ UNCHANGED <<setup, seen, event>>

\* The best track, if any: a line and one of the hits of each plane, or none of it.
SetFocalPlaneBestTrack ==
  /\ pc = "tracked" /\ pc' = "done"
  /\ \/ UNCHANGED <<event, dc>>
     \/ \E line \in Lines, its \in SUBSET UNION {ToSet(chambers[c]) : c \in Chambers} :
          /\ its # {} /\ \A g, h \in its : g.plane = h.plane => g = h
          /\ LET wires == EfficiencyPerWire(line, its)
             IN  dc' = [dc EXCEPT
                   !.event.best = [p \in Planes |-> SetToSeq({h \in its : h.plane = p})],
                   !.event.fWire_hit_did = wires.did, !.event.fWire_hit_should = wires.should]
          /\ event' = [event EXCEPT !.line = line]
  /\ UNCHANGED <<setup, seen, planes, chambers>>

Next == Decode \/ CoarseTrack \/ SetFocalPlaneBestTrack

Spec == Init /\ [][Next]_vars

---------------------------------------------------------------------------
(* Properties *)

TypeInvariant ==
  /\ seen \in 0 .. setup.MaxEvents /\ pc \in {"decoded", "tracked", "done"}
  /\ \A p \in Planes : Len(planes[p].fHits) <= fNWires /\ Len(planes[p].fFirstPassHits) <= fNWires
  /\ dc.counts.fTotEvents \in 0 .. seen

Tracked == pc # "decoded" /\ ~event.pedestal

\* the times of a wire that the event really has
Measured(p, w) == FlattenSeq([i \in DOMAIN event.raw |->
  IF event.raw[i].plane = p /\ event.raw[i].counter = w THEN event.raw[i].tdc ELSE <<>>])

\* The chambers hold the hits of this event and of no other: of each wire the first in the
\* TDC window, if its drift time, without the start time, is in the drift window.
HitsAreFirst ==
  Tracked =>
    \A p \in Planes, w \in 1 .. fNWires :
      LET mine == {h \in ToSet(chambers[fNChamber[p]]) : h.plane = p /\ h.wire = w}
          good == {i \in DOMAIN Measured(p, w) : InWindow(Measured(p, w)[i])}
          first == Measured(p, w)[Min(good)]
          drift == fPlaneTimeZero - first - setup.fTzeroWire[w] -
                     (IF event.start = -1000 THEN 0 ELSE event.start)
      IN  IF good # {} /\ drift \in fMin_DriftTime + 1 .. fMax_DriftTime - 1
          THEN {<<h.rawtdc, h.time>> : h \in mine} = {<<first, drift>>}
          ELSE mine = {}

\* A longer drift is a longer distance, for all hits whatever their wires, from one bin in
\* front of the table to its end and behind; and from the table on it is within the cell.
DistancesGrow ==
  Tracked =>
    LET its == UNION {ToSet(chambers[c]) : c \in Chambers}
    IN  /\ \A g, h \in its : fT0 - fBinSize < g.time /\ g.time <= h.time => g.dist <= h.dist
        /\ \A h \in its : fT0 <= h.time => h.dist \in 0 .. fFull * fBinSize

\* A wire of the best track that the track passes at less than half a pitch is the wire
\* that should have a hit, and has one; and no other is said to have one.
WiresAreTrue ==
  pc = "done" /\ event.line # <<>> =>
    \A p \in Planes :
      LET its == ToSet(dc.event.best[p])
          near(h) == -2 < event.line[p] - h.pos /\ event.line[p] - h.pos < 2
      IN  /\ \A h \in its : near(h) =>
               dc.event.fWire_hit_did[p] = h.wire /\ dc.event.fWire_hit_should[p] = h.wire
          /\ dc.event.fWire_hit_did[p] # kNone =>
               \E h \in its : /\ h.wire = dc.event.fWire_hit_did[p]
                              /\ event.line[p] - h.pos \in -2 .. 2

\* "N events with hits per plane" (src/src/THcDC.cxx:1640): an event with hits in a plane
\* is counted.
EventsAreCounted ==
  Tracked => \A p \in Planes : planes[p].fHits # <<>> => dc.counts.fPlaneEvents[p] > 0

\* A board seen from the other side is that of the mirrored wires.
BoardsAreMirrored ==
  \A v \in {0, 1}, p \in {1, 3} : \E n \in 70 .. 110 :
    \A w \in 1 .. n : ReadoutSide(v, p, TRUE, w) = ReadoutSide(v, p, FALSE, n + 1 - w)
=============================================================================
