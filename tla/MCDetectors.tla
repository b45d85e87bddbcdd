----------------------------- MODULE MCDetectors -----------------------------
(*************************************************************************)
(* The detectors, the choice of the best track, the beam and the physics *)
(* of two arms, one in each behaviour, with every input of its own.      *)
(*************************************************************************)
EXTENDS Integers, SequencesExt

VARIABLES drawn, setup, seen, event, det, pc

vars == <<drawn, setup, seen, event, det, pc>>

Pls(amp, time, int) == [amp |-> amp, time |-> time, int |-> int]
Channel(pulses, found) == [pulses |-> pulses, ped |-> 1, waveform |-> found # <<>>, found |-> found]

---------------------------------------------------------------------------
(* A plane: two paddles; one end with up to two TDC values and two pulses. *)

ScinSetup(mode, inv, cosmic, peds, use, n) ==
  [fADCMode |-> mode, fTofUsingInvAdc |-> inv, fCosmicFlag |-> cosmic, fUseSampWaveform |-> use,
   fPedLimit |-> 6, fMinPeds |-> 5, fTdcOffset |-> 10, fAdcTdcOffset |-> 2, fScinTdcToTime |-> 4,
   tdcRange |-> 10 .. 40, adcRange |-> -3 .. 3, fADCDiagCut |-> 5, fHodo_LCoeff |-> 4,
   fHodoCableFit |-> 2, fHodoVelLight |-> 2, fPosLeft |-> 8, fPosRight |-> -8, fInvAdcLinear |-> 2,
   fZpos |-> 20, fDzpos |-> 4, stray |-> 3, Pedestals |-> peds, MaxEvents |-> n]
MCScinSetups ==
  {ScinSetup("dynamic", inv, cosmic, FALSE, FALSE, 1) : inv, cosmic \in BOOLEAN} \union
  {ScinSetup("dynamic", FALSE, FALSE, FALSE, TRUE, 1), ScinSetup("pulse", TRUE, FALSE, TRUE, FALSE, 3),
   ScinSetup("dynamic", FALSE, FALSE, TRUE, FALSE, 3)}

ScinEnd(tdc, adc) == [tdc |-> tdc, adc |-> adc]
ScinEvent(pedestal, hits) == [pedestal |-> pedestal, hits |-> hits]
QuietEnd == ScinEnd(<<>>, Channel(<<>>, <<>>))
OtherPaddle == [pos |-> ScinEnd(<<5>>, Channel(<<Pls(4, 58, 8)>>, <<>>)), neg |-> QuietEnd]

ScinTdcs == {<<>>, <<5>>, <<50, 6>>, <<8, 5>>}
ScinAdcs == {Channel(p, <<>>) : p \in {<<>>, <<Pls(4, 57, 9)>>, <<Pls(0, 56, 3), Pls(4, 58, 9)>>,
                                       <<Pls(3, 60, 9), Pls(3, 57, 9)>>, <<Pls(5, 20, 7), Pls(3, 90, 9)>>}}
MCScinEvents(s) ==
  IF s.Pedestals
  THEN {ScinEvent(TRUE, 1 :> [pos |-> ScinEnd(<<>>, Channel(<<Pls(2, 9, v)>>, <<>>)),
                              neg |-> ScinEnd(<<>>, Channel(<<Pls(2, 9, 4)>>, <<>>))]) : v \in {2, 6}} \union
       {ScinEvent(FALSE, 1 :> [pos |-> ScinEnd(<<5>>, Channel(<<Pls(4, 57, 9)>>, <<>>)), neg |-> e]
                         @@ 2 :> OtherPaddle) :
          e \in {QuietEnd, ScinEnd(<<6>>, Channel(<<Pls(3, 60, 9)>>, <<>>))}}
  ELSE {ScinEvent(FALSE, 1 :> [pos |-> ScinEnd(t, a), neg |-> e] @@ 2 :> OtherPaddle) :
          t \in ScinTdcs, a \in ScinAdcs \union {Channel(<<>>, <<Pls(3, 57, 8)>>)},
          e \in {QuietEnd, ScinEnd(<<6>>, Channel(<<Pls(3, 60, 9)>>, <<Pls(2, 59, 7)>>)),
                 ScinEnd(<<9>>, Channel(<<Pls(0, 58, 4), Pls(4, 70, 9)>>, <<>>)),
                 ScinEnd(<<90>>, Channel(<<Pls(3, 60, 9)>>, <<>>))}}

MCWalk(amp) == IF amp > 100 THEN 0 ELSE 8 - 2 * amp
MCInvWalk(int) == 16 - 2 * int

P == INSTANCE ScintillatorPlane WITH
  Paddles <- 1 .. 2, ScinSetups <- MCScinSetups, ScinEvents <- MCScinEvents, PedSlack <- 2,
  UnmeasuredAmp <- 200, MaxDiff <- 1000, Walk <- MCWalk, InvWalk <- MCInvWalk, NoTdc <- -999

---------------------------------------------------------------------------
(* The peak: up to four piles of several heights, and once the value past  *)
(* the end of the vector matters.                                          *)

Heights == {0, 2, 6, 8, 12, 20}
MCHistograms ==
  {[b \in 1 .. 24 |-> CASE b = 3 -> h[1] [] b = 7 -> h[2] [] b = 11 -> h[3] [] b = 16 -> h[4] [] OTHER -> 0] :
     h \in [1 .. 4 -> Heights]}

MCNoEvents(s) == {}

T == INSTANCE Hodoscope WITH
  NBinsX <- 24, fTofTolerance <- 2, hTimeScanRange <- 1, Apart <- 3, MinimumNum <- 1, Enough <- 5,
  Alike <- 4, fStartTimeCenter <- 9, MaxNCluster <- 2, HodoSetups <- {}, HodoEvents <- MCNoEvents,
  Histograms <- MCHistograms, StrayReads <- {{}} \union {{nb} : nb \in {8, 12, 17}}

---------------------------------------------------------------------------
(* The hodoscope: up to three paddles of a plane, up to two tracks.        *)

HodoSetup(planes, single, n) ==
  [fTrackEffTestNScinPlanes |-> planes, fTrackBetaIncludeSinglePmtHits |-> single, fHodoSlop |-> 2,
   lo |-> 1, hi |-> 6, trackeff_scint_diff_max |-> 3, MaxEvents |-> n]
MCHodoSetups == {HodoSetup(4, TRUE, 1), HodoSetup(3, FALSE, 1), HodoSetup(4, FALSE, 2)}

HodoHit(paddle, t, ends) ==
  [paddle |-> paddle, both |-> ends = {"pos", "neg"}, fp |-> [pos |-> t, neg |-> t],
   adc |-> [pos |-> t, neg |-> t], tdc |-> ends, along |-> 4]
TwoEnds == {"pos", "neg"}
Skewed(paddle) == [HodoHit(paddle, 6, TwoEnds) EXCEPT !.fp = [pos |-> 6, neg |-> 8]]

HodoPlanes == {<<>>, <<HodoHit(2, 6, TwoEnds)>>, <<HodoHit(2, 6, TwoEnds), HodoHit(3, 6, TwoEnds)>>,
               <<HodoHit(2, 6, {"neg"}), HodoHit(5, 6, TwoEnds)>>, <<Skewed(2), HodoHit(5, 14, TwoEnds)>>}
FewPlanes == {<<>>, <<HodoHit(2, 6, TwoEnds)>>, <<HodoHit(2, 6, TwoEnds), HodoHit(4, 6, TwoEnds), HodoHit(6, 6, TwoEnds)>>}

Along(a) == [at |-> [ip \in 1 .. 4 |-> a]]
HodoEvent(planes, tracks, golden, strays) ==
  [planes |-> planes, tracks |-> tracks, golden |-> golden, strays |-> strays]
MCHodoEvents(s) ==
  {HodoEvent(p, t, IF t = <<>> THEN 0 ELSE 1, {}) :
     p \in [1 .. 4 -> IF s.MaxEvents = 1 THEN HodoPlanes ELSE FewPlanes],
     t \in IF s.MaxEvents = 1 THEN {<<>>, <<Along(4)>>, <<Along(5), Along(10)>>} ELSE {<<Along(4)>>}}

H == INSTANCE Hodoscope WITH
  NBinsX <- 16, fTofTolerance <- 2, hTimeScanRange <- 1, Apart <- 3, MinimumNum <- 2, Enough <- 5,
  Alike <- 4, fStartTimeCenter <- 8, MaxNCluster <- 2, HodoSetups <- MCHodoSetups, HodoEvents <- MCHodoEvents,
  Histograms <- {}, StrayReads <- {}

---------------------------------------------------------------------------
(* The efficiency: two planes of four counters, up to three events.       *)

EffHits == {<<>>, <<[paddle |-> 1, ends |-> TwoEnds]>>, <<[paddle |-> 4, ends |-> TwoEnds]>>,
            <<[paddle |-> 1, ends |-> {"neg"}], [paddle |-> 3, ends |-> {"pos"}]>>, <<[paddle |-> 2, ends |-> {"pos"}]>>,
            <<[paddle |-> 2, ends |-> {"neg"}], [paddle |-> 3, ends |-> TwoEnds]>>,
            <<[paddle |-> 1, ends |-> {"pos"}], [paddle |-> 2, ends |-> TwoEnds]>>}
MCEffEvents(n) ==
  {[track |-> <<[counter |-> <<c, n>>, near |-> <<near, TRUE>>, good |-> TRUE]>>, hits |-> <<p, q>>] :
     c \in 1 .. n, near \in BOOLEAN, p \in EffHits, q \in {<<>>, <<[paddle |-> 3, ends |-> TwoEnds]>>}} \union
  {[track |-> <<>>, hits |-> <<<<>>, <<>>>>]}

E == INSTANCE HodoEff WITH
  fNPlanes <- 2, fNCounters <- 4, EffEvents <- MCEffEvents(4), MaxEffEvents <- 2

---------------------------------------------------------------------------

HodoInit ==
  \/ drawn = "plane" /\ P!Init
  \/ drawn = "peak" /\ T!PeakInit
  \/ drawn = "hodoscope" /\ H!Init
  \/ drawn = "efficiency" /\ E!Init

HodoNext ==
  \/ drawn = "plane" /\ P!Next
  \/ drawn = "peak" /\ T!PeakNext
  \/ drawn = "hodoscope" /\ H!Next
  \/ drawn = "efficiency" /\ E!Next

---------------------------------------------------------------------------
(* The calorimeter: three layers of three blocks, an array of two columns. *)

CalSetup(mode, array, fv, use, peds, n) ==
  [fADCMode |-> mode, fHasArray |-> array, fvTest |-> fv, fUseSampWaveform |-> use, Pedestals |-> peds,
   fPedLimit |-> 6, fMinPeds |-> 5, stray |-> 3, fAdcTdcOffset |-> 1, fPedDefault |-> 2, fAdcThreshold |-> 2,
   fAdcTimeWindowMin |-> -4, fAdcTimeWindowMax |-> 4, fGain |-> 2, fSlop |-> 1, fNegCols |-> 1,
   fStatSlop |-> 2, MaxEvents |-> n,
   fYPos |-> <<[right |-> 0, left |-> 5], [right |-> 2, left |-> 4], [right |-> 1, left |-> 3]>>]

Lit(int) == Channel(<<Pls(2, 9, int)>>, <<>>)
Dark == Channel(<<>>, <<>>)
Block(pos, neg) == [pos |-> pos, neg |-> neg]
CalTrack(x, y, inside, good) == [x |-> x, y |-> y, inside |-> inside, good |-> good]
CalEvent(pedestal, planes, array, tracks) ==
  [pedestal |-> pedestal, planes |-> planes, array |-> array, start |-> 12, tracks |-> tracks,
   golden |-> IF tracks = <<>> THEN 0 ELSE Len(tracks)]

\* blocks with some light, more of it in the rows behind
LitLayers(lit) ==
  [j \in 1 .. 3 |-> [i \in {h[2] : h \in {k \in lit : k[1] = j}} |->
     Block(Lit(7 + 3 * i), IF j = 1 THEN Lit(9) ELSE Dark)]]
LitArray(lit) == [b \in lit |-> Lit(7 + 4 * b)]
AtMostThree(all) == {some \in SUBSET all : Cardinality(some) <= 3}

CalTracks == {<<>>, <<CalTrack(3, 2, TRUE, TRUE)>>,
              <<CalTrack(6, 4, TRUE, TRUE), CalTrack(2, 3, FALSE, TRUE)>>}
SomePulses == {<<>>, <<Pls(2, 9, 3), Pls(2, 8, 9)>>, <<Pls(2, 8, 1), Pls(2, 2, 8), Pls(0, 9, 6)>>,
               <<Pls(2, 9, 9), Pls(3, 10, 5)>>}
SomeBlocks == {Block(Channel(p, <<>>), n) : p \in SomePulses, n \in {Dark, Lit(5)}}
                \union {Block(Channel(<<>>, <<Pls(3, 9, 7), Pls(2, 9, 4)>>), n) :
                          n \in {Lit(9), Channel(<<>>, <<Pls(3, 8, 7), Pls(2, 9, 4)>>),
                                Channel(<<Pls(2, 8, 5)>>, <<Pls(3, 8, 7), Pls(2, 15, 4)>>)}}

MCCalEvents(s) ==
  CASE s.Pedestals ->
         {CalEvent(TRUE, [j \in 1 .. 3 |-> 1 :> Block(Lit(v), Lit(4))], 1 :> Lit(v), <<>>) : v \in {2, 6}} \union
         {CalEvent(FALSE, [j \in 1 .. 3 |-> 1 :> Block(Lit(v), Lit(9))], 1 :> Lit(15), <<>>) : v \in {8, 20}}
    [] s.MaxEvents = 1 /\ ~s.fHasArray ->
         {CalEvent(FALSE, LitLayers(lit), <<>>, t) : lit \in AtMostThree((1 .. 3) \X (1 .. 3)), t \in CalTracks}
    [] s.MaxEvents = 1 /\ ~s.fUseSampWaveform ->
         {CalEvent(FALSE, LitLayers({<<1, 1>>, <<3, 3>>}), LitArray(lit), t) : lit \in AtMostThree(1 .. 6), t \in CalTracks}
    [] OTHER ->
         {CalEvent(FALSE, <<1 :> b, <<>>, 2 :> Block(Lit(9), Dark)>>, 2 :> b.pos, <<CalTrack(2, 3, TRUE, TRUE)>>) :
            b \in SomeBlocks}

MCCalSetups ==
  {CalSetup("dynamic", FALSE, fv, FALSE, FALSE, 1) : fv \in BOOLEAN} \union
  {CalSetup("dynamic", TRUE, TRUE, FALSE, FALSE, 1), CalSetup("dynamic", TRUE, FALSE, TRUE, FALSE, 1),
   CalSetup("dynamic", TRUE, FALSE, FALSE, FALSE, 2), CalSetup("standard", TRUE, FALSE, FALSE, TRUE, 4)}

MCYcor(y, side) == CASE side = "pos" -> y [] side = "neg" -> y + 1 [] OTHER -> 2

S == INSTANCE Shower WITH
  NLayers <- 3, NRows <- 3, NColumns <- 2, PedSlack <- 2, Margin <- 3, Ycor <- MCYcor,
  CalSetups <- MCCalSetups, CalEvents <- MCCalEvents

---------------------------------------------------------------------------
(* The best track: up to three tracks; for the method with the hodoscope   *)
(* up to three events.                                                     *)

TrackSetup(method, sorting, newIndex, dipole, n) ==
  [method |-> method, fTrSorting |-> sorting, newIndex |-> newIndex, fPruneDipoleExit |-> dipole,
   fPruneDf |-> 0, fSelNDegreesMin |-> 0, MaxEvents |-> n]

MCTrackSetups ==
  {TrackSetup("simple", sorting, 1, FALSE, 1) : sorting \in BOOLEAN} \union
  {TrackSetup("prune", TRUE, 1, dipole, 1) : dipole \in BOOLEAN} \union
  {TrackSetup("scin", TRUE, i, FALSE, 1) : i \in {0, 1}} \union {TrackSetup("scin", TRUE, 1, FALSE, 3)}

ATrack(num, chi2, ndof, fails, inCuts, x2, y2) ==
  [num |-> num, chi2 |-> chi2, ndof |-> ndof, fails |-> fails, inCuts |-> inCuts, x2 |-> x2, y2 |-> y2]

PruneTests == {"xptar", "yptar", "ytar", "delta", "dipole", "beta", "npmt", "betachi2", "fptime", "y2", "x2"}
OneTrack(s, num) ==
  IF s.MaxEvents > 1 THEN {ATrack(num, 3, 2, {}, inCuts, 1, 2) : inCuts \in BOOLEAN}
  ELSE IF s.method = "scin"
  THEN {ATrack(num, chi2, ndof, {}, inCuts, x2, y2) : chi2 \in {3, 4}, ndof \in {0, 2}, inCuts \in BOOLEAN, x2 \in {1, 3}, y2 \in {2, 5}}
  ELSE {ATrack(num, chi2, ndof, fails, TRUE, 1, 1) : chi2 \in {3, 4}, ndof \in {0, 2},
          fails \in {{}, {"delta"}, {"delta", "x2"}, {"dipole"}, {"xptar", "x2"}}}
       \union {ATrack(num, 3, 2, {test}, TRUE, 1, 1) : test \in PruneTests}

MCTrackEvents(s) ==
  {[tracks |-> t, x2Hits |-> {2}, y2Hits |-> y] :
     t \in {<<>>} \union {<<a>> : a \in OneTrack(s, 1)}
             \union {<<a, b>> : a \in OneTrack(s, 1), b \in OneTrack(s, 2)}
             \union {<<a, b, ATrack(3, 2, 2, {"x2"}, TRUE, 2, 3)>> : a \in OneTrack(s, 1), b \in OneTrack(s, 2)},
     y \in IF s.method = "scin" THEN {{}, {3}} ELSE {{}}}

B == INSTANCE BestTrack WITH TrackSetups <- MCTrackSetups, TrackEvents <- MCTrackEvents

---------------------------------------------------------------------------
(* Coincidence: up to three times of a signal, and a track in each arm.    *)

CoinSetup(elec, override, use, types, windows, n, runs) ==
  [fTdcNames |-> <<"t1", "t4", "t2", "rf", "t1">>, fTrigNames |-> <<"t1", "t4", "t2", "t9">>, fRFNames |-> <<"rf", "t4">>,
   adcWindow |-> <<<<2, 6>>, <<0, 9>>>>, tdcWindow |-> windows, fTdcOffset |-> 3, fAdcTdcOffset |-> 2,
   fUseSampWaveform |-> use, eventtypes |-> types, felecArmName |-> elec, eHad_CT_Offset |-> 2,
   Bunch_Spacing_Override |-> override, DefaultSpacing |-> 4, Sensible |-> 1 .. 4, Epics |-> {3, 9},
   rfOffset |-> [SHMS |-> [all |-> 1, of |-> "K" :> 3], HMS |-> [all |-> -2, of |-> "p" :> 1 @@ "e" :> 2]],
   MaxEvents |-> n, MaxRuns |-> runs]
MCCoinSetups ==
  {CoinSetup(elec, 0, elec = "H", {}, <<4, 8>>, 1, 1) : elec \in {"H", "P"}} \union {CoinSetup("H", 5, FALSE, {2}, <<4, 8>>, 2, 1),
   CoinSetup("P", 0, FALSE, {}, <<4, 8>>, 2, 2)}

ArmTrack(fp, e) == <<[fp |-> fp, flight |-> [e |-> e, pi |-> e + 1, K |-> e + 3, p |-> e + 6]]>>
CoinTdc(times, ref) == [times |-> times, ref |-> ref]
CoinEvent(tdcs, adcs, shms, hms, mass, type, present) ==
  [tdcs |-> tdcs, adcs |-> adcs, tracks |-> [SHMS |-> shms, HMS |-> hms], massOK |-> mass, type |-> type, present |-> present]
kNo == 9999
TrigTimes == {<<>>, <<5>>, <<1, 9>>, <<9, 7, 6>>, <<2, 6, 4>>}
TrigPulses == UNION {[1 .. n -> {Pls(1, 1, 3), Pls(3, 4, 5), Pls(4, 6, 2)}] : n \in 0 .. 2}
OneEnd == Channel(<<Pls(3, 4, 5)>>, <<>>)
NoTracks == <<>>
MCCoinEvents(s) ==
  IF s.MaxEvents > 1
  THEN {CoinEvent(5 :> CoinTdc(<<5, 7>>, 50) @@ 4 :> CoinTdc(<<9, 7, 6>>, 50), 1 :> Channel(p, <<>>),
                  ArmTrack(7, 2), h, TRUE, 1, b) :
          p \in {<<>>, <<Pls(3, 4, 5)>>}, h \in {NoTracks, ArmTrack(3, 4)}, b \in BOOLEAN}
  ELSE {CoinEvent(1 :> CoinTdc(t, 50) @@ 2 :> CoinTdc(u, kNo) @@ 3 :> CoinTdc(<<6>>, 60) @@ 4 :> CoinTdc(u, kNo),
                  1 :> OneEnd, ArmTrack(7, 2), ArmTrack(fp, 1), TRUE, 1, TRUE) :
          t, u \in TrigTimes, fp \in {2, 40, -1000}} \union
       {CoinEvent(5 :> CoinTdc(<<5, 7>>, 50), 2 :> Channel(p, f), ArmTrack(7, 2), h, mass, 2, FALSE) :
          p, f \in TrigPulses, h \in {NoTracks, ArmTrack(3, 4)}, mass \in BOOLEAN}

Q == INSTANCE Coincidence WITH kBig <- kNo, NotLoaded <- 0, CoinSetups <- MCCoinSetups, CoinEvents <- MCCoinEvents

---------------------------------------------------------------------------
(* The raster: a few readings of the monitors, and of the coils.           *)

RasterSetup(beam, usefr, n) ==
  [beam |-> beam, zero_offset |-> [c \in {"YA", "XA", "YB", "XB"} |-> 2], slope |-> [x |-> -1, y |-> 1],
   off |-> [x |-> 1, y |-> 0], fgusefr |-> usefr, MaxEvents |-> n]
At(x, y) == [x |-> x, y |-> y]
MCRasterSetups ==
  {RasterSetup(<<>>, usefr, 3) : usefr \in BOOLEAN} \union
  {RasterSetup(<<[tar |-> At(3, 1), angle |-> At(1, 2)]>>, TRUE, 2)}

CoilValues == {<<>>, <<2>>, <<4, 6>>}
Reading(a, c) == [A |-> a, B |-> At(1, 1), C |-> c]
Readings == {<<>>, [m \in {"A", "B", "C"} |-> At(0, 0)], Reading(At(2, 1), At(4, 0)), Reading(At(0, 3), At(1, 1))}
RasterEvent(pedestal, xa, ya, samples, bpm) ==
  [pedestal |-> pedestal, epics |-> [bpm |-> bpm, energy |-> 7],
   coils |-> "XA" :> [pulses |-> xa, samples |-> samples] @@ "YA" :> [pulses |-> ya, samples |-> <<>>]]
MCRasterEvents(s) ==
  {RasterEvent(b, xa, <<2>>, samples, bpm) : b \in BOOLEAN, xa \in CoilValues, samples \in {<<>>, <<5>>}, bpm \in Readings}

R == INSTANCE Raster WITH
  RasterSetups <- MCRasterSetups, RasterEvents <- MCRasterEvents, ZeroA <- 3, SpanAC <- 2, MaxPedestals <- 2

---------------------------------------------------------------------------
(* A monitor with four antennas.                                           *)

BpmSetup(mode, n) ==
  [fADCMode |-> mode, fPedestals |-> <<1, 1, 2, 2>>, fPedLimit |-> 6, fMinPed |-> 5, fCalibRot |-> 3,
   rotmatrix |-> <<<<1, 1>>, <<-1, 1>>>>, fOffset |-> <<2, -1>>, MaxEvents |-> n]
MCBpmSetups == {BpmSetup("dynamic", 1), BpmSetup("database", 1), BpmSetup("calculated", 3)}

Antenna(v) == Channel(v, <<>>)
BpmEvent(pedestal, a, b, c) ==
  [pedestal |-> pedestal, hits |-> 1 :> a @@ 2 :> b @@ 3 :> c @@ 4 :> Antenna(<<Pls(3, 1, 4)>>)]
BpmSignals == {<<Pls(3, 1, 3)>>, <<Pls(3, 1, 6)>>, <<Pls(3, 1, 9), Pls(3, 2, 4)>>}
MCBpmEvents(s) ==
  IF s.MaxEvents = 1
  THEN {BpmEvent(FALSE, Antenna(p), q, Antenna(r)) : p, r \in BpmSignals,
          q \in {Antenna(r) : r \in BpmSignals} \union {Antenna(<<>>), Channel(<<>>, <<Pls(4, 2, 5)>>)}}
  ELSE {BpmEvent(b, Antenna(p), Antenna(<<Pls(3, 1, 5)>>), Antenna(<<Pls(3, 1, 4)>>)) : b \in BOOLEAN, p \in BpmSignals}

M == INSTANCE BPM WITH BpmSetups <- MCBpmSetups, BpmEvents <- MCBpmEvents, PedSlack <- 2

---------------------------------------------------------------------------
(* Up to three reads of two current monitors, in two runs.                 *)

Read(n, i) == [event |-> n, current |-> "bcm1" :> i @@ "bcm2" :> 3 - i]
BcmTables == UNION {[1 .. n -> {Read(1, 1), Read(1, 3), Read(3, 2), Read(4, 1)}] : n \in 0 .. 3}
MCBcmSetups ==
  {[tables |-> <<t, <<Read(2, 3), Read(5, 1)>> >>, fBCMIndex |-> m, fThreshold |-> 2] : t \in BcmTables, m \in {"bcm1", "none"}}

N == INSTANCE BCMCurrent WITH BcmMonitors <- {"bcm1", "bcm2"}, BcmSetups <- MCBcmSetups, MaxEvNum <- 5

---------------------------------------------------------------------------
(* Kinematics: momenta of 12 and 40, masses of 5, 9, 16 and 35.            *)

KineSetup(fMX, first, n) ==
  [fM |-> 9, fMX |-> fMX, gtargmass |-> IF fMX = 16 THEN {7, 16} ELSE {16}, MaxEvents |-> n,
   order |-> IF first = "primary" THEN <<"primary", "secondary">> ELSE <<"secondary", "primary">>]
MCKineSetups ==
  {KineSetup(fMX, "primary", 2) : fMX \in {0, 5, 9, 16, 35}} \union {KineSetup(9, "secondary", 2)}

Arm(s) == {<<>>} \union {<<0, 0, 12>>, <<4, 8, 8>>, <<8, 4, 8>>}
MCKineEvents(s) == {[beam |-> <<0, 0, 40>>, electron |-> e, hadron |-> h] : e, h \in Arm(s)}

Z == INSTANCE Kinematics WITH
  KineSetups <- MCKineSetups, KineEvents <- MCKineEvents, Mp <- 16, Hadrons <- {5, 9, 16}, kBig <- 9999

BeamInit ==
  \/ drawn = "coincidence" /\ Q!Init
  \/ drawn = "raster" /\ R!Init
  \/ drawn = "monitor" /\ M!Init
  \/ drawn = "current" /\ N!Init
  \/ drawn = "kinematics" /\ Z!Init

BeamNext ==
  \/ drawn = "coincidence" /\ Q!Next
  \/ drawn = "raster" /\ R!Next
  \/ drawn = "monitor" /\ M!Next
  \/ drawn = "current" /\ N!Next
  \/ drawn = "kinematics" /\ Z!Next

---------------------------------------------------------------------------
(* Waveform: two quiet samples, then six of up to three levels.            *)

Finding(nsa, nsb, nsat, threshold) ==
  [NSA |-> nsa, NSB |-> nsb, NSAT |-> nsat, threshold |-> threshold]
MCWaveSetups == {Finding(3, 1, 2, 1), Finding(1, 0, 1, 2), Finding(1, 3, 1, 1), Finding(2, 1, 1, 0)}
MCWaveforms == {<<0, b>> \o s : b \in {0, 1}, s \in [1 .. 6 -> 0 .. 2]}

W == INSTANCE Waveform WITH
  NPED <- 2, fMaxNPulses <- 2, SubSamples <- 64, WaveSetups <- MCWaveSetups, Waveforms <- MCWaveforms

---------------------------------------------------------------------------
(* Cherenkov: two tubes; the first has up to three pulses.                 *)

CerSetup(peds, n, default, use) ==
  [fMinPeds |-> 5, fPedLimit |-> 6, fPedMean |-> <<>>, fAdcTdcOffset |-> 1, fPedDefault |-> default,
   fUseSampWaveform |-> use, fAdcTimeWindowMin |-> -4, fAdcTimeWindowMax |-> 4, fGain |-> 2,
   fNpeThresh |-> 10, MaxPedestals |-> peds, MaxEvents |-> n]
MCCerSetups ==
  {CerSetup(6, 2, 0, FALSE)} \union {CerSetup(0, 1, default, use) : default \in {0, 2}, use \in BOOLEAN}

CerPulses == {Pls(0, 9, 5), Pls(2, 9, 4), Pls(3, 9, 6), Pls(4, 2, 7)}
CerEvent(pulses, found, good) ==
  [channels |-> <<Channel(pulses, found), Channel(<<Pls(2, 9, 3)>>, <<>>)>>,
   start |-> 12, track |-> [good |-> good, regions |-> {1}]]

\* with pedestals, a few events in any order
MCCerEvents(s) ==
  IF s.MaxPedestals > 0
  THEN {CerEvent(<<>>, <<>>, FALSE), CerEvent(<<Pls(3, 9, 6), Pls(2, 9, 4)>>, <<>>, TRUE)}
  ELSE {CerEvent(p, w, TRUE) : p \in UNION {[1 .. n -> CerPulses] : n \in 0 .. 3},
                               w \in {<<>>, <<Pls(3, 10, 8), Pls(5, 9, 3)>>}}
MCCerPedestalEvents == {[values |-> <<1>>], [values |-> <<4, 3>>], [values |-> <<6, 7>>]}

C == INSTANCE Cherenkov WITH
  Tubes <- 1 .. 2, CerRegions <- {1, 2}, CerSetups <- MCCerSetups, CerEvents <- MCCerEvents,
  CerPedestalEvents <- MCCerPedestalEvents, PedSlack <- 2

---------------------------------------------------------------------------
(* Aerogel: two tubes; up to two pulses on one side of the first.          *)

AeroSetup(six, use, n) ==
  [fSixGevData |-> six, fUseSampWaveform |-> use, fPedLimit |-> 6, fMinPeds |-> 5, fPedDefault |-> 2,
   fAdcTdcOffset |-> 1, fAdcTimeWindowMin |-> -4, fAdcTimeWindowMax |-> 4, fGain |-> 2,
   fNpeThresh |-> 10, MaxEvents |-> n]
MCAeroSetups ==
  {AeroSetup(TRUE, FALSE, 7), AeroSetup(FALSE, FALSE, 2), AeroSetup(FALSE, TRUE, 1)}

AeroHit(pos, neg, tpos, tneg) == [pos |-> pos, neg |-> neg, tpos |-> tpos, tneg |-> tneg]
AeroEvent(pedestal, hits) ==
  [pedestal |-> pedestal, hits |-> hits, start |-> 12, track |-> [good |-> TRUE, regions |-> {1}]]
Single(int) == Channel(<<Pls(2, 9, int)>>, <<>>)
SecondTube == AeroHit(Single(9), Single(4), <<-2, 3>>, <<>>)

MCAeroEvents(s) ==
  IF s.fSixGevData
  THEN {AeroEvent(TRUE, 1 :> AeroHit(Single(v), Single(5), <<>>, <<>>)) : v \in {2, 6}} \union
       {AeroEvent(FALSE, 1 :> AeroHit(Single(v), Channel(<<>>, <<>>), <<-1>>, <<4, 1>>) @@ 2 :> SecondTube) :
          v \in {2, 9}}
  ELSE {AeroEvent(TRUE, 1 :> AeroHit(Channel(p, w), Channel(q, <<>>), <<>>, <<>>) @@ 2 :> SecondTube) :
          p \in UNION {[1 .. n -> CerPulses] : n \in 0 .. 2}, w \in {<<>>, <<Pls(3, 10, 8), Pls(5, 9, 3)>>},
          q \in {<<>>, <<Pls(2, 9, 4), Pls(3, 8, 6)>>}}

A == INSTANCE Aerogel WITH
  AeroTubes <- 1 .. 2, AeroRegions <- {1, 2}, AeroSetups <- MCAeroSetups, AeroEvents <- MCAeroEvents,
  PedSlack <- 2, FullScale <- 8, NoisyNpe <- 100

---------------------------------------------------------------------------

MCInit ==
  \/ drawn = "waveform" /\ W!Init /\ seen = 0
  \/ drawn = "cherenkov" /\ C!Init
  \/ drawn = "aerogel" /\ A!Init
  \/ HodoInit
  \/ drawn = "shower" /\ S!Init
  \/ drawn = "best track" /\ B!Init
  \/ BeamInit

MCNext ==
  /\ UNCHANGED drawn
  /\ \/ drawn = "waveform" /\ W!Next /\ UNCHANGED seen
     \/ drawn = "cherenkov" /\ C!Next
     \/ drawn = "aerogel" /\ A!Next
     \/ HodoNext
     \/ drawn = "shower" /\ S!Next
     \/ drawn = "best track" /\ B!Next
     \/ BeamNext

MCSpec == MCInit /\ [][MCNext]_vars

---------------------------------------------------------------------------
(* The properties of the detector drawn.                                   *)

Types ==
  CASE drawn = "waveform" -> W!TypeInvariant
    [] drawn = "cherenkov" -> C!TypeInvariant
    [] drawn = "aerogel" -> A!TypeInvariant
    [] drawn = "plane" -> P!TypeInvariant
    [] drawn = "peak" -> T!PeakTypes
    [] drawn = "hodoscope" -> H!TypeInvariant
    [] drawn = "efficiency" -> E!TypeInvariant
    [] drawn = "shower" -> S!TypeInvariant
    [] drawn = "best track" -> B!TypeInvariant
    [] drawn = "coincidence" -> Q!TypeInvariant
    [] drawn = "raster" -> R!TypeInvariant
    [] drawn = "monitor" -> M!TypeInvariant
    [] drawn = "current" -> N!TypeInvariant
    [] drawn = "kinematics" -> Z!TypeInvariant

\* What a detector reports is of the event it has decoded last: Clear and the
\* clearing at the start of each routine leave nothing of earlier events.
NothingStale ==
  CASE drawn = "cherenkov" -> C!NothingStale
    [] drawn = "aerogel" -> A!NothingStale
    [] drawn = "plane" -> P!NothingStale
    [] drawn = "hodoscope" -> H!NothingStale
    [] drawn = "shower" -> S!NothingStale
    [] drawn = "coincidence" -> Q!NothingStale
    [] drawn = "monitor" -> M!NothingStale
    [] drawn = "kinematics" -> Z!NothingStale
    [] OTHER -> TRUE

\* After an event with physics the pedestals are those of all pedestal events
\* so far, although they are worked out only when such an event comes.
PedestalsAreCurrent ==
  CASE drawn = "cherenkov" -> C!PedestalsAreCurrent
    [] drawn = "aerogel" -> A!PedestalsAreCurrent
    [] drawn = "plane" -> P!PedestalsAreCurrent
    [] drawn = "shower" -> S!PedestalsAreCurrent
    [] drawn = "raster" -> R!PedestalsAreCurrent
    [] drawn = "monitor" -> M!PedestalsAreCurrent
    [] OTHER -> TRUE

\* A pulse is a crossing of the threshold, and the one a detector takes of a
\* channel is the one its rule names, wherever the module reports it.
PulsesAreChosen ==
  CASE drawn = "waveform" -> W!PulsesAreCrossings /\ W!IntegralsAreNet
    [] drawn = "cherenkov" -> C!PulsesAreChosen
    [] drawn = "aerogel" -> A!PulsesAreChosen
    [] drawn = "plane" -> P!EndsAreChosen
    [] drawn = "shower" -> S!PulsesAreChosen
    [] drawn = "coincidence" -> Q!TriggersAreChosen
    [] OTHER -> TRUE

\* Every time is made from ends and hits that are good: those of a paddle, of
\* the start and of a track.
TimesAreTrue ==
  CASE drawn = "plane" -> P!HitsAreGoodEnds /\ P!TimesAreMeans
    [] drawn = "peak" -> T!PeakIsStrong
    [] drawn = "hodoscope" -> H!StartTimeIsOfThree /\ H!TrackTimeIsOwn
    [] OTHER -> TRUE

\* The clusters of paddles taken for the tracking efficiency.
GoodHitsMatch == drawn = "hodoscope" => H!GoodHitsMatch /\ H!PlacesAreOfClusters

\* The clusters of the calorimeter with their energies, and the tracks they match.
ClustersAreTrue ==
  drawn = "shower" => S!ClustersAreComponents /\ S!EnergyIsOfClusters /\ S!MatchIsNearest

\* The best track is the best of those that pass the most tests.
BestTrackIsBest == drawn = "best track" => B!BestTrackIsBest

\* What a step adds to the counts of an efficiency is of the track and the hits of the
\* event: the track is counted where it passes, a hit where it is near the track.
EfficienciesAreTrue ==
  [][/\ drawn = "efficiency" => E!EfficienciesAreTrue
     /\ drawn = "shower" => S!EfficienciesAreTrue]_vars

\* The times of two arms are compared in the same order whichever of them has the
\* electron, each bunch is the nearest one, and energy and momentum are
\* conserved where the two tracks come from.
CoincidenceIsTrue ==
  CASE drawn = "coincidence" -> Q!CoincidenceIsTrue /\ Q!BunchTimesAreTrue
    [] drawn = "kinematics" -> Z!KinematicsAreConserved
    [] OTHER -> TRUE

\* The beam goes through what its monitors saw of it, and its current is of the next
\* read of the scalers.
BeamIsTrue ==
  CASE drawn = "raster" -> R!BeamIsStraight
    [] drawn = "monitor" -> M!PositionIsInside
    [] drawn = "current" -> N!CurrentIsOfNextRead
    [] OTHER -> TRUE

\* Two properties the program does not have; each is checked in a run of its
\* own and explained where it is defined.
SelectedIsGolden == drawn = "best track" => B!SelectedIsGolden
ThreePlanesMatch == drawn = "hodoscope" => H!ThreePlanesMatch
=============================================================================
