-------------------------- MODULE ScintillatorPlane --------------------------
(***************************************************************************)
(* THcScintillatorPlane: the paddles of one plane of the hodoscope, each   *)
(* with a phototube at both ends, each tube with a TDC and an ADC.  A      *)
(* paddle is a hit when one end has a TDC value in range and a pulse; its  *)
(* times are corrected for the height of the pulse and, when both ends     *)
(* have both, for the place of the hit.                                    *)
(*                                                                         *)
(* Lengths and times are integers, chosen even where they are halved.      *)
(***************************************************************************)
EXTENDS PulseList, FiniteSetsExt

CONSTANTS
  Paddles,         \* 1 .. fNelem
  ScinSetups,      \* the parameters, as they may be set, and the bound MaxEvents
  ScinEvents(_),   \* the events for a setup
  PedSlack,        \* 100
  UnmeasuredAmp,   \* 200, the amplitude of a pulse that has none
  MaxDiff,         \* 1000, and a pulse so far from the TDC's time is not near it
  Walk(_),         \* the correction of a time for the amplitude, and
  InvWalk(_),      \*   for the integral in the older way
  NoTdc            \* -999

VARIABLES setup, seen, event, det, pc

vars == <<setup, seen, event, det, pc>>

Ends == {"pos", "neg"}
kBig == 1000000

InitializePedestals ==
  [ped |-> [s \in Ends |-> [p \in Paddles |-> NewPedestal(setup.fPedLimit)]],
   fPed |-> [s \in Ends |-> [p \in Paddles |-> Mean(NewPedestal(0))]],
   fAnalyzePedestals |-> FALSE]

NoGood == [s \in Ends |-> [p \in Paddles |-> kBig]]

Cleared ==
  [pulses |-> [s \in Ends |-> <<>>],
   fHodoHits |-> <<>>,
   fGoodAdcHitUsed |-> [s \in Ends |-> [p \in Paddles |-> 0]],
   fGoodTdcTimeUnCorr |-> NoGood, fGoodTdcTimeCorr |-> NoGood, fGoodTdcTimeTOFCorr |-> NoGood,
   ADCHits |-> [s \in Ends |-> <<>>]]

\* the lists and the arrays of good values; the counts are left to ProcessHits
Clear(d) == [d EXCEPT !.event = Cleared]

\* what ProcessHits sets to zero before it looks at a hit
NoCounts ==
  [fNScinHits |-> 0, fTotNumGoodAdcHits |-> [s \in Ends |-> 0],
   fTotNumGoodTdcHits |-> [s \in Ends |-> 0]]

\* tw_corr_pos and tw_corr_neg are members: they stay when a paddle does not set them.
\* The totals have no value before there are hits.
NewPlane ==
  [pedestals |-> InitializePedestals, event |-> Cleared, tw_corr |-> [s \in Ends |-> 0],
   counts |-> [fNScinHits |-> 0, fTotNumGoodAdcHits |-> [s \in Ends |-> setup.stray],
               fTotNumGoodTdcHits |-> [s \in Ends |-> setup.stray]]]

---------------------------------------------------------------------------
(* Pedestals *)

AccumulatePedestals(d, e) ==
  [d EXCEPT !.pedestals.fAnalyzePedestals = TRUE,
            !.pedestals.ped =
     [s \in Ends |-> [p \in Paddles |->
        IF p \in DOMAIN e.hits
        THEN AddToPedestal(@[s][p], RawData(e.hits[p][s].adc), setup.fMinPeds, PedSlack) ELSE @[s][p]]]]

CalculatePedestals(d) ==
  [d EXCEPT !.pedestals.fAnalyzePedestals = FALSE,
            !.pedestals.fPed = [s \in Ends |-> [p \in Paddles |-> Mean(d.pedestals.ped[s][p])]]]

---------------------------------------------------------------------------
(* The end of a paddle: what its TDC and ADC give.                         *)

\* the first TDC value in range
GoodTdc(tdc) ==
  LET inRange == {i \in DOMAIN tdc : tdc[i] + setup.fTdcOffset \in setup.tdcRange}
  IN  IF inRange = {} THEN 0 ELSE Min(inRange)

\* the value the loop ends with: when none is in range, the last one
TdcValue(tdc) ==
  LET at == IF GoodTdc(tdc) # 0 THEN GoodTdc(tdc) ELSE Len(tdc)
  IN  IF at = 0 THEN NoTdc ELSE tdc[at] + setup.fTdcOffset

Amp(p, ch) == IF p.amp <= 0 THEN UnmeasuredAmp ELSE p.amp - ch.ped

TdcAdcDiff(p, tdc) == TdcValue(tdc) * setup.fScinTdcToTime - (p.time + setup.fAdcTdcOffset)

Magnitude(x) == IF x < 0 THEN -x ELSE x

\* the first largest pulse near the TDC's time
LargestInTime(ch, tdc) ==
  LET timed == {i \in DOMAIN ch.pulses : TdcAdcDiff(ch.pulses[i], tdc) \in setup.adcRange}
      largest == {i \in timed : \A j \in timed : Amp(ch.pulses[j], ch) <= Amp(ch.pulses[i], ch)}
  IN  IF timed = {} THEN 0 ELSE Min(largest)

\* the first of those closest to it
Closest(ch, tdc) ==
  LET diff(i) == Magnitude(TdcAdcDiff(ch.pulses[i], tdc))
      near == {i \in DOMAIN ch.pulses : diff(i) < MaxDiff}
      closest == {i \in near : \A j \in near : diff(i) <= diff(j)}
  IN  IF near = {} THEN 0 ELSE Min(closest)

\* good_ielem_posadc + 1 and good_ielem_negadc + 1
GoodAdc(ch, tdc) ==
  LET timed == IF GoodTdc(tdc) = 0 THEN 0 ELSE LargestInTime(ch, tdc)
      close == IF GoodTdc(tdc) = 0 THEN 0 ELSE Closest(ch, tdc)
  IN  IF timed # 0 THEN timed ELSE IF close # 0 THEN close
      ELSE IF ch.pulses # <<>> THEN 1 ELSE 0

\* An end: btdcraw, badcraw and the values that go with them.
End(in, ped) ==
  LET dynamic == setup.fADCMode = "dynamic"
      used == IF dynamic THEN GoodAdc(in.adc, in.tdc) ELSE 0
      p == in.adc.pulses[used]
  IN  [btdcraw |-> GoodTdc(in.tdc) # 0, badcraw |-> ~dynamic \/ used # 0,
       tdc |-> TdcValue(in.tdc), used |-> used,
       int |-> IF ~dynamic THEN RawData(in.adc) - ped.sum \div ped.n
               ELSE IF used = 0 THEN NoTdc ELSE p.int - in.adc.ped,
       amp |-> IF used = 0 THEN kBig ELSE Amp(p, in.adc),
       time |-> IF used = 0 THEN kBig ELSE p.time + setup.fAdcTdcOffset]

Good(end) == end.btdcraw /\ end.badcraw

---------------------------------------------------------------------------
(* The times of a hit.                                                     *)

\* for the height of the pulse
WalkCorrected(end, tw, s) ==
  IF setup.fTofUsingInvAdc THEN end.tdc * setup.fScinTdcToTime - InvWalk(end.int)
  ELSE end.tdc * setup.fScinTdcToTime - tw + setup.fHodo_LCoeff
         - (IF s = "neg" THEN 2 * setup.fHodoCableFit ELSE 0)

Between(low, x, high) == IF x > high THEN high ELSE IF x < low THEN low ELSE x

\* Mutant: the place is not kept within the paddle.
HitPosition_Free(pos, neg) ==
  (setup.fPosLeft + setup.fPosRight) \div 2 + ((neg - pos) * setup.fHodoVelLight) \div 2

HitPosition(pos, neg) ==
  Between(setup.fPosRight,
          (setup.fPosLeft + setup.fPosRight) \div 2 + ((neg - pos) * setup.fHodoVelLight) \div 2,
          setup.fPosLeft)

\* The time of flight to the paddle; every other paddle is further behind.
Flight(p) == setup.fZpos + ((p - 1) % 2) * setup.fDzpos
AtTarget(time, p) == IF setup.fCosmicFlag THEN time + Flight(p) ELSE time - Flight(p)

\* both ends are good
BothTimes(p, ends, tw) ==
  LET tpos == WalkCorrected(ends["pos"], tw["pos"], "pos")
      tneg == WalkCorrected(ends["neg"], tw["neg"], "neg")
      place == HitPosition(tpos, tneg)
      cpos == tpos - (setup.fPosLeft - place) \div setup.fInvAdcLinear
      cneg == tneg - (place - setup.fPosRight) \div setup.fInvAdcLinear
      mean == (tpos + tneg) \div 2
  IN  IF setup.fTofUsingInvAdc
      THEN [corr |-> [pos |-> cpos, neg |-> cneg], scin |-> (cpos + cneg) \div 2, both |-> TRUE,
            tof |-> [pos |-> AtTarget(cpos, p), neg |-> AtTarget(cneg, p)]]
      ELSE [corr |-> [pos |-> mean, neg |-> mean], scin |-> mean, both |-> TRUE,
            tof |-> [pos |-> AtTarget(mean, p), neg |-> AtTarget(mean, p)]]

\* one end is good; the other end has its TDC value, in ticks
OneTime(ends, tw) ==
  [corr |-> [s \in Ends |-> IF Good(ends[s]) THEN WalkCorrected(ends[s], tw[s], s) ELSE ends[s].tdc],
   scin |-> kBig, both |-> FALSE, tof |-> [s \in Ends |-> kBig]]

---------------------------------------------------------------------------
(* ProcessHits *)

\* The list of the pulses of one end. A failed pulse keeps its amplitude here, and the
\* times of pulses from waveforms of the negative end are not shifted.
Pulses(e, s) ==
  FlattenSeq([p \in Paddles |->
    IF p \notin DOMAIN e.hits THEN <<>>
    ELSE LET ch == e.hits[p][s].adc
             reported == ~setup.fUseSampWaveform /\ ch.pulses # <<>>
             offset == IF s = "pos" \/ reported THEN setup.fAdcTdcOffset ELSE 0
             list == ListOf(ch, p, offset, 0, setup.fUseSampWaveform)
         IN  [i \in DOMAIN list |->
                IF reported THEN [list[i] EXCEPT !.amp = ch.pulses[i].amp - ch.ped] ELSE list[i]]])

One(is) == IF is THEN 1 ELSE 0

\* the paddle's entries in the arrays of good values, and its hit
AddHit(d, p, ends) ==
  LET tw == [s \in Ends |-> IF Good(ends[s]) THEN Walk(ends[s].amp) ELSE d.tw_corr[s]]
      times == IF \A s \in Ends : Good(ends[s]) THEN BothTimes(p, ends, tw) ELSE OneTime(ends, tw)
      x == d.event
  IN  [d EXCEPT
         !.tw_corr = tw,
         !.counts.fNScinHits = @ + 1,
         !.counts.fTotNumGoodAdcHits = [s \in Ends |-> @[s] + One(ends[s].used # 0)],
         !.counts.fTotNumGoodTdcHits = [s \in Ends |-> @[s] + One(ends[s].btdcraw)],
         !.event = [x EXCEPT
           !.fHodoHits = Append(@, [paddle |-> p, ends |-> ends, times |-> times]),
           !.fGoodAdcHitUsed = [s \in Ends |-> [@[s] EXCEPT ![p] = ends[s].used]],
           !.fGoodTdcTimeUnCorr = [s \in Ends |->
              IF Good(ends[s]) THEN [@[s] EXCEPT ![p] = ends[s].tdc * setup.fScinTdcToTime] ELSE @[s]],
           !.fGoodTdcTimeCorr = [s \in Ends |-> [@[s] EXCEPT ![p] = times.corr[s]]],
           !.fGoodTdcTimeTOFCorr = [s \in Ends |-> [@[s] EXCEPT ![p] = times.tof[s]]]]]

ProcessHit(d, p, in) ==
  LET ends == [s \in Ends |-> End(in[s], d.pedestals.fPed[s][p])]
      listed == [d EXCEPT !.event.ADCHits =
                   [s \in Ends |-> IF ends[s].int >= setup.fADCDiagCut THEN Append(@[s], p) ELSE @[s]]]
  IN  IF \E s \in Ends : Good(ends[s]) THEN AddHit(listed, p, ends) ELSE listed

\* Mutant: the counts are not set to zero either.
ProcessHits_KeepCounts(d, e) ==
  FoldLeft(LAMBDA x, p : ProcessHit(x, p, e.hits[p]),
           [d EXCEPT !.event.pulses = [s \in Ends |-> Pulses(e, s)]],
           SetToSortSeq(DOMAIN e.hits, <))

ProcessHits(d, e) ==
  FoldLeft(LAMBDA x, p : ProcessHit(x, p, e.hits[p]),
           [d EXCEPT !.counts = NoCounts, !.event.pulses = [s \in Ends |-> Pulses(e, s)]],
           SetToSortSeq(DOMAIN e.hits, <))

---------------------------------------------------------------------------

Init ==
  /\ setup \in ScinSetups
  /\ seen = 0 /\ event = [pedestal |-> FALSE, hits |-> <<>>] /\ det = NewPlane /\ pc = "done"

\* what THcHodoscope::Decode does with the plane
Decode ==
  /\ pc = "done" /\ seen < setup.MaxEvents
  /\ event' \in ScinEvents(setup)
  /\ seen' = seen + 1
  /\ det' = IF event'.pedestal THEN AccumulatePedestals(Clear(det), event')
            ELSE LET ready == IF det.pedestals.fAnalyzePedestals THEN CalculatePedestals(det) ELSE det
                 IN  ProcessHits(Clear(ready), event')
  /\ UNCHANGED <<setup, pc>>

Next == Decode

Spec == Init /\ [][Next]_vars

---------------------------------------------------------------------------
(* Properties.                                                             *)

TypeInvariant ==
  /\ seen \in 0 .. setup.MaxEvents /\ det.tw_corr \in [Ends -> Int]
  /\ \A i \in DOMAIN det.event.fHodoHits : det.event.fHodoHits[i].paddle \in Paddles
  /\ \A s \in Ends, p \in Paddles : det.event.fGoodTdcTimeCorr[s][p] \in {kBig} \union Int

\* the events whose counts the plane may have now
Counted == IF event.pedestal THEN {e \in ScinEvents(setup) : ~e.pedestal} ELSE {event}

\* What an event gives depends on the event and the pedestals only, also where a
\* member is set in one paddle and used in another (tw_corr_pos, tw_corr_neg).  The counts
\* are those of the event if ProcessHits saw it; a pedestal event empties the hits and
\* leaves the counts, all together, of an event before (Clear, THcHodoscope::Decode).
NothingStale ==
  seen > 0 =>
    /\ \/ event.pedestal /\ det.event = Cleared /\ det.counts = NewPlane.counts
       \/ \E d \in {ProcessHits([NewPlane EXCEPT !.pedestals = det.pedestals], e) : e \in Counted} :
            /\ det.counts = d.counts
            /\ det.event = IF event.pedestal THEN Cleared ELSE d.event
    /\ ~event.pedestal => det.counts.fNScinHits = Len(det.event.fHodoHits)

\* After every other event the pedestals are of all pedestal events so far.
PedestalsAreCurrent ==
  seen > 0 /\ ~event.pedestal =>
    \A s \in Ends, p \in Paddles : det.pedestals.fPed[s][p] = Mean(det.pedestals.ped[s][p])

HitPaddles == {det.event.fHodoHits[i].paddle : i \in DOMAIN det.event.fHodoHits}
InRange(t) == t + setup.fTdcOffset \in setup.tdcRange

\* A paddle is a hit when one of its ends has a TDC value in range and a pulse; a hit
\* with only one such end has no time at the target.
HitsAreGoodEnds ==
  seen > 0 /\ ~event.pedestal /\ setup.fADCMode = "dynamic" =>
    /\ HitPaddles = {p \in DOMAIN event.hits : \E s \in Ends :
                       /\ \E i \in DOMAIN event.hits[p][s].tdc : InRange(event.hits[p][s].tdc[i])
                       /\ event.hits[p][s].adc.pulses # <<>>}
    /\ \A i \in DOMAIN det.event.fHodoHits :
         LET h == det.event.fHodoHits[i]
         IN  (\E s \in Ends : ~Good(h.ends[s])) <=> h.times.tof["pos"] = kBig

\* The time of an end is its first TDC value in range, and its pulse the largest of those
\* near it in time, if there are any, and else the one closest to it; a failed one stands
\* for a pulse of the usual amplitude.
EndsAreChosen ==
  seen > 0 /\ ~event.pedestal /\ setup.fADCMode = "dynamic" =>
    \A i \in DOMAIN det.event.fHodoHits : \A s \in Ends :
      LET h == det.event.fHodoHits[i]
          tdc == event.hits[h.paddle][s].tdc
          ch == event.hits[h.paddle][s].adc
          used == h.ends[s].used
          diff(n) == h.ends[s].tdc * setup.fScinTdcToTime - ch.pulses[n].time - setup.fAdcTdcOffset
          timed == {n \in DOMAIN ch.pulses : diff(n) \in setup.adcRange}
      IN  h.ends[s].btdcraw =>
            /\ \A n \in DOMAIN tdc :
                 InRange(tdc[n]) => \E m \in 1 .. n : h.ends[s].tdc = tdc[m] + setup.fTdcOffset
            /\ ch.pulses # <<>> =>
                 IF timed = {}
                 THEN \A n \in DOMAIN ch.pulses : Magnitude(diff(used)) <= Magnitude(diff(n))
                 ELSE used \in timed /\ \A n \in timed : Amp(ch.pulses[n], ch) <= h.ends[s].amp

\* The time of a hit with two good ends does not depend on its place in the paddle, in
\* the older way either: there the two ends together are corrected for the whole length.
TimesAreMeans ==
  \A i \in DOMAIN det.event.fHodoHits :
    LET h == det.event.fHodoHits[i]
        raw(s) == WalkCorrected(h.ends[s], Walk(h.ends[s].amp), s)
        length == setup.fPosLeft - setup.fPosRight
        path(s) == raw(s) - h.times.corr[s]
    IN  h.times.both =>
          /\ setup.fTofUsingInvAdc =>
               /\ \A s \in Ends : path(s) \in 0 .. length \div setup.fInvAdcLinear
               /\ path("pos") + path("neg") = length \div setup.fInvAdcLinear
          /\ 2 * h.times.scin = IF setup.fTofUsingInvAdc
                                THEN raw("pos") + raw("neg") - length \div setup.fInvAdcLinear
                                ELSE raw("pos") + raw("neg")
          /\ \A s \in Ends : h.times.tof[s] = AtTarget(h.times.corr[s], h.paddle)
=============================================================================
