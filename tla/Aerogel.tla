------------------------------- MODULE Aerogel -------------------------------
(***************************************************************************)
(* THcAerogel: tubes on two sides of an aerogel box.  Of the pulses of a   *)
(* tube the last near the time of the hodoscope is taken; the sums of the  *)
(* photoelectrons are over all such pulses.  Data of the 6 GeV era has     *)
(* pedestal events, and one value of the ADC and some of a TDC for a tube. *)
(***************************************************************************)
EXTENDS PulseList, FiniteSetsExt

CONSTANTS
  AeroTubes,      \* 1 .. fNelem
  AeroRegions,
  AeroSetups,     \* the parameters, as they may be set, and the bound MaxEvents on the events
  AeroEvents(_),  \* the events for a setup
  PedSlack,       \* 100
  FullScale,      \* 8000
  NoisyNpe        \* what a tube beyond full scale is given, 100 photoelectrons

VARIABLES setup, seen, event, det, pc

vars == <<setup, seen, event, det, pc>>

Sides == {"pos", "neg"}
Each(value) == [s \in Sides |-> [t \in AeroTubes |-> value]]
Both(value) == [s \in Sides |-> value]

NoEvent == [pedestal |-> FALSE, hits |-> <<>>, start |-> 0, track |-> [good |-> FALSE, regions |-> {}]]

SumOf(f) == MapThenSumSet(LAMBDA t : f[t], DOMAIN f)

InitializePedestals ==
  [ped |-> Each(NewPedestal(setup.fPedLimit)), fPed |-> Each(Mean(NewPedestal(0))),
   fPedMean |-> Each([sum |-> 0, n |-> 1]), fAnalyzePedestals |-> FALSE]

\* what Clear leaves of an event
Cleared ==
  [pulses |-> Both(<<>>), fGood |-> Each(0), mult |-> Each(0), fNpe |-> Each(0),
   fNpeSum |-> Both(0), fTotNumGoodAdcHits |-> Both(0), matched |-> {}, fired |-> {},
   \* of the 6 GeV era
   fA |-> Each(0), fA_p |-> Each(0), fT |-> Each(0), fNpeSixGev |-> Each(0),
   fNpeSumSixGev |-> Both(0), total |-> 0, fNADCHits |-> Both(0), fNTDCHits |-> Both(0),
   ADCHits |-> Both(<<>>), TDCHits |-> Both(<<>>)]

Clear(d) == [event |-> Cleared, pedestals |-> d.pedestals]

NewDetector == [event |-> Cleared, pedestals |-> InitializePedestals]

---------------------------------------------------------------------------
(* Pedestals of the 6 GeV era *)

\* GetPulseInt of the first pulse, or of none
Adc(ch) == (IF ch.pulses = <<>> THEN 0 ELSE ch.pulses[1].int) - ch.ped

AccumulatePedestals(d, e) ==
  [d EXCEPT !.pedestals.ped =
     [s \in Sides |-> [t \in AeroTubes |->
        IF t \in DOMAIN e.hits
        THEN AddToPedestal(@[s][t], Adc(e.hits[t][s]), setup.fMinPeds, PedSlack) ELSE @[s][t]]]]

CalculatePedestals(d) ==
  [d EXCEPT
     !.pedestals.fPed = [s \in Sides |-> [t \in AeroTubes |-> Mean(d.pedestals.ped[s][t])]],
     !.pedestals.fPedMean = [s \in Sides |-> [t \in AeroTubes |->
        IF setup.fMinPeds > 0 /\ d.pedestals.ped[s][t].count > setup.fMinPeds
        THEN Mean(d.pedestals.ped[s][t]) ELSE @[s][t]]]]

AnalyzePedestals(d) ==
  IF d.pedestals.fAnalyzePedestals
  THEN [CalculatePedestals(d) EXCEPT !.pedestals.fAnalyzePedestals = FALSE] ELSE d

PedestalEvent(d, e) ==
  [AccumulatePedestals(d, e) EXCEPT !.pedestals.fAnalyzePedestals = TRUE]

---------------------------------------------------------------------------
(* Decode *)

\* the times of the negative side are not shifted
PosPulses(e) ==
  FlattenSeq([t \in AeroTubes |->
    IF t \in DOMAIN e.hits
    THEN ListOf(e.hits[t].pos, t, setup.fAdcTdcOffset, setup.fPedDefault, setup.fUseSampWaveform)
    ELSE <<>>])

NegPulses(e) ==
  FlattenSeq([t \in AeroTubes |->
    IF t \in DOMAIN e.hits
    THEN ListOf(e.hits[t].neg, t, 0, setup.fPedDefault, setup.fUseSampWaveform)
    ELSE <<>>])

DecodeEvent(d, e) ==
  IF setup.fSixGevData /\ e.pedestal THEN PedestalEvent(Clear(d), e)
  ELSE LET ready == IF setup.fSixGevData THEN AnalyzePedestals(Clear(d)) ELSE Clear(d)
       IN  [ready EXCEPT !.event.pulses =
              [s \in Sides |-> IF s = "pos" THEN PosPulses(e) ELSE NegPulses(e)]]

---------------------------------------------------------------------------
(* CoarseProcess *)

InWindow(p, e) ==
  /\ e.start - p.time > setup.fAdcTimeWindowMin
  /\ e.start - p.time < setup.fAdcTimeWindowMax

\* one turn of the loop over the pulses of a side
TakePulse(x, s, i, e) ==
  LET p == x.pulses[s][i]
      counted == [x EXCEPT !.mult[s][p.counter] = @ + 1]
  IN  IF InWindow(p, e)
      THEN [counted EXCEPT !.fGood[s][p.counter] = i,
                           !.fNpe[s][p.counter] = setup.fGain * p.int,
                           !.fNpeSum[s] = @ + setup.fGain * p.int,
                           !.fTotNumGoodAdcHits[s] = @ + 1]
      ELSE counted

TakePulses(x, s, e) ==
  FoldLeft(LAMBDA y, i : TakePulse(y, s, i, e), x, [i \in DOMAIN x.pulses[s] |-> i])

TakePos(x, e) == TakePulses(x, "pos", e)
TakeNeg(x, e) == TakePulses(x, "neg", e)

\* the first TDC value that is not negative
FirstTime(tdc) ==
  LET times == SelectSeq(tdc, LAMBDA time : time >= 0)
  IN  IF times = <<>> THEN -1 ELSE times[1]

\* A list of the hits is begun anew with every tube, and so is that of the last tube with a hit.
OnlyHit(list, t, is) == IF is THEN <<t>> ELSE list

NpeSixGev(adc, net) == IF adc < FullScale THEN setup.fGain * net ELSE NoisyNpe

Count(is) == IF is THEN 1 ELSE 0

\* one side of a tube in the loop over the hits of the 6 GeV era
SixGevSide(x, s, t, ch, tdc, mean) ==
  LET adc == Adc(ch)
      net == adc - mean.sum \div mean.n
      npe == NpeSixGev(adc, net)
      time == FirstTime(tdc)
  IN  [x EXCEPT !.fA[s][t] = adc, !.fA_p[s][t] = net, !.fT[s][t] = time,
                !.fNpeSixGev[s][t] = npe, !.fNpeSumSixGev[s] = @ + npe,
                !.fNADCHits[s] = @ + Count(x.fNpe[s][t] > 0) + Count(npe > 0),
                !.fNTDCHits[s] = @ + Count(time > 0 /\ time < FullScale),
                !.ADCHits[s] = OnlyHit(@, t, adc > 0),
                !.TDCHits[s] = OnlyHit(@, t, tdc # <<>>)]

SixGevHit(x, t, hit, means) ==
  LET both == SixGevSide(SixGevSide(x, "pos", t, hit.pos, hit.tpos, means["pos"][t]),
                         "neg", t, hit.neg, hit.tneg, means["neg"][t])
      sum == both.fNpeSumSixGev
  IN  [both EXCEPT !.total = IF sum["pos"] > 0 \/ sum["neg"] > 0 THEN sum["pos"] + sum["neg"] ELSE 0]

SixGev(x, e, means) ==
  IF ~setup.fSixGevData THEN x
  ELSE FoldLeft(LAMBDA y, t : SixGevHit(y, t, e.hits[t], means), x,
                SetToSortSeq(DOMAIN e.hits, <))

Coarse(d, e) ==
  [d EXCEPT !.event = SixGev(TakeNeg(TakePos(@, e), e), e, d.pedestals.fPedMean)]

fNpeSum(x) == x.fNpeSum["pos"] + x.fNpeSum["neg"]

Fine(d, e) ==
  LET regions == IF e.track.good THEN e.track.regions ELSE {}
  IN  [d EXCEPT !.event.matched = regions,
                !.event.fired = IF fNpeSum(d.event) > setup.fNpeThresh THEN regions ELSE {}]

---------------------------------------------------------------------------

Init ==
  /\ setup \in AeroSetups
  /\ seen = 0 /\ event = NoEvent /\ det = NewDetector /\ pc = "done"

Decode ==
  /\ pc = "done" /\ seen < setup.MaxEvents
  /\ event' \in AeroEvents(setup)
  /\ seen' = seen + 1
  /\ det' = DecodeEvent(det, event')
  /\ pc' = "decoded"
  /\ UNCHANGED setup

CoarseProcess ==
  /\ pc = "decoded"
  /\ det' = Coarse(det, event)
  /\ pc' = "coarse"
  /\ UNCHANGED <<setup, seen, event>>

FineProcess ==
  /\ pc = "coarse"
  /\ det' = Fine(det, event)
  /\ pc' = "done"
  /\ UNCHANGED <<setup, seen, event>>

Next == Decode \/ CoarseProcess \/ FineProcess

Spec == Init /\ [][Next]_vars

---------------------------------------------------------------------------
(* Properties.                                                             *)

TypeInvariant ==
  /\ seen \in 0 .. setup.MaxEvents /\ pc \in {"decoded", "coarse", "done"}
  /\ \A s \in Sides :
       /\ det.event.fGood[s] \in [AeroTubes -> 0 .. Len(det.event.pulses[s])]
       /\ det.event.fNpe[s] \in [AeroTubes -> Int] /\ det.event.fNpeSum[s] \in Int
       /\ det.event.fT[s] \in [AeroTubes -> Nat \union {-1}]
       /\ Len(det.event.TDCHits[s]) <= 1
  /\ det.event.fired \subseteq det.event.matched /\ det.event.matched \subseteq AeroRegions

Analyzed == pc = "done" /\ seen > 0

\* What an event gives depends on the event and the pedestals only.
NothingStale ==
  Analyzed =>
    LET new == [NewDetector EXCEPT !.pedestals = det.pedestals]
        \* a detector with the same pedestals that takes the event as its first
        same == Fine(Coarse(IF setup.fSixGevData /\ event.pedestal THEN new
                            ELSE DecodeEvent(new, event), event), event)
    IN  same.event = det.event

\* After every other event the pedestals are of all pedestal events so far.
PedestalsAreCurrent ==
  Analyzed /\ setup.fSixGevData /\ ~event.pedestal =>
    \A s \in Sides, t \in AeroTubes : det.pedestals.fPed[s][t] = Mean(det.pedestals.ped[s][t])

Timed(s, t) ==
  {i \in DOMAIN det.event.pulses[s] :
     /\ det.event.pulses[s][i].counter = t
     /\ InWindow(det.event.pulses[s][i], event)}

\* The good pulse of a tube is the last near the time of the hodoscope; the sum of a
\* side is over all of these, and they are counted (CoarseProcess).  A 6 GeV side has
\* photoelectrons from exactly the tubes that were hit.
PulsesAreChosen ==
  Analyzed =>
    \A s \in Sides :
      /\ \A t \in AeroTubes : det.event.fGood[s][t] = Max({0} \union Timed(s, t))
      /\ det.event.fTotNumGoodAdcHits[s] = Cardinality(UNION {Timed(s, t) : t \in AeroTubes})
      /\ det.event.fNpeSum[s] =
           MapThenSumSet(LAMBDA i : setup.fGain * det.event.pulses[s][i].int,
                         UNION {Timed(s, t) : t \in AeroTubes})
      /\ setup.fSixGevData =>
           /\ det.event.fNpeSumSixGev[s] = SumOf(det.event.fNpeSixGev[s])
           /\ \A t \in AeroTubes : det.event.fA[s][t] >= FullScale => det.event.fNpeSixGev[s][t] = NoisyNpe
=============================================================================
