----------------------------- MODULE ShowerPlane -----------------------------
(***************************************************************************)
(* THcShowerPlane: a layer of the calorimeter, of blocks with a phototube  *)
(* on each side.  The pulses of a side go to a list, and from it the       *)
(* energies of the blocks.                                                 *)
(*                                                                         *)
(* The lists hold objects that outlive Clear: a pulse that comes from a    *)
(* waveform is compared with the threshold that is left at its place.      *)
(* Pedestals are whole numbers here.                                       *)
(***************************************************************************)
EXTENDS PulseList

CONSTANTS
  Rows,       \* the blocks of a layer
  PedSlack,   \* 100
  Margin      \* from a pedestal to the threshold, 10 .. 50 by its spread

VARIABLE setup

Sides == {"pos", "neg"}
Zero == [b \in Rows |-> 0]

\* fPosPed and fPosThresh have no values before there are pedestals
InitializePedestals ==
  [sums |-> [b \in Rows |-> NewPedestal(setup.fPedLimit)],
   fPed |-> [b \in Rows |-> setup.stray], fThresh |-> [b \in Rows |-> setup.stray]]

NewSide ==
  [pulses |-> <<>>, thresholds |-> <<>>,
   good |-> Zero,    \* fGoodPosAdcPulseInt
   fE |-> Zero, added |-> Zero, total |-> 0, peds |-> InitializePedestals]

NewPlane == [s \in Sides |-> NewSide]

\* what the blocks have from the two sides, and the layer
fEmean(pl, b) == pl["pos"].added[b] + pl["neg"].added[b]
fEplane(pl) == pl["pos"].total + pl["neg"].total
IsHit(pl, b) == \E s \in Sides : pl[s].good[b] > 0

\* fEplane is not cleared here but in ProcessHits
Clear(pl) ==
  [s \in Sides |-> [pl[s] EXCEPT !.pulses = <<>>, !.good = Zero, !.fE = Zero, !.added = Zero]]

---------------------------------------------------------------------------
(* Pedestals *)

AccumulatePedestals(pl, hits) ==
  [s \in Sides |-> [pl[s] EXCEPT !.peds.sums = [b \in Rows |->
     IF b \in DOMAIN hits
     THEN AddToPedestal(@[b], RawData(hits[b][s]), setup.fMinPeds, PedSlack) ELSE @[b]]]]

PedValue(p) == Mean(p).sum \div Mean(p).n

CalculatePedestals(pl) ==
  [s \in Sides |->
     LET value == [b \in Rows |-> PedValue(pl[s].peds.sums[b])]
     IN  [pl[s] EXCEPT !.peds.fPed = value,
                       !.peds.fThresh = [b \in Rows |-> value[b] + Margin]]]

---------------------------------------------------------------------------
(* The hits of an event *)

\* fAdcTdcOffset is left out of the times of pulses from waveforms of the negative side
TimeOffset(s, reported) == IF s = "pos" \/ reported THEN setup.fAdcTdcOffset ELSE 0

PulsesOf(hits, s) ==
  FlattenSeq([i \in 1 .. Cardinality(DOMAIN hits) |->
    LET b == SetToSortSeq(DOMAIN hits, <)[i]
        ch == hits[b][s]
        reported == ~setup.fUseSampWaveform /\ ch.pulses # <<>>
    IN  ListOf(ch, b, TimeOffset(s, reported), setup.fPedDefault, setup.fUseSampWaveform)])

\* the places whose threshold is set: those of the pulses the modules reported
Reports(pulses) ==
  IF setup.fUseSampWaveform THEN {} ELSE {i \in DOMAIN pulses : pulses[i].flag # 3}

ProcessHits(pl, hits) ==
  [s \in Sides |->
     LET pulses == PulsesOf(hits, s)
     IN  [pl[s] EXCEPT !.pulses = pulses, !.total = 0,
            !.thresholds = [i \in Reports(pulses) |-> pulses[i].ped + setup.fAdcThreshold] @@ @]]

---------------------------------------------------------------------------
(* The energies *)

Threshold(side, i) == IF i \in DOMAIN side.thresholds THEN side.thresholds[i] ELSE 0

AdcTdcDiffTime(p, start) == start - p.time

InWindow(p, start) ==
  /\ AdcTdcDiffTime(p, start) > setup.fAdcTimeWindowMin
  /\ AdcTdcDiffTime(p, start) < setup.fAdcTimeWindowMax

Deposit(side, b, int) ==
  LET energy == setup.fGain * int
  IN  [side EXCEPT !.good[b] = int, !.fE[b] = energy, !.added[b] = @ + energy, !.total = @ + energy]

FillADC_DynamicPedestal(side, start) ==
  FoldLeft(LAMBDA sd, i :
             LET p == sd.pulses[i]
             IN  IF InWindow(p, start) /\ p.raw > Threshold(sd, i) /\ sd.good[p.counter] = 0
                 THEN Deposit(sd, p.counter, p.int) ELSE sd,
           side, [i \in DOMAIN side.pulses |-> i])

FillADC_Standard(side) ==
  FoldLeft(LAMBDA sd, p :
             IF p.raw > sd.peds.fThresh[p.counter]
             THEN Deposit(sd, p.counter, p.raw - sd.peds.fPed[p.counter]) ELSE sd,
           side, side.pulses)

\* the modes kADCSampleIntegral and kADCSampIntDynPed do nothing
CoarseProcessHits(pl, start) ==
  CASE setup.fADCMode = "dynamic" -> [s \in Sides |-> FillADC_DynamicPedestal(pl[s], start)]
    [] setup.fADCMode = "standard" -> [s \in Sides |-> FillADC_Standard(pl[s])]
    [] OTHER -> pl

---------------------------------------------------------------------------
(* Properties, of a layer that has processed the hits of an event.         *)

\* The time of a pulse is that of a pulse the module reported or, when there is none or
\* only the waveforms are asked for, of one found there; all are shifted but those found
\* on the negative side (ProcessHits).
PulsesHaveTimes(pl, hits) ==
  \A s \in Sides : \A i \in DOMAIN pl[s].pulses :
    LET p == pl[s].pulses[i]
        ch == hits[p.counter][s]
        found == setup.fUseSampWaveform \/ ch.pulses = <<>>
        shift == IF s = "neg" /\ found THEN 0 ELSE setup.fAdcTdcOffset
    IN  \E q \in ToSet(IF found THEN ch.found ELSE ch.pulses) : p.raw = q.int /\ p.time = q.time + shift

\* A side of a block has the first pulse with an integral that is in the time window
\* and above its threshold, and its energy is of that pulse (FillADC_DynamicPedestal).
PulsesAreChosen(pl, hits, start) ==
  setup.fADCMode = "dynamic" =>
    /\ PulsesHaveTimes(pl, hits)
    /\ \A s \in Sides, b \in Rows :
         LET fits(i) == LET p == pl[s].pulses[i]
                        IN  p.counter = b /\ InWindow(p, start) /\ p.raw > Threshold(pl[s], i) /\ p.int # 0
             fitting == {i \in DOMAIN pl[s].pulses : fits(i)}
             first == {i \in fitting : \A j \in fitting : i <= j}
         IN  /\ \A i \in first : pl[s].good[b] = pl[s].pulses[i].int
             /\ first = {} => pl[s].good[b] = 0
             /\ pl[s].added[b] = setup.fGain * pl[s].good[b]

\* The pedestals and the thresholds are of all pedestal events so far.
PedestalsAreCurrent(pl) ==
  \A s \in Sides, b \in Rows :
    /\ pl[s].peds.fPed[b] = PedValue(pl[s].peds.sums[b])
    /\ pl[s].peds.fThresh[b] = pl[s].peds.fPed[b] + Margin
=============================================================================
