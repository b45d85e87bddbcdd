----------------------------- MODULE ShowerArray -----------------------------
(***************************************************************************)
(* THcShowerArray: the array of blocks behind the layers, with a phototube *)
(* each.  The threshold of a block is that of the last pulse its module    *)
(* reported; a pulse that comes from a waveform does not change it.        *)
(***************************************************************************)
EXTENDS PulseList

CONSTANTS
  Blocks,     \* the blocks, 1 .. fNelem, column after column
  PedSlack,   \* 100
  Margin      \* from a pedestal to the threshold, 10 .. 50 by its spread

VARIABLE setup

Zero == [b \in Blocks |-> 0]

NewArray ==
  [pulses |-> <<>>,
   good |-> Zero,    \* fGoodAdcPulseInt
   fE |-> Zero, fEarray |-> 0, sums |-> [b \in Blocks |-> NewPedestal(setup.fPedLimit)],
   fPed |-> [b \in Blocks |-> setup.stray], fThresh |-> [b \in Blocks |-> setup.stray]]

\* fEarray is not cleared here but in ProcessHits
Clear(ar) == [ar EXCEPT !.pulses = <<>>, !.good = Zero, !.fE = Zero]

AccumulatePedestals(ar, hits) ==
  [ar EXCEPT !.sums = [b \in Blocks |->
     IF b \in DOMAIN hits
     THEN AddToPedestal(@[b], RawData(hits[b]), setup.fMinPeds, PedSlack) ELSE @[b]]]

PedValue(p) == Mean(p).sum \div Mean(p).n

CalculatePedestals(ar) ==
  LET value == [b \in Blocks |-> PedValue(ar.sums[b])]
  IN  [ar EXCEPT !.fPed = value, !.fThresh = [b \in Blocks |-> value[b] + Margin]]

PulsesOf(hits) ==
  FlattenSeq([i \in 1 .. Cardinality(DOMAIN hits) |->
    LET b == SetToSortSeq(DOMAIN hits, <)[i]
    IN  ListOf(hits[b], b, setup.fAdcTdcOffset, setup.fPedDefault, setup.fUseSampWaveform)])

ProcessHits(ar, hits) ==
  [ar EXCEPT !.pulses = PulsesOf(hits), !.fEarray = 0,
             !.fThresh = [b \in Blocks |->
                IF b \in DOMAIN hits /\ ~setup.fUseSampWaveform /\ hits[b].pulses # <<>>
                THEN hits[b].ped + setup.fAdcThreshold ELSE @[b]]]

AdcTdcDiffTime(p, start) == start - p.time

InWindow(p, start) ==
  /\ AdcTdcDiffTime(p, start) > setup.fAdcTimeWindowMin
  /\ AdcTdcDiffTime(p, start) < setup.fAdcTimeWindowMax

FillADC_DynamicPedestal(ar, start) ==
  FoldLeft(LAMBDA a, p :
             IF InWindow(p, start) /\ p.raw > a.fThresh[p.counter] /\ a.good[p.counter] = 0
             THEN LET energy == setup.fGain * p.int
                  IN  [a EXCEPT !.good[p.counter] = p.int, !.fE[p.counter] = energy,
                                !.fEarray = @ + energy]
             ELSE a,
           ar, ar.pulses)

\* the other modes do nothing for the array
CoarseProcessHits(ar, start) ==
  IF setup.fADCMode = "dynamic" THEN FillADC_DynamicPedestal(ar, start) ELSE ar

---------------------------------------------------------------------------
(* Properties, of an array that has processed the hits of an event.        *)

\* A block has the first pulse with an integral that is in the time window and above
\* the threshold of the block (FillADC_DynamicPedestal).
PulsesAreChosen(ar, start) ==
  setup.fADCMode = "dynamic" =>
    \A b \in Blocks :
      LET fits(p) == p.counter = b /\ InWindow(p, start) /\ p.raw > ar.fThresh[b] /\ p.int # 0
          fitting == {i \in DOMAIN ar.pulses : fits(ar.pulses[i])}
          first == {i \in fitting : \A j \in fitting : i <= j}
      IN  /\ \A i \in first : ar.good[b] = ar.pulses[i].int
          /\ first = {} => ar.good[b] = 0
          /\ ar.fE[b] = setup.fGain * ar.good[b]

\* The pedestals are of all pedestal events so far; a block whose module reported a
\* pulse in this event has the threshold of that one.
PedestalsAreCurrent(ar, hits) ==
  \A b \in Blocks :
    /\ ar.fPed[b] = PedValue(ar.sums[b])
    /\ b \in DOMAIN hits /\ ~setup.fUseSampWaveform /\ hits[b].pulses # <<>> =>
         ar.fThresh[b] = hits[b].ped + setup.fAdcThreshold
=============================================================================
