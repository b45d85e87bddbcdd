------------------------------ MODULE PulseList ------------------------------
(***************************************************************************)
(* What the detectors with flash ADCs have in common: the list of the      *)
(* pulses of an event, and the pedestals.                                  *)
(*                                                                         *)
(* A channel has the pulses its module reported, each with a raw amplitude *)
(* (zero when the module failed), a raw integral and a time, a pedestal,   *)
(* and, when it has a waveform, the pulses found in it.                    *)
(***************************************************************************)
EXTENDS Integers, SequencesExt

\* the flag of a pulse: 0 good, 1 failed, 2 failed but there is a waveform,
\* 3 from the waveform
Flag(p, ch) == IF p.amp > 0 THEN 0 ELSE IF ch.waveform THEN 2 ELSE 1

\* A reported pulse, net of the pedestal; a failed one has no amplitude and, if the
\* counter has a default pedestal, an integral net of that.
Reported(p, ch, counter, offset, default) ==
  [counter |-> counter, flag |-> Flag(p, ch), time |-> p.time + offset,
   amp |-> IF p.amp > 0 THEN p.amp - ch.ped ELSE 0, raw |-> p.int, ped |-> ch.ped,
   int |-> p.int - (IF p.amp <= 0 /\ default # 0 THEN default ELSE ch.ped)]

\* a pulse of a waveform, which is good when only those are asked for
Sampled(p, ch, counter, offset, useWaveform) ==
  [counter |-> counter, flag |-> IF useWaveform THEN 0 ELSE 3, time |-> p.time + offset,
   amp |-> p.amp - ch.ped, raw |-> p.int, ped |-> ch.ped, int |-> p.int - ch.ped]

\* The pulses of a channel that go to the list: those of the waveform when only
\* those are asked for, or when the module reported none.
ListOf(ch, counter, offset, default, useWaveform) ==
  LET reported == IF useWaveform THEN <<>> ELSE ch.pulses
      sampled == IF ch.waveform /\ (useWaveform \/ ch.pulses = <<>>) THEN ch.found ELSE <<>>
  IN  [i \in DOMAIN reported |-> Reported(reported[i], ch, counter, offset, default)]
      \o [i \in DOMAIN sampled |-> Sampled(sampled[i], ch, counter, offset, useWaveform)]

---------------------------------------------------------------------------
(* Pedestals: a value up to the limit counts; after a fifth of the values  *)
(* that are asked for the limit becomes slack above their mean.            *)

\* the value of a channel in a pedestal event
RawData(ch) == IF ch.pulses = <<>> THEN 0 ELSE ch.pulses[1].int

NewPedestal(limit) == [sum |-> 0, count |-> 0, limit |-> limit]

AddToPedestal(p, value, minPeds, slack) ==
  IF value > p.limit THEN p
  ELSE [sum |-> p.sum + value, count |-> p.count + 1,
        limit |-> IF p.count + 1 = minPeds \div 5
                  THEN slack + (p.sum + value) \div (p.count + 1) ELSE p.limit]

\* a pedestal, as a sum and the number it is to be divided by
Mean(p) == [sum |-> p.sum, n |-> IF p.count = 0 THEN 1 ELSE p.count]
=============================================================================
