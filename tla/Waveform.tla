------------------------------ MODULE Waveform ------------------------------
(***************************************************************************)
(* THcRawAdcHit::SetSampIntTimePedestalPeak: pulses in the samples of a    *)
(* channel of a flash ADC.  A pulse begins where NSAT samples in a row are *)
(* above the threshold; the samples from NSB before that place to NSA      *)
(* after it are its integral; the search goes on behind them, from a       *)
(* sample below the threshold.                                             *)
(*                                                                         *)
(* Samples are counted from 0.  A sample net of the pedestal is taken NPED *)
(* times, and so is the threshold: the pedestal is a sum of NPED samples.  *)
(***************************************************************************)
EXTENDS Integers, Sequences, FiniteSetsExt

CONSTANTS
  NPED,          \* fNPedestalSamples, which the detectors set to 4
  fMaxNPulses,
  SubSamples,    \* 64, the units of time in a sample
  WaveSetups,    \* NSA, NSB, NSAT and threshold, as they may be set
  Waveforms      \* the samples a channel may have, NPED or more

VARIABLES
  setup,
  event,   \* fSample
  det,     \* the hit: fSampPed, the pulses found, fPeakPedestalRatio times NPED; NS and
           \* CheckSampBelowThres of the loop
  pc

vars == <<setup, event, det, pc>>

fNSamples == Len(event)
Least(a, b) == IF a <= b THEN a ELSE b
Greatest(a, b) == IF a >= b THEN a ELSE b

GetSampleRaw(i) == event[i + 1]

GetIntegral(low, high) == MapThenSumSet(GetSampleRaw, low .. high)

\* GetSample, for a pedestal
Net(i, ped) == NPED * GetSampleRaw(i) - ped

---------------------------------------------------------------------------
(* One pulse, whose first sample above the threshold is tc.                *)

WindowLow(tc) == Greatest(tc - setup.NSB, 0)

WindowHigh(tc) == Least(tc + setup.NSA - 1, fNSamples - 1)

\* The sample before the first one in the window that is smaller than the one
\* before it; 0 when there is none.
PeakBin(tc, ped) ==
  LET falls == {i \in tc + 1 .. WindowHigh(tc) : Net(i, ped) < Net(i - 1, ped)}
  IN  IF falls = {} THEN 0 ELSE Min(falls) - 1

\* The last place before the peak where half of the peak is crossed, in SubSamples.
PulseTime(tc, peak, ped) ==
  LET half == Net(peak, ped)   \* doubled, as are the samples below
      crossings == {i \in WindowLow(tc) .. Least(peak, fNSamples - 1) - 1 :
                      half >= 2 * Net(i, ped) /\ half < 2 * Net(i + 1, ped)}
      at == Max(crossings)
  IN  IF crossings = {} THEN SubSamples * tc
      ELSE SubSamples * at + (SubSamples * (half - 2 * Net(at, ped)))
                                \div (2 * (Net(at + 1, ped) - Net(at, ped)))

Pulse(tc, ped) ==
  LET peak == PeakBin(tc, ped)
  IN  [tc |-> tc,
       int |-> GetIntegral(WindowLow(tc), WindowHigh(tc)),
       amp |-> GetSampleRaw(IF peak > 0 THEN peak ELSE tc),
       time |-> IF peak > 0 THEN PulseTime(tc, peak, ped) ELSE SubSamples * tc]

\* the length of the window: fNPeakSamples
NPeakSamples(tc) == WindowHigh(tc) - WindowLow(tc) + 1

---------------------------------------------------------------------------

Init ==
  /\ setup \in WaveSetups
  /\ event \in Waveforms
  /\ det = [fSampPed |-> 0, pulses |-> <<>>, ratio |-> setup.NSA + setup.NSB,
            NS |-> NPED - 1, below |-> FALSE]
  /\ pc = "begin"

Begin ==
  LET head == GetIntegral(0, NPED - 1)
      tail == GetIntegral(fNSamples - NPED, fNSamples - 1)
  IN  /\ pc = "begin" /\ setup.threshold # 0
      /\ det' = [det EXCEPT !.fSampPed = Least(head, tail), !.below = tail < head]
      /\ pc' = "search"
      /\ UNCHANGED <<setup, event>>

\* Without a threshold the first samples are taken as one pulse, for its pedestal.
TakePedestal ==
  LET tc == NPED - 1
  IN  /\ pc = "begin" /\ setup.threshold = 0
      /\ det' = [det EXCEPT
                   !.fSampPed = GetIntegral(0, NPED - 1), !.ratio = NPeakSamples(tc),
                   !.pulses = <<[tc |-> tc, int |-> GetIntegral(WindowLow(tc), WindowHigh(tc)),
                                 amp |-> GetSampleRaw(tc), time |-> SubSamples * tc]>>]
      /\ pc' = "done"
      /\ UNCHANGED <<setup, event>>

Searching == pc = "search" /\ det.NS < fNSamples /\ Len(det.pulses) < fMaxNPulses

\* the sample under the threshold that the next pulse needs before it
AwaitBelow ==
  /\ Searching /\ det.below
  /\ det' = [det EXCEPT !.NS = @ + 1, !.below = Net(det.NS, det.fSampPed) >= setup.threshold]
  /\ UNCHANGED <<setup, event, pc>>

\* Mutant: one sample above the threshold is enough.
IsCrossing_AtOnce(ns, ped) == Net(ns, ped) > setup.threshold

\* NSAT samples from ns on are above the threshold, and there are so many
IsCrossing(ns, ped) ==
  /\ ns + setup.NSAT <= fNSamples
  /\ \A i \in ns .. ns + setup.NSAT - 1 : Net(i, ped) > setup.threshold

NoPulse ==
  /\ Searching /\ ~det.below /\ ~IsCrossing(det.NS, det.fSampPed)
  /\ det' = [det EXCEPT !.NS = @ + 1]
  /\ UNCHANGED <<setup, event, pc>>

FindPulse ==
  /\ Searching /\ ~det.below /\ IsCrossing(det.NS, det.fSampPed)
  /\ det' = [det EXCEPT !.pulses = Append(@, Pulse(det.NS, det.fSampPed)),
                        !.ratio = NPeakSamples(det.NS),
                        !.NS = @ + setup.NSA + 1, !.below = TRUE]
  /\ UNCHANGED <<setup, event, pc>>

End ==
  /\ pc = "search" /\ ~Searching
  /\ pc' = "done"
  /\ UNCHANGED <<setup, event, det>>

Next == Begin \/ TakePedestal \/ AwaitBelow \/ NoPulse \/ FindPulse \/ End

Spec == Init /\ [][Next]_vars

\* GetSampPulseInt of a pulse, NPED times: all pulses share the ratio
GetSampPulseInt(p) == NPED * p.int - det.fSampPed * det.ratio

---------------------------------------------------------------------------
(* Properties.                                                             *)

TypeInvariant ==
  /\ det.NS \in Nat /\ det.below \in BOOLEAN
  /\ det.fSampPed \in Int /\ det.ratio \in Nat /\ Len(det.pulses) <= fMaxNPulses
  /\ \A i \in DOMAIN det.pulses :
       det.pulses[i] \in [tc : 0 .. fNSamples - 1, int : Int, amp : Int, time : Nat]
  /\ pc \in {"begin", "search", "done"}

Window(p) == WindowLow(p.tc) .. WindowHigh(p.tc)
Below(i) == Net(i, det.fSampPed) < setup.threshold

\* where the search for the pulse after the first k begins
SearchFrom(k) == IF k = 0 THEN NPED - 1 ELSE det.pulses[k].tc + setup.NSA + 1
MustFall(k) == k > 0 \/ GetIntegral(0, NPED - 1) > det.fSampPed

\* the places where the pulse after the first k may begin
Places(k) ==
  {i \in SearchFrom(k) .. fNSamples - 1 :
     /\ \A j \in i .. i + setup.NSAT - 1 : j < fNSamples /\ Net(j, det.fSampPed) > setup.threshold
     /\ MustFall(k) => \E j \in SearchFrom(k) .. i - 1 : Below(j)}

\* Every pulse is at the first place behind the pulse before it where the samples
\* rise above the threshold, and none such place is left, unless there is no
\* room for it.  The times of the pulses are in order, and pulses whose windows
\* begin at most two samples early share no sample (SetSampIntTimePedestalPeak).
PulsesAreCrossings ==
  pc = "done" /\ setup.threshold # 0 =>
    LET n == Len(det.pulses)
    IN  /\ \A k \in 1 .. n : det.pulses[k].tc \in Places(k - 1) /\ det.pulses[k].tc <= Min(Places(k - 1))
        /\ n < fMaxNPulses => Places(n) = {}
        /\ \A k \in 2 .. n :
             /\ det.pulses[k - 1].time < det.pulses[k].time
             /\ setup.NSB <= 2 => Window(det.pulses[k - 1]) \intersect Window(det.pulses[k]) = {}

\* The integral of every pulse is net of the pedestal of its own window, although
\* all use the ratio of the last; unless the last window was cut at the end of
\* the samples or the first at their beginning (fPeakPedestalRatio).
IntegralsAreNet ==
  pc = "done" =>
    \A i \in DOMAIN det.pulses :
      (\A k \in DOMAIN det.pulses : NPeakSamples(det.pulses[k].tc) = setup.NSA + setup.NSB) =>
        GetSampPulseInt(det.pulses[i])
          = MapThenSumSet(LAMBDA j : Net(j, det.fSampPed), Window(det.pulses[i]))
=============================================================================
