-------------------------- MODULE HelicityDecoder --------------------------
(***************************************************************************)
(* THcHelicity: the decoder of the delayed beam helicity.  The accelerator *)
(* reverses the helicity once per window; windows come in quartets whose   *)
(* pattern is + - - + or - + + -, the first sign drawn from the bit ring.  *)
(* The DAQ sees the sign that was in force HelDelay windows ago, an MPS    *)
(* flag at the start of each window and, from some run on, a QRT flag in   *)
(* the first window of a quartet.  The decoder sees events only, any       *)
(* number of them (or none) in a window, and has to find the quartets,     *)
(* collect MAXBIT bits of the ring, and from then on run the ring forward  *)
(* to the sign that is in force now.                                       *)
(*                                                                         *)
(* win, tick, beam, phase0 and faults describe the accelerator and the     *)
(* DAQ; dec holds the members of THcHelicity.  Times are whole ticks of    *)
(* the TI clock, and the period the decoder is configured with is the true *)
(* one (fPeriodCheck, fCycle and fRecommendedFreq, which only advise the   *)
(* operator on the frequency, are left out).                               *)
(***************************************************************************)
EXTENDS HelicityRing

CONSTANTS
  MaxQRTProblems,  \* the problems tolerated before QRT phase is given up
  MinScalerBits,   \* bits collected before the scaler's seed is asked for
  Period,          \* fTIPeriod, in ticks of the TI clock
  MPSTicks,        \* the ticks at the start of a window with MPS set
  EventTicks,      \* the ticks of a window at which events are recorded
  Setups           \* how the experiment may be set up, one per run

\* A setup: the delay the decoder is configured with, what the DAQ records and
\* what may happen in the run, and the bounds of the run.
SetupType ==
  [HelDelay : Nat,           \* fHelDelay, the delay of the report in windows
   HaveQRTSignal : BOOLEAN,  \* whether the DAQ records the QRT flag
   EventsMissed : BOOLEAN,   \* whether Decode may not be called for an event
   ScalerLags : SUBSET Nat,  \* quartets a good scaler seed may trail; {}: none
   MaxGap : Nat,             \* bound: windows from one event to the next
   MaxWindow : Nat,          \* bound: windows of a run
   MaxFaults : Nat,          \* bound: events with a wrong flag or no report
   LastFault : Nat]          \* bound: the last window with such an event

ASSUME DecoderAssumption ==
  /\ MaxQRTProblems \in Nat /\ MinScalerBits \in Nat
  /\ Period \in Nat \ {0}
  /\ MPSTicks \in 1 .. Period - 1
  /\ EventTicks \subseteq 0 .. Period - 1
  /\ Setups \subseteq SetupType

VARIABLES
  setup,    \* how the experiment is set up; never changes
  win,      \* the window of the last event
  tick,     \* its tick in the window
  phase0,   \* the quartet phase of window 0
  beam,     \* the ring whose newest bit signs the quartet reported in win
  faults,   \* faulty events so far
  dec       \* the decoder

vars == <<setup, win, tick, phase0, beam, faults, dec>>

HelDelay == setup.HelDelay
HaveQRTSignal == setup.HaveQRTSignal

kPlus == 1
kMinus == -1
kUnknown == 0
Helicity == {kMinus, kUnknown, kPlus}

Sign(bit) == IF bit = 1 THEN kPlus ELSE kMinus

\* The sign of the window at a phase of a quartet whose first sign is start.
InQuartet(phase, start) == IF phase \in {0, 3} THEN start ELSE -start

---------------------------------------------------------------------------
(* The decoder's stages.  Each maps the decoder before to the one after.   *)

PhaseOf(d) == (d.fNCycle - d.fFirstCycle) % 4
QuartetOf(d) == (d.fNCycle - d.fFirstCycle) \div 4
Calibrated(d) == d.fNBits >= MAXBIT

\* Mutant: the sign of the quartet is given to each of its windows.
FromRings_NoPattern(d) ==
  LET start == Sign(d.fRingSeed_actual[1])
  IN  [d EXCEPT !.fQuartetStartHelicity = start, !.fActualHelicity = start]

\* The helicities of the current window, from the rings.
FromRings(d) ==
  LET start == Sign(d.fRingSeed_actual[1])
      startPred == Sign(d.fRingSeed_reported[1])
  IN  [d EXCEPT !.fQuartetStartHelicity = start,
                !.fQuartetStartPredictedHelicity = startPred,
                !.fActualHelicity = InQuartet(PhaseOf(d), start),
                !.fPredictedHelicity = InQuartet(PhaseOf(d), startPred)]

\* Mutant: only the ring of the report moves on.
AdvanceRings_ReportedOnly(d, n) == [d EXCEPT !.fRingSeed_reported = Advance[n][@]]

AdvanceRings(d, n) ==
  [d EXCEPT !.fRingSeed_reported = Advance[n][@],
            !.fRingSeed_actual = Advance[n][@]]

\* Whole windows since the last MPS; zero when none ended.
PeriodsMissed(d, e) ==
  LET elapsed == e.time - d.fLastMPSTime
  IN  IF elapsed > Period THEN elapsed \div Period ELSE 0

\* Mutant: the window of this event is counted among the missed ones.
SkipMissed_OneTooMany(d, e, missed) ==
  IF missed <= 1 THEN d
  ELSE LET caught == [d EXCEPT !.fNCycle = @ + missed]
       IN  IF ~Calibrated(d) THEN [caught EXCEPT !.fActualHelicity = kUnknown]
           ELSE FromRings(AdvanceRings(caught, QuartetOf(caught) - QuartetOf(d)))

\* Mutant: the reports of the missed windows are not made up.
SkipMissed_StaleReports(d, e, missed) ==
  IF missed <= 1 THEN d
  ELSE LET caught == [d EXCEPT !.fNCycle = @ + missed - 1]
       IN  IF ~Calibrated(d) THEN [caught EXCEPT !.fActualHelicity = kUnknown]
           ELSE FromRings(AdvanceRings(caught, QuartetOf(caught) - QuartetOf(d)))

\* Windows went by without an event: the cycle count and the rings catch up
\* to the window before this one, and the last four reports are made up so
\* that the quartet test does not fail on the hole.
SkipMissed(d, e, missed) ==
  IF missed <= 1 THEN d
  ELSE LET caught == [d EXCEPT !.fNCycle = @ + missed - 1]
           quartets_missed == QuartetOf(caught) - QuartetOf(d)
           rep == e.reported
       IN  IF ~Calibrated(d)
           THEN [caught EXCEPT !.fActualHelicity = kUnknown,
                               !.fQuartet[0] = rep, !.fQuartet[1] = 0]
           ELSE [FromRings(AdvanceRings(caught, quartets_missed)) EXCEPT
                   !.fQuartet[0] = IF PhaseOf(caught) \in {1, 3} THEN rep ELSE -rep,
                   !.fQuartet[1] = -rep,
                   !.fQuartet[2] = IF PhaseOf(caught) \in {1, 3} THEN -rep ELSE rep]

\* A window of which no event was seen yet: count it and shift in its report.
CountCycle(d, e) ==
  [d EXCEPT !.fNCycle = @ + 1,
            !.fQuartet = [i \in 0 .. 3 |-> IF i = 0 THEN e.reported ELSE @[i - 1]]]

CountQuartet(d) == [d EXCEPT !.fNLastQuartet = d.fNQuartet, !.fNQuartet = QuartetOf(d)]

\* Mutant: the flag is taken for the last window of a quartet.
LockOnQRT_LastOfQuartet(d) ==
  [d EXCEPT !.fHaveQRT = TRUE, !.fFoundQuartet = TRUE,
            !.fFirstCycle = d.fNCycle + 1, !.fNQuartet = 0, !.fNLastQuartet = -1,
            !.fNBits = 0, !.fNQRTProblems = 0]

LockOnQRT(d) ==
  [d EXCEPT !.fHaveQRT = TRUE, !.fFoundQuartet = TRUE,
            !.fFirstCycle = d.fNCycle, !.fNQuartet = 0, !.fNLastQuartet = -1,
            !.fNBits = 0, !.fNQRTProblems = 0]

\* Mutant: every flag out of phase is believed.
TrackQRT_Believing(d) ==
  LET c == CountQuartet(d)
  IN  IF c.fHaveQRT /\ PhaseOf(c) = 0 THEN [c EXCEPT !.fNQRTProblems = 0]
      ELSE LockOnQRT(c)

\* Mutant: the problems are counted but the phase is never given up.
TrackQRT_Stuck(d) ==
  LET c == CountQuartet(d)
  IN  IF ~d.fHaveQRT THEN LockOnQRT(c)
      ELSE [c EXCEPT !.fNQRTProblems = 0]

\* The QRT flag is up.  Out of phase it is ignored until there were too many.
TrackQRT(d) ==
  LET c == CountQuartet(d)
  IN  IF ~d.fHaveQRT THEN LockOnQRT(c)
      ELSE IF PhaseOf(c) = 0 THEN [c EXCEPT !.fNQRTProblems = 0]
      ELSE IF c.fNQRTProblems + 1 > MaxQRTProblems THEN LockOnQRT(c)
      ELSE [c EXCEPT !.fNQRTProblems = @ + 1]

\* The QRT flag is down in a run that has one.
TrackWithoutQRT(d) ==
  LET c == CountQuartet(d)
  IN  IF PhaseOf(c) # 0 THEN c
      ELSE IF c.fNQRTProblems + 1 > MaxQRTProblems
      THEN [c EXCEPT !.fNQRTProblems = @ + 1, !.fHaveQRT = FALSE, !.fNBits = 0,
                     !.fNLastQuartet = c.fNQuartet]
      ELSE [c EXCEPT !.fNQRTProblems = @ + 1]

\* Mutant: the two inner windows are not compared.
QuartetTest_OuterOnly(d) == d.fQuartet[0] = d.fQuartet[3]

QuartetTest(d) ==
  d.fQuartet[0] + d.fQuartet[3] - d.fQuartet[1] - d.fQuartet[2] \in {4, -4}

\* No QRT flag was seen yet: the last four reports tell whether the guess of
\* the first cycle can be right, and the guess moves on by one when not.
SearchQuartet(d) ==
  IF PhaseOf(d) # 3 THEN CountQuartet(d)
  ELSE IF QuartetTest(d)
  THEN IF d.fFoundQuartet THEN d
       ELSE [d EXCEPT !.fNQuartet = QuartetOf(d), !.fNLastQuartet = QuartetOf(d) - 1,
                      !.fFoundQuartet = TRUE]
  ELSE LET base == IF d.fNCycle - d.fFirstCycle > 4
                   THEN d.fFirstCycle + 4 * QuartetOf(d) ELSE d.fFirstCycle
       IN  [d EXCEPT !.fFirstCycle = base + 1, !.fFoundQuartet = FALSE, !.fNBits = 0]

TrackQuartet(d, e) ==
  IF e.qrt THEN TrackQRT(d)
  ELSE IF d.fHaveQRT THEN TrackWithoutQRT(d)
  ELSE SearchQuartet(d)

\* The ring is known: the actual one runs ahead of it by the delay.
AdoptSeed(d, seed) ==
  LET actual == Advance[HelDelay \div 4][seed]
  IN  [d EXCEPT !.fRingSeed_reported = seed, !.fRingSeed_actual = actual,
                !.fQuartetStartHelicity = Sign(actual[1]),
                !.fQuartetStartPredictedHelicity = Sign(seed[1]),
                !.fNBits = MAXBIT]

\* One bit of the seed per quartet; scal is the scaler's good seed, if any.
CollectBit(d, e, scal) ==
  LET old == IF d.fNBits = 0 THEN ZeroSeed ELSE d.fRingSeed_reported
      bit == IF InQuartet(PhaseOf(d), e.reported) = kPlus THEN 1 ELSE 0
      seed == PushBit(old, bit)
      nbits == d.fNBits + 1
  IN  IF e.reported = kUnknown
      THEN [d EXCEPT !.fNBits = 0, !.fRingSeed_reported = ZeroSeed]
      ELSE IF nbits = MAXBIT THEN AdoptSeed(d, seed)
      ELSE IF nbits > MinScalerBits /\ scal # {}
      THEN AdoptSeed(d, RanBit30(CHOOSE s \in scal : TRUE))
      ELSE [d EXCEPT !.fNBits = nbits, !.fRingSeed_reported = seed]

\* The rings move on at the first window of a quartet, where the prediction
\* is compared with the report: a mismatch starts the calibration over.
Predict(d, e) ==
  IF PhaseOf(d) # 0
  THEN [d EXCEPT
         !.fActualHelicity = InQuartet(PhaseOf(d), d.fQuartetStartHelicity),
         !.fPredictedHelicity = InQuartet(PhaseOf(d), d.fQuartetStartPredictedHelicity)]
  ELSE LET r == FromRings(AdvanceRings(d, 1))
       IN  IF r.fPredictedHelicity = e.reported THEN r
           ELSE [r EXCEPT !.fNBits = 0,
                          !.fActualHelicity = kUnknown, !.fPredictedHelicity = kUnknown,
                          !.fQuartetStartHelicity = kUnknown,
                          !.fQuartetStartPredictedHelicity = kUnknown]

\* Mutant: a step to the next quartet counts as a missed quartet.
LoadHelicity_ResetEachQuartet(d, e, scal) ==
  LET q == [d EXCEPT !.fnQrt = PhaseOf(d)]
  IN  IF ~Calibrated(q) /\ q.fNQuartet - q.fNLastQuartet >= 1
      THEN [q EXCEPT !.fNBits = 0]
      ELSE IF q.fFoundQuartet /\ Calibrated(q) THEN Predict(q, e) ELSE q

LoadHelicity(d, e, scal) ==
  LET q == [d EXCEPT !.fnQrt = PhaseOf(d)]
  IN  IF ~Calibrated(q) /\ q.fNQuartet - q.fNLastQuartet > 1
      THEN [q EXCEPT !.fNBits = 0]
      ELSE IF ~q.fFoundQuartet THEN q
      ELSE IF Calibrated(q) THEN Predict(q, e)
      ELSE IF q.fNQuartet = q.fNLastQuartet THEN q
      ELSE CollectBit(q, e, scal)

\* The first event of a window: count, track the quartet, load the helicity.
NewCycle(d, e, scal, missed) ==
  LET counted == CountCycle(SkipMissed(d, e, missed), e)
      tracked == TrackQuartet(counted, e)
  IN  [LoadHelicity([tracked EXCEPT !.fActualHelicity = kUnknown], e, scal) EXCEPT
         !.fLastMPSTime = @ + missed * Period, !.fIsNewCycle = FALSE]

---------------------------------------------------------------------------
(* The accelerator and the DAQ.                                            *)

TruePhase == (win + phase0) % 4
ReportedHelicity == InQuartet(TruePhase, Sign(beam[1]))

\* The sign in force now is the one that will be reported HelDelay windows on.
TrueHelicity ==
  InQuartet((TruePhase + HelDelay) % 4,
            Sign(Advance[(TruePhase + HelDelay) \div 4][beam][1]))

Faults == {"none", "qrt", "report"}

\* The next event: g windows on, at tick tk.  A faulty one has its QRT flag
\* the wrong way round or both report lines alike.
Arrival(g, tk, fault) ==
  /\ g = 0 => tk >= tick
  /\ win + g <= setup.MaxWindow
  /\ fault # "none" => faults < setup.MaxFaults /\ win + g <= setup.LastFault
  /\ win' = win + g
  /\ tick' = tk
  /\ beam' = Advance[(TruePhase + g) \div 4][beam]
  /\ faults' = IF fault = "none" THEN faults ELSE faults + 1
  /\ UNCHANGED <<setup, phase0>>

Event(fault) ==
  [time |-> win * Period + tick,
   mps |-> tick < MPSTicks,
   qrt |-> (HaveQRTSignal /\ TruePhase = 0) # (fault = "qrt"),
   reported |-> IF fault = "report" THEN kUnknown ELSE ReportedHelicity]

\* What the helicity scaler may offer: nothing, or its seed, some quartets
\* behind the one being reported.
ScalerOffers == {{}} \cup {{Retreat[lag][beam]} : lag \in setup.ScalerLags}

---------------------------------------------------------------------------
(* THcHelicity::Decode, one action per way through it.                     *)

Init ==
  /\ setup \in Setups
  /\ win = 0 /\ tick = 0 /\ faults = 0
  /\ phase0 \in 0 .. 3
  /\ beam \in Seeds \ {ZeroSeed}
  /\ dec = [fFirstEvProcessed |-> FALSE, fDisabled |-> FALSE,
            fFoundMPS |-> FALSE, fLastMPSTime |-> 0, fIsNewCycle |-> FALSE,
            fNCycle |-> 0, fFirstCycle |-> -1, fNQuartet |-> 0, fNLastQuartet |-> -1,
            fQuartet |-> [i \in 0 .. 3 |-> 0], fnQrt |-> -1,
            fFoundQuartet |-> FALSE, fHaveQRT |-> FALSE, fNQRTProblems |-> 0,
            fNBits |-> 0, fRingSeed_reported |-> ZeroSeed, fRingSeed_actual |-> ZeroSeed,
            fQuartetStartHelicity |-> kUnknown,
            fQuartetStartPredictedHelicity |-> kUnknown,
            fActualHelicity |-> kUnknown, fPredictedHelicity |-> kUnknown]

\* In-time mode: the report is the helicity, but for the MPS.
DecodeInTime(e) ==
  /\ HelDelay = 0
  /\ dec' = [dec EXCEPT !.fActualHelicity = IF e.mps THEN kUnknown ELSE e.reported]

\* Decode was not called for some event since the last one (a cut in front of
\* it rejected events): the cycle count is lost, and decoding with it.
DecodeMissedEvents(skipped) ==
  /\ HelDelay # 0 /\ ~dec.fDisabled
  /\ skipped /\ dec.fFirstEvProcessed
  /\ dec' = [dec EXCEPT !.fDisabled = TRUE, !.fActualHelicity = kUnknown]

DecodeDisabled ==
  /\ HelDelay # 0 /\ dec.fDisabled
  /\ dec' = [dec EXCEPT !.fActualHelicity = kUnknown]

DecodeFirst(e) ==
  /\ HelDelay # 0 /\ ~dec.fFirstEvProcessed /\ ~dec.fDisabled
  /\ dec' = [dec EXCEPT !.fFirstEvProcessed = TRUE, !.fLastMPSTime = e.time,
                        !.fActualHelicity = kUnknown, !.fPredictedHelicity = kUnknown,
                        !.fNCycle = 0, !.fFoundMPS = FALSE, !.fFoundQuartet = FALSE,
                        !.fIsNewCycle = FALSE, !.fNBits = 0]

Running(skipped) ==
  HelDelay # 0 /\ dec.fFirstEvProcessed /\ ~dec.fDisabled /\ ~skipped

\* TMath::Nint of a ratio of times: to nearest, a half to the even one.
Nint(num, den) ==
  LET q == num \div den
      r == num % den
  IN  IF 2 * r > den \/ (2 * r = den /\ q % 2 = 1) THEN q + 1 ELSE q

DecodeMPS(e, skipped) ==
  LET missed == Nint(e.time - dec.fLastMPSTime, Period)
      blank == [dec EXCEPT !.fActualHelicity = kUnknown, !.fPredictedHelicity = kUnknown]
  IN  /\ Running(skipped) /\ e.mps
      /\ dec' = IF ~dec.fFoundMPS
                THEN [blank EXCEPT !.fFoundMPS = TRUE, !.fLastMPSTime = e.time]
                ELSE IF missed < 1
                THEN [blank EXCEPT !.fIsNewCycle = TRUE,
                        !.fLastMPSTime = (e.time + @ + missed * Period) \div 2]
                ELSE [blank EXCEPT !.fLastMPSTime = (@ + e.time - missed * Period) \div 2]

DecodeBeforeMPS(e, skipped) ==
  /\ Running(skipped) /\ ~e.mps /\ ~dec.fFoundMPS
  /\ dec' = [dec EXCEPT !.fActualHelicity = kUnknown]

\* Mutant: the rings are used before they are complete.
DecodeSameCycle_Premature(e, skipped) ==
  /\ Running(skipped) /\ ~e.mps /\ dec.fFoundMPS
  /\ PeriodsMissed(dec, e) = 0 /\ ~dec.fIsNewCycle
  /\ dec' = FromRings(dec)

\* A further event of a window already counted.
DecodeSameCycle(e, skipped) ==
  /\ Running(skipped) /\ ~e.mps /\ dec.fFoundMPS
  /\ PeriodsMissed(dec, e) = 0 /\ ~dec.fIsNewCycle
  /\ dec' = IF Calibrated(dec) THEN FromRings(dec)
            ELSE [dec EXCEPT !.fActualHelicity = kUnknown]

DecodeNewCycle(e, skipped, scal) ==
  LET missed == PeriodsMissed(dec, e)
      seen == IF missed = 0 /\ Calibrated(dec) THEN FromRings(dec) ELSE dec
  IN  /\ Running(skipped) /\ ~e.mps /\ dec.fFoundMPS
      /\ missed > 0 \/ dec.fIsNewCycle
      /\ dec' = NewCycle(seen, e, scal, missed)

Decode(e, skipped, scal) ==
  \/ DecodeInTime(e)
  \/ DecodeMissedEvents(skipped)
  \/ DecodeDisabled
  \/ DecodeFirst(e)
  \/ DecodeMPS(e, skipped)
  \/ DecodeBeforeMPS(e, skipped)
  \/ DecodeSameCycle(e, skipped)
  \/ DecodeNewCycle(e, skipped, scal)

Next ==
  \E g \in 0 .. setup.MaxGap, tk \in EventTicks, fault \in Faults,
     skipped \in {FALSE, setup.EventsMissed} :
    /\ Arrival(g, tk, fault)
    /\ \E scal \in ScalerOffers' : Decode(Event(fault)', skipped, scal)

Spec == Init /\ [][Next]_vars

\* A run at a healthy trigger rate: every window has events in its MPS and after
\* it, and Decode is called for each.
SteadyNext ==
  \E g \in 0 .. setup.MaxGap, tk \in EventTicks, fault \in Faults :
    /\ g <= 1
    /\ g = 1 => tick >= MPSTicks /\ tk < MPSTicks
    /\ Arrival(g, tk, fault)
    /\ \E scal \in ScalerOffers' : Decode(Event(fault)', FALSE, scal)

\* The event loop goes on to the end of the run.
SteadySpec == Init /\ [][SteadyNext]_vars /\ WF_vars(SteadyNext)

---------------------------------------------------------------------------
(* Where the decoder stands relative to the accelerator.                   *)

\* The window the decoder counted last, by its own clock.
WindowSeen == dec.fLastMPSTime \div Period
PhaseRight == PhaseOf(dec) = (WindowSeen + phase0) % 4

\* The accelerator's ring in that window.
BeamSeen == Retreat[(win + phase0) \div 4 - (WindowSeen + phase0) \div 4][beam]

\* The quartets are in phase and every bit collected or computed is right.
Right ==
  /\ dec.fFoundQuartet /\ (HaveQRTSignal => dec.fHaveQRT) /\ PhaseRight
  /\ \A i \in 1 .. dec.fNBits : dec.fRingSeed_reported[i] = BeamSeen[i]

\* Right, and no window of the last four is one the decoder had no event of
\* before it was calibrated (whose report it then has as zero).
Settled == Right /\ Calibrated(dec) /\ \A i \in 0 .. 3 : dec.fQuartet[i] # kUnknown

---------------------------------------------------------------------------
(* Properties.                                                             *)

DecoderState ==
  [fFirstEvProcessed : BOOLEAN, fDisabled : BOOLEAN,
   fFoundMPS : BOOLEAN, fLastMPSTime : Int, fIsNewCycle : BOOLEAN,
   fNCycle : Nat, fFirstCycle : Int, fNQuartet : Int, fNLastQuartet : Int,
   fQuartet : [0 .. 3 -> Helicity], fnQrt : Int,
   fFoundQuartet : BOOLEAN, fHaveQRT : BOOLEAN, fNQRTProblems : Nat,
   fNBits : 0 .. MAXBIT, fRingSeed_reported : Seeds, fRingSeed_actual : Seeds,
   fQuartetStartHelicity : Helicity, fQuartetStartPredictedHelicity : Helicity,
   fActualHelicity : Helicity, fPredictedHelicity : Helicity]

\* The types of the members.  Beyond them: the guess of the first cycle never
\* runs ahead of the cycle count (the source's % 4 would turn negative), and
\* the QRT phase is given up once there are too many problems.
TypeInvariant ==
  /\ setup \in SetupType
  /\ win \in Nat /\ tick \in 0 .. Period - 1 /\ phase0 \in 0 .. 3
  /\ beam \in Seeds /\ faults \in Nat
  /\ dec \in DecoderState
  /\ dec.fFirstCycle <= dec.fNCycle
  /\ dec.fHaveQRT => dec.fNQRTProblems <= MaxQRTProblems

\* The helicity given to an event is the sign of the beam at that event, or
\* unknown: THcHelicity::Decode with its rings HelDelay windows ahead.
TrueOrUnknown == dec.fActualHelicity \in {kUnknown, TrueHelicity}

\* The check at the end of Decode ("reported prematurely") never fires.
NoPrematureHelicity ==
  HelDelay # 0 /\ dec.fActualHelicity # kUnknown => Calibrated(dec)

\* The ring that predicts the report and the ring that gives the helicity never
\* slip against each other, whether they were built from bits, from the
\* scaler's seed, or run on over windows without events.
SeedsInStep ==
  Calibrated(dec) => dec.fRingSeed_actual = Advance[HelDelay \div 4][dec.fRingSeed_reported]

\* A decoder that has the phase and the bits right gives the right helicity, and
\* so does one in in-time mode, which needs neither; an event recorded while the
\* beam settles gets none, and neither does any event after one was kept from
\* Decode.
RightIsTrue ==
  /\ Right \/ HelDelay = 0 => TrueOrUnknown
  /\ tick < MPSTicks \/ dec.fDisabled => dec.fActualHelicity = kUnknown

\* In a run with the QRT flag, wrong flags up to the number that is tolerated,
\* unknown reports and windows without events never turn a right decoder into a
\* wrong one (an unknown report only costs it the bits).
RightIsKept == [][HaveQRTSignal /\ Right => Right']_vars

\* As long as the inputs are right, a calibrated decoder keeps phase and bits
\* over windows without events: without the QRT flag the quartet test of the
\* last four reports does not fail on those that SkipMissed makes up.
SettledIsKept == [][Settled /\ faults' = 0 => Settled']_vars

\* Without the QRT flag: the calibration can only be completed out of phase
\* when all the bits it collected were alike, as only then every quartet
\* test passes two windows off.
FalseLockNeedsEqualBits ==
  [][~HaveQRTSignal /\ ~Calibrated(dec) /\ Calibrated(dec)' /\ ~PhaseRight' =>
       \A i \in 1 .. MAXBIT : beam'[i] = beam'[1]]_vars

\* At a healthy rate, with the QRT flag and a delayed report, the calibration takes
\* a quartet per bit and one to start.
SteadyCalibration ==
  HelDelay # 0 /\ HaveQRTSignal /\ faults = 0 /\ win >= 4 * (MAXBIT + 1) =>
    Calibrated(dec)

\* Whatever a bounded number of faults, or a false lock, did to it, the decoder
\* ends up calibrated and right, and stays so.
EventuallyCalibrated == <>[](Calibrated(dec) /\ TrueOrUnknown)

\* What the decoder promises: the report is decoded without faults.
Oracle ==
  INSTANCE HelicityOracle WITH
    sign <- TrueHelicity, settling <- tick < MPSTicks,
    locked <- Calibrated(dec), answer <- dec.fActualHelicity
ImplementsOracle == Oracle!Spec
===========================================================================
