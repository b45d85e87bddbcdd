--------------------------- MODULE HelicityScaler ---------------------------
(***************************************************************************)
(* THcHelicityScaler: the scaler reads of the helicity windows.  Unlike    *)
(* the events there is one read for each window; it carries the reported   *)
(* helicity bit and a quartet bit.  The handler finds the quartets from    *)
(* the quartet bit, shifts one bit per quartet into its seed, and once the *)
(* seed is full gives each read the helicity nine windows after the one    *)
(* reported in it.  From the reads of a quartet, all four taken with beam, *)
(* it adds up the charge and time asymmetries.                             *)
(*                                                                         *)
(* win, phase0, beam, lost and final describe the accelerator and the      *)
(* DAQ; hs holds the members of THcHelicityScaler.  A quantity measured in *)
(* a read (counts, charge, time) is represented by the number of the read. *)
(***************************************************************************)
EXTENDS HelicityRing

CONSTANTS
  HistorySize,  \* the size of fHelicityHistory
  BankReads,    \* reads the DAQ puts in one bank at most
  Disorder,     \* reads that may follow the delayed event in the file
  HScalerSetups \* how the runs considered are set up

\* A setup: the configured offset, and what the reads of the run may be.
SetupType ==
  [Offset : -3 .. 3,    \* fHelicityCycleOffset
   LastWindow : Nat,    \* bound: the window of the last read in a physics event
   SteadyUntil : Nat,   \* bound: every read before this window is taken with beam
   MaxLost : Nat,       \* bound: reads lost
   LastLoss : Nat]      \* bound: no read is lost from this window on

ASSUME HScalerAssumption ==
  /\ HistorySize \in Nat /\ BankReads \in 1 .. HistorySize
  /\ Disorder \in 0 .. 8   \* as far as RanBits reaches
  /\ HScalerSetups \subseteq SetupType

VARIABLES
  setup,    \* how the run is set up; never changes
  win,      \* the window of the last read
  phase0,   \* the quartet phase reported in window 0
  beam,     \* the ring whose newest bit signs the quartet reported in win
  lost,     \* reads lost so far
  final,    \* the read of the delayed event, once it was seen
  finished, \* whether End was called
  hs

hscalerVars == <<setup, win, phase0, beam, lost, final, finished, hs>>

LastWindow == setup.LastWindow

\* up to three turns of RanBit30: no read looks further ahead
RanBits(n, seed) ==
  CASE n = 0 -> seed
    [] n = 1 -> RanBit30(seed)
    [] n = 2 -> RanBit30(RanBit30(seed))
    [] n = 3 -> RanBit30(RanBit30(RanBit30(seed)))

Sign(bit) == IF bit = 1 THEN 1 ELSE -1
InQuartet(phase, start) == IF phase \in {0, 3} THEN start ELSE -start

\* What a read was taken with: beam above the current threshold, no beam, or a
\* clock channel that did not count (fDeltaTime is zero, and so the current).
Conditions == {"beam", "none", "dead"}

---------------------------------------------------------------------------
(* The accelerator and the DAQ.                                            *)

PhaseAt(w) == (w + phase0) % 4
QuartetsOn(w) == (PhaseAt(win) + (w - win)) \div 4
RingAt(w) == RanBits(QuartetsOn(w), beam)

\* The read of window w >= win.  The quartet bit is up in the window of the
\* quartet that the offset is configured for.
ReadOf(w, cond) ==
  [ispos |-> InQuartet(PhaseAt(w), Sign(RingAt(w)[1])) = 1,
   isquartet |-> PhaseAt(w) = hs.fHelicityCycleOffset % 4,
   cond |-> cond]

\* The helicity in window w: it is reported nine windows later.
TrueHelicityAt(w) == InQuartet(PhaseAt(w + 9), Sign(RingAt(w + 9)[1]))

---------------------------------------------------------------------------
(* AnalyzeHelicityScaler, in its stages.                                   *)

\* The remainder as the source's % gives it, negative for a negative number.
Rem4(n) == IF n >= 0 THEN n % 4 ELSE -((-n) % 4)

\* The quartet bit was expected and is not there: all is found anew.
Restart(d) ==
  [d EXCEPT !.fNBits = 0, !.fFirstCycle = -100,
            !.fRingSeed_reported = ZeroSeed, !.fRingSeed_actual = ZeroSeed]

ShiftIn(d, r) ==
  [d EXCEPT !.fRingSeed_reported = PushBit(@, IF r.ispos THEN 1 ELSE 0),
            !.fNBits = @ + 1]

Quarteted(d) == d.fFirstCycle >= -10

\* The phase of the read, and the bit at the first window of a quartet.  The
\* quartet bit is checked for two of the offsets only; a prediction that fails
\* is only printed.
TrackPhase(d, r) ==
  LET phase == Rem4(d.fNTriggers - d.fFirstCycle)
      c == [d EXCEPT !.quartetphase = phase]
      shifted == ShiftIn(c, r)
  IN  IF Quarteted(d)
      THEN IF phase = 0
           THEN IF ~r.isquartet /\ d.fHelicityCycleOffset = 0
                THEN Restart(shifted) ELSE shifted
           ELSE IF phase = 3 /\ d.fHelicityCycleOffset = 3 /\ ~r.isquartet
           THEN Restart(c) ELSE c
      ELSE IF r.isquartet
      THEN LET first == d.fNTriggers - d.fHelicityCycleOffset
           IN  [shifted EXCEPT !.fFirstCycle = first,
                               !.quartetphase = Rem4(d.fNTriggers - first)]
      ELSE c

\* Mutant: the delay is eight windows.
AssignHelicity_Delay8(d) ==
  IF d.fNBits < MAXBIT
  THEN [d EXCEPT !.actualHelicity = 0, !.fRingSeed_actual = ZeroSeed]
  ELSE LET actual == RanBits(2, d.fRingSeed_reported)
       IN  [d EXCEPT !.fRingSeed_actual = actual,
                     !.actualHelicity = InQuartet(d.quartetphase, Sign(actual[1]))]

\* With the seed full: nine windows on (DELAY9), two quartets and one window.
AssignHelicity(d) ==
  IF d.fNBits < MAXBIT
  THEN [d EXCEPT !.actualHelicity = 0, !.fRingSeed_actual = ZeroSeed]
  ELSE LET actual == RanBits(IF d.quartetphase = 3 THEN 3 ELSE 2, d.fRingSeed_reported)
           phase == (d.quartetphase + 1) % 4
       IN  [d EXCEPT !.fRingSeed_actual = actual, !.quartetphase = phase,
                     !.actualHelicity = InQuartet(phase, Sign(actual[1]))]

CountTrigger(d) ==
  CASE d.actualHelicity = 1  -> [d EXCEPT !.fNTriggersPlus = @ + 1]
    [] d.actualHelicity = -1 -> [d EXCEPT !.fNTriggersMinus = @ + 1]
    [] OTHER -> d

\* The charge of the read, kept from the last one when the clock did not count.
MeasureCharge(d, r) ==
  [d EXCEPT !.fBCM_delta_charge = IF r.cond = "dead" THEN @ ELSE d.fNTriggers]

\* Mutant: a read without beam does not break the quartet.
AddToQuartet_AnyPredecessor(d, r) ==
  IF d.actualHelicity = 0 THEN d
  ELSE LET q == d.quartetphase
           have == IF q = 0 THEN [i \in 0 .. 3 |-> FALSE] ELSE d.fHaveCycle
           taken == r.cond = "beam"
           e == IF taken
                THEN [d EXCEPT !.fHaveCycle = [have EXCEPT ![q] = TRUE],
                               !.fChargeCycle[q] = d.fBCM_delta_charge,
                               !.fTimeCycle[q] = d.fNTriggers]
                ELSE [d EXCEPT !.fHaveCycle = have]
       IN  IF q = 3 /\ e.fHaveCycle[3] THEN [e EXCEPT !.fQuartetCount = @ + 1] ELSE e

\* A read joins the quartet when it has beam and the read before it joined;
\* with the fourth the quartet counts.
AddToQuartet(d, r) ==
  IF d.actualHelicity = 0 THEN d
  ELSE LET q == d.quartetphase
           have == IF q = 0 THEN [i \in 0 .. 3 |-> FALSE] ELSE d.fHaveCycle
           taken == r.cond = "beam" /\ (q = 0 \/ have[q - 1])
           e == IF taken
                THEN [d EXCEPT !.fHaveCycle = [have EXCEPT ![q] = TRUE],
                               !.fChargeCycle[q] = d.fBCM_delta_charge,
                               !.fTimeCycle[q] = d.fNTriggers]
                ELSE [d EXCEPT !.fHaveCycle = have]
       IN  IF q = 3 /\ e.fHaveCycle[3] THEN [e EXCEPT !.fQuartetCount = @ + 1] ELSE e

AnalyzeHelicityScaler(d, r) ==
  LET counted == [d EXCEPT !.fNTrigsInBuf = @ + 1, !.fNTriggers = @ + 1]
      helicity == CountTrigger(AssignHelicity(TrackPhase(counted, r)))
  IN  AddToQuartet(MeasureCharge(helicity, r), r)

---------------------------------------------------------------------------
(* Analyze and End.                                                        *)

NewScaler(offset) ==
  [fHelicityCycleOffset |-> offset,
   fNTriggers |-> 0, fNTrigsInBuf |-> 0, fFirstCycle |-> -100,
   fRingSeed_reported |-> ZeroSeed, fRingSeed_actual |-> ZeroSeed, fNBits |-> 0,
   fNTriggersPlus |-> 0, fNTriggersMinus |-> 0,
   fHaveCycle |-> [i \in 0 .. 3 |-> FALSE],
   fChargeCycle |-> [i \in 0 .. 3 |-> 0], fTimeCycle |-> [i \in 0 .. 3 |-> 0],
   fQuartetCount |-> 0, fBCM_delta_charge |-> 0,
   actualHelicity |-> 0, quartetphase |-> 0]

HScalerInit ==
  /\ setup \in HScalerSetups
  /\ win = 0 /\ lost = 0 /\ final = {} /\ finished = FALSE
  /\ phase0 \in 0 .. 3
  /\ beam \in Seeds \ {ZeroSeed}
  /\ hs = NewScaler(setup.Offset)

MoveTo(w) ==
  /\ win' = w
  /\ beam' = RingAt(w)

\* The next read of a bank.  The first of a bank starts the history anew.
AnalyzeRead(newBank, cond) ==
  /\ ~finished /\ win < LastWindow
  /\ ~newBank => hs.fNTrigsInBuf \in 1 .. BankReads - 1
  /\ win + 1 < setup.SteadyUntil => cond = "beam"
  /\ MoveTo(win + 1)
  /\ hs' = LET start == IF newBank THEN [hs EXCEPT !.fNTrigsInBuf = 0] ELSE hs
           IN  AnalyzeHelicityScaler(start, ReadOf(win + 1, cond))
  /\ UNCHANGED <<setup, phase0, lost, final, finished>>

\* A window whose read never reached the file.
LoseRead ==
  /\ ~finished /\ win < LastWindow
  /\ win + 1 < setup.LastLoss /\ lost < setup.MaxLost
  /\ MoveTo(win + 1)
  /\ lost' = lost + 1
  /\ UNCHANGED <<setup, phase0, final, finished, hs>>

\* The event with the final read, which may stand in the file before the last
\* physics events: its data is copied.
SaveFinalRead(cond) ==
  /\ ~finished /\ final = {} /\ win + Disorder >= LastWindow
  /\ final' = {ReadOf(LastWindow + 1, cond)}
  /\ UNCHANGED <<setup, win, phase0, beam, lost, finished, hs>>

EndReads ==
  /\ ~finished /\ win = LastWindow
  /\ finished' = TRUE
  /\ IF final = {} THEN UNCHANGED <<win, beam, hs>>
     ELSE /\ MoveTo(win + 1)
          /\ hs' = LET r == CHOOSE r \in final : TRUE
                   IN  AnalyzeHelicityScaler([hs EXCEPT !.fNTrigsInBuf = 0], r)
  /\ UNCHANGED <<setup, phase0, lost, final>>

HScalerNext ==
  \/ \E newBank \in BOOLEAN, cond \in Conditions : AnalyzeRead(newBank, cond)
  \/ LoseRead
  \/ \E cond \in Conditions : SaveFinalRead(cond)
  \/ EndReads

HScalerSpec == HScalerInit /\ [][HScalerNext]_hscalerVars

---------------------------------------------------------------------------
(* Properties.                                                             *)

ScalerState ==
  [fHelicityCycleOffset : -3 .. 3,
   fNTriggers : Nat, fNTrigsInBuf : 0 .. HistorySize, fFirstCycle : Int,
   fRingSeed_reported : Seeds, fRingSeed_actual : Seeds, fNBits : Nat,
   fNTriggersPlus : Nat, fNTriggersMinus : Nat,
   fHaveCycle : [0 .. 3 -> BOOLEAN],
   fChargeCycle : [0 .. 3 -> Nat], fTimeCycle : [0 .. 3 -> Nat],
   fQuartetCount : Nat, fBCM_delta_charge : Nat,
   actualHelicity : {-1, 0, 1}, quartetphase : -3 .. 3]

\* The types.  Beyond them: the history never overruns its array, and a read
\* that has a helicity has a phase that is a proper index of the quartet.
HScalerTypeInvariant ==
  /\ setup \in SetupType
  /\ win \in Nat /\ phase0 \in 0 .. 3 /\ beam \in Seeds /\ lost \in Nat
  /\ finished \in BOOLEAN
  /\ hs \in ScalerState
  /\ hs.actualHelicity # 0 => hs.quartetphase \in 0 .. 3

\* While no read is lost, a read is given the helicity its window had, or none
\* (AnalyzeHelicityScaler with DELAY9), the final read included that End analyses.
ReadsAreTrue ==
  lost = 0 /\ hs.fNTriggers > 0 => hs.actualHelicity \in {0, TrueHelicityAt(win)}

\* What THcHelicity is told to be a good seed (IsSeedGood) is the ring, for an offset
\* whose quartet bit is read in an outer window.
SeedIsTrue ==
  lost = 0 /\ setup.Offset % 4 \in {0, 3} /\ hs.fNBits >= MAXBIT => hs.fRingSeed_reported = beam

\* For the offsets whose quartet bit is checked: once all the bits of the seed are from
\* after the last loss, the loss was noticed at the next quartet bit and the seed filled
\* anew, or it was of whole quartets and nobody noticed: the helicities are right again.
RightAgain ==
  setup.Offset \in {0, 3} /\ win >= setup.LastLoss + 4 * (MAXBIT + 2) =>
    hs.actualHelicity = TrueHelicityAt(win)

\* The helicity a read is given, before a loss and after one.
HelicityIsTrue == ReadsAreTrue /\ SeedIsTrue /\ RightAgain

WholeQuartet ==
  hs'.fQuartetCount # hs.fQuartetCount =>
    \A i \in 0 .. 3 : /\ hs'.fTimeCycle[i] = hs'.fNTriggers - 3 + i
                      /\ hs'.fChargeCycle[i] = hs'.fTimeCycle[i]

\* Each quartet that enters the asymmetries is made of four reads in a row, and
\* of their own charges: what fHaveCycle is there for. A lost read breaks it
\* (README, finding 1).
QuartetIsWhole == [][WholeQuartet]_hscalerVars

\* The same of a run that loses no read.
QuartetIsWholeUnlessLost == [][lost = 0 => WholeQuartet]_hscalerVars
===========================================================================
