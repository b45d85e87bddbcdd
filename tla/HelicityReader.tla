--------------------------- MODULE HelicityReader ---------------------------
(***************************************************************************)
(* THcHelicityReader: the time and the helicity lines of an event.  Before *)
(* CODA 3 the TI module writes a time of a few bits (32) that rolls over,  *)
(* and sometimes none; the time of the flash ADC, which started at some    *)
(* other tick, then stands in.  The four helicity lines are read from ADC  *)
(* channels, as pulse pedestals (sums of PedSamples samples) or, when the  *)
(* run was taken with raw samples, as samples.                             *)
(*                                                                         *)
(* clock, daq and line describe the DAQ, lossless whether the ADC data of  *)
(* no event of the run was lost; rd holds the members of the reader.       *)
(***************************************************************************)
EXTENDS Integers

CONSTANTS
  Wrap,              \* ticks after which the word of a module rolls over
  AdcOffset,         \* ticks by which the ADC's time is ahead
  OffLevel, OnLevel, \* what a sample of a line reads
  PedSamples,        \* samples in a pulse pedestal
  DefaultThreshold,  \* DEFAULT_FADCTHRESHOLD
  UserThreshold,     \* helicity_adcthreshold, or the default
  UserRawSamples,    \* helicity_adcrawsamples
  AdcMayLose,        \* whether an event may lack the ADC's data
  FirstTimeMayMiss,  \* whether the first event may lack the TI time
  MaxGap,            \* bound: ticks between two events
  MaxClock,          \* bound: ticks of a run
  MaxRuns            \* bound: runs analysed one after the other

ASSUME ReaderAssumption ==
  /\ Wrap \in Nat \ {0} /\ AdcOffset \in Nat /\ PedSamples \in Nat \ {0}
  /\ OffLevel \in Nat \ {0} /\ OnLevel \in Nat /\ OffLevel < OnLevel
  /\ DefaultThreshold \in Nat /\ UserThreshold \in Nat
  /\ {UserRawSamples, AdcMayLose, FirstTimeMayMiss} \subseteq BOOLEAN
  /\ MaxGap \in Nat /\ MaxClock \in Nat /\ MaxRuns \in Nat

VARIABLES
  run,       \* number of the run
  clock,     \* the true time of the last event, 0 before the first
  daq,       \* what the ADC records in this run, and whether it is of CODA 3
  line,      \* the lines at the last event
  lossless,
  rd

vars == <<run, clock, daq, line, lossless, rd>>

Lines == {"help", "helm", "mps", "qrt"}
Daqs == [adc : {"pedestals", "samples"}, coda3 : BOOLEAN]

\* Help and Helm are never both up; both are down when the line is broken.
LineStates == {l \in [Lines -> BOOLEAN] : ~(l["help"] /\ l["helm"])}
AllDown == [x \in Lines |-> FALSE]

---------------------------------------------------------------------------
(* THcHelicityReader::ReadData, in its stages.                             *)

\* Mutant: the sum is wider than the words.
AdcTime_Wide(d) == ((clock' + AdcOffset) % Wrap) + d.fTTimeDiff

\* The ADC's time, brought to the TI's.  Both are words of the same width, and
\* so is their sum.
AdcTime(d) == (((clock' + AdcOffset) % Wrap) + d.fTTimeDiff) % Wrap

\* What the TI wrote; zero also when it wrote nothing.
TIWord(missing) ==
  IF missing THEN 0 ELSE IF daq.coda3 THEN clock' ELSE clock' % Wrap

\* On the first event with the module the difference of the clocks is fixed.
FindModule(d, missing) ==
  IF d.fFADCModule THEN d
  ELSE [d EXCEPT !.fFADCModule = TRUE,
                 !.fTTimeDiff = (TIWord(missing) - (clock' + AdcOffset)) % Wrap]

\* A time smaller than the last one means a rollover.
ReadTime(d, missing) ==
  LET titime == IF TIWord(missing) = 0 THEN AdcTime(d) ELSE TIWord(missing)
      over == IF titime < d.fTITime_last /\ ~daq.coda3
              THEN d.fTITime_rollovers + 1 ELSE d.fTITime_rollovers
  IN  [d EXCEPT !.fTITime_rollovers = over, !.fTITime_last = titime,
                !.fTITime = titime + over * Wrap]

Level(x) == IF line'[x] THEN OnLevel ELSE OffLevel

\* What the module returns for a line, asked for pedestals or for samples:
\* zero when the event has none of them.
RawValue(x, asked, lost) ==
  IF lost \/ asked # daq.adc THEN 0
  ELSE IF asked = "pedestals" THEN PedSamples * Level(x) ELSE Level(x)

\* Mutant: the threshold is not scaled down with the values.
SwitchMode_SameThreshold(d, lost) ==
  IF d.fADCRawSamples \/ \E x \in {"help", "helm"} : RawValue(x, "pedestals", lost) > 0
  THEN d ELSE [d EXCEPT !.fADCRawSamples = TRUE]

\* No pedestal for either helicity line: the run is taken for one with raw
\* samples, from here on, and a threshold that was not set is scaled down.
SwitchMode(d, lost) ==
  IF d.fADCRawSamples \/ \E x \in {"help", "helm"} : RawValue(x, "pedestals", lost) > 0
  THEN d
  ELSE [d EXCEPT !.fADCRawSamples = TRUE,
                 !.fADCThreshold = IF @ = DefaultThreshold THEN DefaultThreshold \div 4 ELSE @]

ReadLines(d, lost) ==
  LET asked == IF d.fADCRawSamples THEN "samples" ELSE "pedestals"
  IN  [d EXCEPT !.flags = [x \in Lines |-> RawValue(x, asked, lost) > d.fADCThreshold]]

---------------------------------------------------------------------------

\* Begin and ReadDatabase: what a run starts from.  The module, once found, and
\* the difference of the clocks are kept from the run before.
NewReader(found, diff) ==
  [fTITime |-> 0, fTITime_last |-> 0, fTITime_rollovers |-> 0,
   fFADCModule |-> found, fTTimeDiff |-> diff,
   fADCThreshold |-> UserThreshold, fADCRawSamples |-> UserRawSamples,
   flags |-> AllDown]

Init ==
  /\ run = 1 /\ clock = 0 /\ daq \in Daqs /\ line = AllDown /\ lossless = TRUE
  /\ rd = NewReader(FALSE, 0)

\* Mutant: Begin does not forget the rollovers.
BeginRun_KeepRollovers ==
  /\ run < MaxRuns /\ clock > 0
  /\ run' = run + 1 /\ clock' = 0 /\ daq' \in Daqs /\ line' = AllDown /\ lossless' = TRUE
  /\ rd' = [NewReader(rd.fFADCModule, rd.fTTimeDiff) EXCEPT
              !.fTITime_rollovers = rd.fTITime_rollovers]

\* The next run: the clocks of the modules are started again together.
BeginRun ==
  /\ run < MaxRuns /\ clock > 0
  /\ run' = run + 1 /\ clock' = 0 /\ daq' \in Daqs /\ line' = AllDown /\ lossless' = TRUE
  /\ rd' = NewReader(rd.fFADCModule, rd.fTTimeDiff)

\* An event, its TI time perhaps missing, the ADC's data perhaps lost (its
\* time is in another word and is there).
ReadData(missing, lost) ==
  /\ missing => ~daq.coda3 /\ (rd.fFADCModule \/ FirstTimeMayMiss)
  /\ lost => AdcMayLose
  /\ \E g \in 1 .. MaxGap :
       /\ clock + g <= MaxClock
       /\ clock = 0 => g < Wrap
       /\ clock' = clock + g
  /\ line' \in LineStates
  /\ lossless' = (lossless /\ ~lost)
  /\ rd' = LET timed == ReadTime(FindModule(rd, missing), missing)
           IN  ReadLines(SwitchMode(timed, lost), lost)
  /\ UNCHANGED <<run, daq>>

Next ==
  \/ BeginRun
  \/ \E missing, lost \in BOOLEAN : ReadData(missing, lost)

Spec == Init /\ [][Next]_vars

---------------------------------------------------------------------------
(* Properties.                                                             *)

TypeInvariant ==
  /\ run \in Nat /\ clock \in Nat /\ daq \in Daqs
  /\ line \in LineStates /\ lossless \in BOOLEAN
  /\ rd \in [fTITime : Nat, fTITime_last : Nat, fTITime_rollovers : Nat,
             fFADCModule : BOOLEAN, fTTimeDiff : Nat,
             fADCThreshold : Nat, fADCRawSamples : BOOLEAN,
             flags : [Lines -> BOOLEAN]]
  /\ ~daq.coda3 => rd.fTITime_last < Wrap

\* The time given to the event is the true one, over rollovers of the TI's word
\* and events whose TI time is missing (ReadData's fTITime), in every run.
TimeIsTrue == rd.fTITime = clock

\* As long as no event of the run lost its ADC data, every line is read as it
\* is, whichever of pedestals and samples the ADC records.  After a loss made
\* ReadData take the run for one with raw samples, no line that is down is read
\* as up.
LinesAreTrue ==
  /\ lossless => rd.flags = line
  /\ \A x \in Lines : rd.flags[x] => line[x]
===========================================================================
