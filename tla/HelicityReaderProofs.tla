------------------------ MODULE HelicityReaderProofs ------------------------
(***************************************************************************)
(* The reader's times and lines are true for every width of the time word, *)
(* offset of the ADC's clock, length of a pedestal and level of a line.    *)
(***************************************************************************)
EXTENDS HelicityReader, NatLemmas

Reader ==
  [fTITime : Nat, fTITime_last : Nat, fTITime_rollovers : Nat,
   fFADCModule : BOOLEAN, fTTimeDiff : Nat,
   fADCThreshold : Nat, fADCRawSamples : BOOLEAN,
   flags : [Lines -> BOOLEAN]]

\* The first event of a run has a TI time, and two events are less than a turn
\* of the time word apart: else nothing could tell how often it rolled over.
ClockIsReadable == ~FirstTimeMayMiss /\ MaxGap < Wrap

\* A threshold tells an upper level from a lower one.
Separates(threshold, low, high) == low <= threshold /\ threshold < high

\* The threshold once the values are samples.
SampleThreshold ==
  IF UserThreshold = DefaultThreshold THEN DefaultThreshold \div 4 ELSE UserThreshold

\* The mode is left to the reader to find, and the threshold fits both.
ThresholdsFit ==
  /\ ~UserRawSamples
  /\ Separates(UserThreshold, PedSamples * OffLevel, PedSamples * OnLevel)
  /\ Separates(SampleThreshold, OffLevel, OnLevel)

---------------------------------------------------------------------------
(* The inductive invariants.                                               *)

\* The difference of the clocks is that of the modules, taken once.
DifferenceIsTrue == rd.fFADCModule => rd.fTTimeDiff = (-AdcOffset) % Wrap

\* The last word and the rollovers are the remainder and the quotient of the
\* true time by the width of the word.
RolloversAreTrue ==
  IF daq.coda3 THEN rd.fTITime_rollovers = 0
  ELSE rd.fTITime_last = clock % Wrap /\ rd.fTITime_rollovers = clock \div Wrap

ClockInv == DifferenceIsTrue /\ RolloversAreTrue /\ TimeIsTrue

\* The threshold is that of the mode, and a mode that does not fit the data
\* comes of a loss.
ModeIsTrue ==
  /\ rd.fADCThreshold = IF rd.fADCRawSamples THEN SampleThreshold ELSE UserThreshold
  /\ rd.fADCRawSamples /\ daq.adc = "pedestals" => ~lossless

---------------------------------------------------------------------------
(* The stages of ReadData.                                                 *)

LEMMA NewReaderType ==
  ASSUME NEW found \in BOOLEAN, NEW diff \in Nat
  PROVE  NewReader(found, diff) \in Reader
BY ReaderAssumption DEF NewReader, Reader, AllDown

\* What the TI wrote is a time, and within the word before CODA 3.
LEMMA TIWordType ==
  ASSUME NEW missing \in BOOLEAN, clock' \in Nat
  PROVE  TIWord(missing) \in Nat /\ (~daq.coda3 => TIWord(missing) < Wrap)
<1>1. Wrap \in Nat \ {0} /\ clock' \in Int
  BY ReaderAssumption
<1>2. clock' % Wrap \in 0 .. Wrap - 1
  BY <1>1, DivModDef
<1>3. PICK w \in 0 .. Wrap - 1 : w = clock' % Wrap
  BY <1>2
<1>4. CASE missing
  BY <1>1, <1>4 DEF TIWord
<1>5. CASE ~missing /\ daq.coda3
  BY <1>1, <1>5 DEF TIWord
<1>6. CASE ~missing /\ ~daq.coda3
  <2>1. TIWord(missing) = clock' % Wrap
    BY <1>6 DEF TIWord
  <2>2. TIWord(missing) = w
    BY <2>1, <1>3
  <2>3. w \in Nat /\ w < Wrap
    BY <1>1
  <2> QED
    BY <2>2, <2>3
<1> QED
  BY <1>4, <1>5, <1>6

LEMMA FindModuleType ==
  ASSUME NEW d \in Reader, NEW missing \in BOOLEAN, clock' \in Nat
  PROVE  /\ FindModule(d, missing) \in Reader
         /\ FindModule(d, missing).fFADCModule
<1>1. TIWord(missing) - (clock' + AdcOffset) \in Int
  BY TIWordType, ReaderAssumption
<1>2. (TIWord(missing) - (clock' + AdcOffset)) % Wrap \in Nat
  BY <1>1, DivModDef, ReaderAssumption
<1> HIDE DEF Reader
<1> QED
  BY <1>2 DEF FindModule, Reader

LEMMA ReadTimeType ==
  ASSUME NEW d \in Reader, NEW missing \in BOOLEAN, clock' \in Nat
  PROVE  /\ ReadTime(d, missing) \in Reader
         /\ ~daq.coda3 => ReadTime(d, missing).fTITime_last < Wrap
<1> DEFINE titime == IF TIWord(missing) = 0 THEN AdcTime(d) ELSE TIWord(missing)
           over == IF titime < d.fTITime_last /\ ~daq.coda3
                   THEN d.fTITime_rollovers + 1 ELSE d.fTITime_rollovers
<1>1. AdcTime(d) \in 0 .. Wrap - 1
  <2>1. clock' + AdcOffset \in Int /\ d.fTTimeDiff \in Int /\ Wrap \in Nat \ {0}
    BY ReaderAssumption DEF Reader
  <2>2. ((clock' + AdcOffset) % Wrap) + d.fTTimeDiff \in Int
    BY <2>1
  <2> QED
    BY <2>1, <2>2, DivModDef DEF AdcTime
<1>2. titime \in Nat /\ (~daq.coda3 => titime < Wrap)
  BY <1>1, TIWordType, ReaderAssumption
<1>3. over \in Nat /\ titime + over * Wrap \in Nat
  <2>1. over \in Nat
    BY DEF Reader
  <2> HIDE DEF over
  <2>2. over * Wrap \in Nat
    BY <2>1, ReaderAssumption
  <2> QED
    BY <1>2, <2>1, <2>2
<1> HIDE DEF titime, over
<1>4. [d EXCEPT !.fTITime_rollovers = over, !.fTITime_last = titime,
                !.fTITime = titime + over * Wrap] \in Reader
  BY <1>2, <1>3 DEF Reader
<1> QED
  BY <1>2, <1>4 DEF ReadTime, titime, over, Reader

LEMMA SwitchModeType ==
  ASSUME NEW d \in Reader, NEW lost \in BOOLEAN
  PROVE  SwitchMode(d, lost) \in Reader
<1>1. DefaultThreshold \div 4 \in Nat
  BY ReaderAssumption
<1> QED
  BY <1>1 DEF SwitchMode, Reader

LEMMA ReadLinesType ==
  ASSUME NEW d \in Reader, NEW lost \in BOOLEAN
  PROVE  ReadLines(d, lost) \in Reader
<1> DEFINE f == [x \in Lines |->
                  RawValue(x, IF d.fADCRawSamples THEN "samples" ELSE "pedestals", lost)
                    > d.fADCThreshold]
<1>1. f \in [Lines -> BOOLEAN]
  OBVIOUS
<1>2. ReadLines(d, lost) = [d EXCEPT !.flags = f]
  BY DEF ReadLines
<1> HIDE DEF f
<1> QED
  BY <1>1, <1>2 DEF Reader

---------------------------------------------------------------------------
(* The time of an event.                                                   *)

LEMMA WordAndTurns ==
  ASSUME NEW W \in Nat \ {0}, NEW c \in Nat
  PROVE  (c % W) + (c \div W) * W = c
<1>1. PICK q \in Int, r \in 0 .. W - 1 : c = W * q + r /\ q = c \div W /\ r = c % W
  BY DivModDef
<1> QED
  BY <1>1

\* A word that is smaller than the last one has rolled over once, any other
\* not at all.
LEMMA Rollover ==
  ASSUME NEW W \in Nat \ {0}, NEW x \in Nat, NEW y \in Nat, x <= y, y - x < W
  PROVE  y \div W = IF y % W < x % W THEN (x \div W) + 1 ELSE x \div W
<1>1. PICK p \in Int, r \in 0 .. W - 1 : x = W * p + r /\ p = x \div W /\ r = x % W
  BY DivModDef
<1>2. PICK q \in Int, s \in 0 .. W - 1 : y = W * q + s /\ q = y \div W /\ s = y % W
  BY DivModDef
<1>3. ~(q + 1 <= p)
  BY <1>1, <1>2, ProductOrder
<1>4. ~((p + 1) + 1 <= q)
  <2>1. W * (p + 1) = W * p + W
    OBVIOUS
  <2>2. (p + 1) + 1 <= q => W * (p + 1) + W <= W * q
    BY ProductOrder
  <2> QED
    BY <1>1, <1>2, <2>1, <2>2
<1>5. q = p \/ q = p + 1
  BY <1>3, <1>4
<1>6. CASE q = p
  BY <1>1, <1>2, <1>6
<1>7. CASE q = p + 1
  <2>1. W * q = W * p + W
    BY <1>7
  <2>2. s < r
    BY <1>1, <1>2, <2>1
  <2> QED
    BY <1>1, <1>2, <1>7, <2>2
<1> QED
  BY <1>5, <1>6, <1>7

\* The difference taken from an event is that of the clocks, whatever its time.
LEMMA DifferenceTaken ==
  ASSUME NEW W \in Nat \ {0}, NEW c \in Nat, NEW a \in Nat
  PROVE  /\ (c - (c + a)) % W = (-a) % W
         /\ ((c % W) - (c + a)) % W = (-a) % W
<1>1. PICK y \in Int : y = -(c + a)
  OBVIOUS
<1>2. ((c % W) + y) % W = (c + y) % W
  <2>1. c \in Int
    OBVIOUS
  <2> QED
    BY <2>1, ModPlus
<1>3. c + y = -a /\ c - (c + a) = -a
  BY <1>1
<1>4. (c % W) - (c + a) = (c % W) + y
  <2>1. PICK r \in Int : r = c % W
    BY DivModDef
  <2> QED
    BY <1>1, <2>1
<1> QED
  BY <1>2, <1>3, <1>4

\* The ADC's time and the difference give the word of the TI.
LEMMA DifferenceApplied ==
  ASSUME NEW W \in Nat \ {0}, NEW c \in Nat, NEW a \in Nat
  PROVE  (((c + a) % W) + ((-a) % W)) % W = c % W
<1>1. PICK r \in Int : r = (-a) % W
  BY DivModDef
<1>2. PICK x \in Int, m \in Int : x = c + a /\ m = -a
  OBVIOUS
<1>3. ((x % W) + r) % W = (x + r) % W
  BY ModPlus
<1>4. ((m % W) + x) % W = (m + x) % W
  BY ModPlus
<1>5. m + x = c /\ x + r = r + x
  BY <1>2
<1> QED
  BY <1>1, <1>2, <1>3, <1>4, <1>5

\* What an event does to the clock: it goes on by less than a turn.
LEMMA ClockMoves ==
  ASSUME ClockIsReadable, TypeInvariant,
         NEW missing \in BOOLEAN, NEW lost \in BOOLEAN, ReadData(missing, lost)
  PROVE  /\ clock' \in Nat /\ clock < clock' /\ clock' - clock < Wrap
         /\ clock \in Nat /\ Wrap \in Nat \ {0} /\ AdcOffset \in Nat
BY ReaderAssumption DEF ClockIsReadable, TypeInvariant, ReadData

LEMMA FindModuleTrue ==
  ASSUME ClockIsReadable, TypeInvariant, DifferenceIsTrue,
         NEW missing \in BOOLEAN, NEW lost \in BOOLEAN, ReadData(missing, lost)
  PROVE  /\ FindModule(rd, missing).fTTimeDiff = (-AdcOffset) % Wrap
         /\ FindModule(rd, missing).fFADCModule
         /\ FindModule(rd, missing).fTITime_last = rd.fTITime_last
         /\ FindModule(rd, missing).fTITime_rollovers = rd.fTITime_rollovers
<1>1. rd \in Reader
  BY DEF TypeInvariant, Reader
<1>2. CASE rd.fFADCModule
  BY <1>2 DEF FindModule, DifferenceIsTrue
<1>3. CASE ~rd.fFADCModule
  <2>1. ~missing
    BY <1>3 DEF ReadData, ClockIsReadable
  <2>2. TIWord(missing) = clock' \/ TIWord(missing) = clock' % Wrap
    BY <2>1 DEF TIWord
  <2>3. (TIWord(missing) - (clock' + AdcOffset)) % Wrap = (-AdcOffset) % Wrap
    BY <2>2, ClockMoves, DifferenceTaken
  <2>4. FindModule(rd, missing) =
          [rd EXCEPT !.fFADCModule = TRUE,
                     !.fTTimeDiff = (TIWord(missing) - (clock' + AdcOffset)) % Wrap]
    BY <1>3 DEF FindModule
  <2> QED
    BY <1>1, <2>3, <2>4 DEF Reader
<1> QED
  BY <1>2, <1>3

\* Whichever of the two times is taken, it is the word of the true time.
LEMMA WordIsTrue ==
  ASSUME ClockIsReadable, TypeInvariant,
         NEW missing \in BOOLEAN, NEW lost \in BOOLEAN, ReadData(missing, lost),
         NEW d, d.fTTimeDiff = (-AdcOffset) % Wrap
  PROVE  (IF TIWord(missing) = 0 THEN AdcTime(d) ELSE TIWord(missing))
           = IF daq.coda3 THEN clock' ELSE clock' % Wrap
<1>1. clock' \in Nat /\ clock' > 0
  BY ClockMoves
<1>2. CASE daq.coda3
  <2>1. ~missing
    BY <1>2 DEF ReadData
  <2> QED
    BY <1>1, <1>2, <2>1 DEF TIWord
<1>3. CASE ~daq.coda3
  <2>1. AdcTime(d) = clock' % Wrap
    BY ClockMoves, DifferenceApplied DEF AdcTime
  <2>2. TIWord(missing) = 0 \/ TIWord(missing) = clock' % Wrap
    BY <1>3 DEF TIWord
  <2> QED
    BY <1>3, <2>1, <2>2
<1> QED
  BY <1>2, <1>3

\* The stages behind ReadTime leave the times alone.
LEMMA LinesLeaveTimes ==
  ASSUME NEW d \in Reader, NEW lost \in BOOLEAN
  PROVE  LET r == ReadLines(SwitchMode(d, lost), lost)
         IN  /\ r.fTITime = d.fTITime /\ r.fTITime_last = d.fTITime_last
             /\ r.fTITime_rollovers = d.fTITime_rollovers
             /\ r.fFADCModule = d.fFADCModule /\ r.fTTimeDiff = d.fTTimeDiff
<1>1. SwitchMode(d, lost) = d \/ \E t : SwitchMode(d, lost) =
        [d EXCEPT !.fADCRawSamples = TRUE, !.fADCThreshold = t]
  BY DEF SwitchMode
<1>2. ASSUME NEW s, DOMAIN s = DOMAIN d
      PROVE  LET r == ReadLines(s, lost)
             IN  /\ r.fTITime = s.fTITime /\ r.fTITime_last = s.fTITime_last
                 /\ r.fTITime_rollovers = s.fTITime_rollovers
                 /\ r.fFADCModule = s.fFADCModule /\ r.fTTimeDiff = s.fTTimeDiff
  BY <1>2 DEF ReadLines, Reader
<1> DEFINE s == SwitchMode(d, lost)
<1>3. /\ DOMAIN s = DOMAIN d
      /\ s.fTITime = d.fTITime /\ s.fTITime_last = d.fTITime_last
      /\ s.fTITime_rollovers = d.fTITime_rollovers
      /\ s.fFADCModule = d.fFADCModule /\ s.fTTimeDiff = d.fTTimeDiff
  BY <1>1 DEF Reader
<1> HIDE DEF s
<1>4. /\ ReadLines(s, lost).fTITime = s.fTITime
      /\ ReadLines(s, lost).fTITime_last = s.fTITime_last
      /\ ReadLines(s, lost).fTITime_rollovers = s.fTITime_rollovers
      /\ ReadLines(s, lost).fFADCModule = s.fFADCModule
      /\ ReadLines(s, lost).fTTimeDiff = s.fTTimeDiff
  BY <1>2, <1>3
<1> QED
  BY <1>3, <1>4 DEF s

LEMMA EventKeepsClock ==
  ASSUME ClockIsReadable, TypeInvariant, ClockInv,
         NEW missing \in BOOLEAN, NEW lost \in BOOLEAN, ReadData(missing, lost)
  PROVE  ClockInv'
<1> DEFINE f == FindModule(rd, missing)
           t == ReadTime(f, missing)
           word == IF daq.coda3 THEN clock' ELSE clock' % Wrap
           over == IF word < f.fTITime_last /\ ~daq.coda3
                   THEN f.fTITime_rollovers + 1 ELSE f.fTITime_rollovers
<1>1. rd \in Reader /\ f \in Reader
  BY ClockMoves, FindModuleType DEF TypeInvariant, Reader
<1>2. /\ f.fTTimeDiff = (-AdcOffset) % Wrap /\ f.fFADCModule
      /\ f.fTITime_last = rd.fTITime_last
      /\ f.fTITime_rollovers = rd.fTITime_rollovers
  BY FindModuleTrue DEF ClockInv
<1>3. word = IF TIWord(missing) = 0 THEN AdcTime(f) ELSE TIWord(missing)
  BY <1>2, WordIsTrue
<1> HIDE DEF f
<1>4. t = [f EXCEPT !.fTITime_rollovers = over, !.fTITime_last = word,
                    !.fTITime = word + over * Wrap]
  BY <1>3 DEF ReadTime
<1>5. /\ t.fTITime_rollovers = over /\ t.fTITime_last = word
      /\ t.fTITime = word + over * Wrap /\ t.fFADCModule = f.fFADCModule
      /\ t.fTTimeDiff = f.fTTimeDiff
  <2> HIDE DEF word, over
  <2> QED
    BY <1>1, <1>4 DEF Reader
<1>6. t \in Reader
  BY <1>1, ClockMoves, ReadTimeType
<1> HIDE DEF t
<1>7. /\ rd'.fTITime = t.fTITime /\ rd'.fTITime_last = t.fTITime_last
      /\ rd'.fTITime_rollovers = t.fTITime_rollovers
      /\ rd'.fFADCModule = t.fFADCModule /\ rd'.fTTimeDiff = t.fTTimeDiff
  <2>1. rd' = ReadLines(SwitchMode(t, lost), lost)
    BY DEF ReadData, t, f
  <2> QED
    BY <1>6, <2>1, LinesLeaveTimes
<1>8. daq' = daq
  BY DEF ReadData
<1>9. CASE daq.coda3
  <2>1. over = 0 /\ word = clock' /\ clock' + 0 * Wrap = clock'
    BY <1>2, <1>9, ClockMoves DEF ClockInv, RolloversAreTrue
  <2> QED
    BY <1>2, <1>5, <1>7, <1>8, <1>9, <2>1
    DEF ClockInv, DifferenceIsTrue, RolloversAreTrue, TimeIsTrue
<1>10. CASE ~daq.coda3
  <2>1. /\ f.fTITime_last = clock % Wrap /\ f.fTITime_rollovers = clock \div Wrap
        /\ word = clock' % Wrap
    BY <1>2, <1>10 DEF ClockInv, RolloversAreTrue
  <2>2. over = clock' \div Wrap
    BY <1>10, <2>1, ClockMoves, Rollover
  <2>3. (clock' % Wrap) + (clock' \div Wrap) * Wrap = clock'
    BY ClockMoves, WordAndTurns
  <2>4. word + over * Wrap = clock'
    <3> HIDE DEF word, over
    <3> QED
      BY <2>1, <2>2, <2>3
  <2> HIDE DEF word, over
  <2> QED
    BY <1>2, <1>5, <1>7, <1>8, <1>10, <2>1, <2>2, <2>4
    DEF ClockInv, DifferenceIsTrue, RolloversAreTrue, TimeIsTrue
<1> QED
  BY <1>9, <1>10

---------------------------------------------------------------------------
(* The lines of an event.                                                  *)

\* What a line reads tells its state, in either mode, by the threshold of the
\* mode; and no data reads as down.
LEMMA ValueTellsLine ==
  ASSUME ThresholdsFit, NEW x \in Lines, NEW lost \in BOOLEAN,
         line' \in LineStates
  PROVE  /\ ~lost /\ daq.adc = "pedestals" =>
              /\ (RawValue(x, "pedestals", lost) > UserThreshold) = line'[x]
              /\ RawValue(x, "pedestals", lost) > 0
         /\ ~lost /\ daq.adc = "samples" =>
              (RawValue(x, "samples", lost) > SampleThreshold) = line'[x]
         /\ \A asked : lost \/ asked # daq.adc =>
              RawValue(x, asked, lost) = 0
         /\ UserThreshold \in Nat /\ SampleThreshold \in Nat
<1>1. line'[x] \in BOOLEAN
  BY DEF LineStates
<1>2. /\ PedSamples \in Nat \ {0} /\ OffLevel \in Nat \ {0} /\ OnLevel \in Nat
      /\ OffLevel < OnLevel /\ UserThreshold \in Nat /\ DefaultThreshold \in Nat
  BY ReaderAssumption
<1>3. PedSamples * OffLevel > 0 /\ PedSamples * OnLevel > 0
  BY <1>2
<1>4. SampleThreshold \in Nat
  BY <1>2 DEF SampleThreshold
<1>5. ASSUME ~lost, daq.adc = "pedestals"
      PROVE  /\ (RawValue(x, "pedestals", lost) > UserThreshold) = line'[x]
             /\ RawValue(x, "pedestals", lost) > 0
  <2>1. RawValue(x, "pedestals", lost) = PedSamples * Level(x)
    BY <1>5 DEF RawValue
  <2>2. Level(x) = IF line'[x] THEN OnLevel ELSE OffLevel
    BY DEF Level
  <2>3. CASE line'[x]
    BY <1>2, <1>3, <2>1, <2>2, <2>3 DEF ThresholdsFit, Separates
  <2>4. CASE ~line'[x]
    BY <1>1, <1>2, <1>3, <2>1, <2>2, <2>4 DEF ThresholdsFit, Separates
  <2> QED
    BY <2>3, <2>4
<1>6. ASSUME ~lost, daq.adc = "samples"
      PROVE  (RawValue(x, "samples", lost) > SampleThreshold) = line'[x]
  <2>1. RawValue(x, "samples", lost) = IF line'[x] THEN OnLevel ELSE OffLevel
    BY <1>6 DEF RawValue, Level
  <2> QED
    BY <1>1, <1>2, <1>4, <2>1 DEF ThresholdsFit, Separates
<1>7. \A asked : lost \/ asked # daq.adc => RawValue(x, asked, lost) = 0
  BY DEF RawValue
<1> QED
  BY <1>2, <1>4, <1>5, <1>6, <1>7

\* The stages before SwitchMode leave mode and threshold alone.
LEMMA TimeLeavesMode ==
  ASSUME TypeInvariant, clock' \in Nat, NEW missing \in BOOLEAN
  PROVE  LET t == ReadTime(FindModule(rd, missing), missing)
         IN  /\ t \in Reader
             /\ t.fADCThreshold = rd.fADCThreshold
             /\ t.fADCRawSamples = rd.fADCRawSamples
<1> DEFINE f == FindModule(rd, missing)
           t == ReadTime(f, missing)
<1>1. rd \in Reader /\ f \in Reader
  BY FindModuleType DEF TypeInvariant, Reader
<1>2. f.fADCThreshold = rd.fADCThreshold /\ f.fADCRawSamples = rd.fADCRawSamples
  BY <1>1 DEF FindModule, Reader
<1> HIDE DEF f
<1>3. t \in Reader
  BY <1>1, ReadTimeType
<1>4. t.fADCThreshold = f.fADCThreshold /\ t.fADCRawSamples = f.fADCRawSamples
  BY <1>1 DEF ReadTime, Reader
<1> QED
  BY <1>2, <1>3, <1>4 DEF t, f

LEMMA EventKeepsLines ==
  ASSUME ThresholdsFit, TypeInvariant, ModeIsTrue,
         NEW missing \in BOOLEAN, NEW lost \in BOOLEAN, ReadData(missing, lost)
  PROVE  ModeIsTrue' /\ LinesAreTrue'
<1> DEFINE t == ReadTime(FindModule(rd, missing), missing)
           s == SwitchMode(t, lost)
           asked == IF s.fADCRawSamples THEN "samples" ELSE "pedestals"
           f == [x \in Lines |-> RawValue(x, asked, lost) > s.fADCThreshold]
<1>1. /\ clock' \in Nat /\ line' \in LineStates /\ daq' = daq /\ daq \in Daqs
      /\ lossless' = (lossless /\ ~lost) /\ lossless \in BOOLEAN
      /\ rd' = ReadLines(s, lost)
  BY DEF ReadData, TypeInvariant
<1>2. /\ t \in Reader /\ t.fADCThreshold = rd.fADCThreshold
      /\ t.fADCRawSamples = rd.fADCRawSamples
  BY <1>1, TimeLeavesMode
<1>3. t.fADCThreshold = IF t.fADCRawSamples THEN SampleThreshold ELSE UserThreshold
  BY <1>2 DEF ModeIsTrue
<1> HIDE DEF t
<1>4. daq.adc = "pedestals" \/ daq.adc = "samples"
  BY <1>1 DEF Daqs
<1>5. s \in Reader
  BY <1>2, SwitchModeType
<1>6. s.fADCThreshold = IF s.fADCRawSamples THEN SampleThreshold ELSE UserThreshold
  BY <1>2, <1>3 DEF SwitchMode, Reader, SampleThreshold
<1>7. s.fADCRawSamples \/ (daq.adc = "pedestals" /\ ~lost)
  <2>1. ASSUME NEW x \in Lines, RawValue(x, "pedestals", lost) > 0
        PROVE  daq.adc = "pedestals" /\ ~lost
    BY <2>1 DEF RawValue
  <2>2. {"help", "helm"} \subseteq Lines
    BY DEF Lines
  <2> QED
    BY <1>2, <2>1, <2>2 DEF SwitchMode, Reader
<1>8. s.fADCRawSamples /\ daq.adc = "pedestals" => ~lossless'
  <2>1. CASE rd.fADCRawSamples
    BY <1>1, <2>1 DEF ModeIsTrue
  <2>2. CASE ~rd.fADCRawSamples /\ lost
    BY <1>1, <2>2
  <2>3. CASE ~rd.fADCRawSamples /\ ~lost /\ daq.adc = "pedestals"
    <3>1. "help" \in Lines
      BY DEF Lines
    <3>2. RawValue("help", "pedestals", lost) > 0
      BY <1>1, <2>3, <3>1, ValueTellsLine
    <3>3. s = t
      BY <3>2 DEF SwitchMode
    <3> QED
      BY <1>2, <2>3, <3>3
  <2> QED
    BY <2>1, <2>2, <2>3
<1>9. /\ rd'.fADCRawSamples = s.fADCRawSamples /\ rd'.fADCThreshold = s.fADCThreshold
      /\ rd'.flags = f
  <2>1. rd' = [s EXCEPT !.flags = f]
    BY <1>1 DEF ReadLines
  <2> HIDE DEF f, s
  <2> QED
    BY <1>5, <2>1 DEF Reader
<1>10. ModeIsTrue'
  BY <1>1, <1>6, <1>8, <1>9 DEF ModeIsTrue
<1> HIDE DEF s
<1>11. ASSUME NEW x \in Lines
       PROVE  /\ lossless' => f[x] = line'[x]
              /\ f[x] => line'[x]
  <2>1. f[x] = (RawValue(x, asked, lost) > s.fADCThreshold)
    OBVIOUS
  <2>2. /\ ~lost /\ daq.adc = "pedestals" =>
              (RawValue(x, "pedestals", lost) > UserThreshold) = line'[x]
        /\ ~lost /\ daq.adc = "samples" =>
              (RawValue(x, "samples", lost) > SampleThreshold) = line'[x]
        /\ lost \/ asked # daq.adc => RawValue(x, asked, lost) = 0
        /\ UserThreshold \in Nat /\ SampleThreshold \in Nat
    BY <1>1, ValueTellsLine
  <2> HIDE DEF f
  <2>3. CASE lost \/ asked # daq.adc
    <3>1. RawValue(x, asked, lost) = 0 /\ s.fADCThreshold \in Nat
      BY <1>6, <2>2, <2>3
    <3>2. ~f[x]
      <4>1. f[x] = (0 > s.fADCThreshold)
        BY <2>1, <3>1
      <4>2. ~(0 > s.fADCThreshold)
        BY <3>1
      <4> QED
        BY <4>1, <4>2
    <3>3. ~lossless'
      <4>1. CASE lost
        BY <1>1, <4>1
      <4>2. CASE asked # daq.adc
        BY <1>4, <1>7, <1>8, <4>2
      <4> QED
        BY <2>3, <4>1, <4>2
    <3> QED
      BY <3>2, <3>3
  <2>4. CASE ~lost /\ asked = daq.adc
    BY <1>4, <1>6, <2>1, <2>2, <2>4
  <2> QED
    BY <2>3, <2>4
<1>12. f \in [Lines -> BOOLEAN] /\ line' \in [Lines -> BOOLEAN]
  BY <1>1 DEF LineStates
<1>13. lossless' => f = line'
  <2> HIDE DEF f
  <2> QED
    BY <1>11, <1>12
<1> HIDE DEF f
<1> QED
  BY <1>9, <1>10, <1>11, <1>13 DEF LinesAreTrue

---------------------------------------------------------------------------
(* The theorems.                                                           *)

LEMMA StepKeepsTypes ==
  TypeInvariant /\ [Next]_vars => TypeInvariant'
<1> SUFFICES ASSUME TypeInvariant, [Next]_vars
             PROVE  TypeInvariant'
  OBVIOUS
<1> USE DEF Reader
<1>1. AllDown \in LineStates
  BY DEF AllDown, LineStates, Lines
<1>2. CASE BeginRun
  <2>1. rd' \in Reader
    BY <1>2, NewReaderType DEF BeginRun, TypeInvariant
  <2>2. rd'.fTITime_last = 0 /\ 0 < Wrap
    BY <1>2, ReaderAssumption DEF BeginRun, NewReader
  <2> QED
    BY <1>1, <1>2, <2>1, <2>2 DEF BeginRun, TypeInvariant
<1>3. ASSUME NEW missing \in BOOLEAN, NEW lost \in BOOLEAN, ReadData(missing, lost)
      PROVE  TypeInvariant'
  <2> DEFINE f == FindModule(rd, missing)
             t == ReadTime(f, missing)
             s == SwitchMode(t, lost)
  <2>1. clock' \in Nat /\ lossless' \in BOOLEAN /\ rd \in Reader
    BY <1>3, ReaderAssumption DEF ReadData, TypeInvariant
  <2>2. f \in Reader
    BY <2>1, FindModuleType
  <2> HIDE DEF f
  <2>3. t \in Reader /\ (~daq.coda3 => t.fTITime_last < Wrap)
    BY <2>1, <2>2, ReadTimeType
  <2> HIDE DEF t
  <2>4. rd' = ReadLines(s, lost)
    BY <1>3 DEF ReadData, s, t, f
  <2>5. rd' \in Reader
    BY <2>3, <2>4, SwitchModeType, ReadLinesType
  <2>6. rd'.fTITime_last = t.fTITime_last
    BY <2>3, <2>4, LinesLeaveTimes
  <2> QED
    BY <1>3, <2>1, <2>3, <2>5, <2>6 DEF ReadData, TypeInvariant
<1>4. CASE UNCHANGED vars
  BY <1>4 DEF vars, TypeInvariant
<1> QED
  BY <1>2, <1>3, <1>4 DEF Next

LEMMA InitialTypes ==
  Init => TypeInvariant
<1>1. AllDown \in LineStates
  BY DEF AllDown, LineStates, Lines
<1>2. NewReader(FALSE, 0) \in Reader
  BY NewReaderType
<1> QED
  BY <1>1, <1>2, ReaderAssumption DEF Init, TypeInvariant, Reader, NewReader

\* The members of the reader keep their types, and before CODA 3 the last time
\* is one the word of the TI can hold.
THEOREM ReaderTypes ==
  Spec => []TypeInvariant
BY InitialTypes, StepKeepsTypes, PTL DEF Spec

LEMMA StepKeepsClock ==
  ASSUME ClockIsReadable
  PROVE  TypeInvariant /\ ClockInv /\ [Next]_vars => ClockInv'
<1> SUFFICES ASSUME TypeInvariant, ClockInv, [Next]_vars
             PROVE  ClockInv'
  OBVIOUS
<1>1. CASE BeginRun
  <2>1. 0 \div Wrap = 0 /\ 0 % Wrap = 0
    <3>1. Wrap \in Nat \ {0} /\ 0 \in 0 .. Wrap - 1 /\ Wrap * 0 + 0 = 0
      BY ReaderAssumption
    <3> QED
      BY <3>1, DivUnique
  <2>2. rd' = NewReader(rd.fFADCModule, rd.fTTimeDiff) /\ clock' = 0
    BY <1>1 DEF BeginRun
  <2> QED
    BY <2>1, <2>2
    DEF ClockInv, DifferenceIsTrue, RolloversAreTrue, TimeIsTrue, NewReader
<1>2. CASE \E missing, lost \in BOOLEAN : ReadData(missing, lost)
  BY <1>2, EventKeepsClock
<1>3. CASE UNCHANGED vars
  BY <1>3
  DEF vars, ClockInv, DifferenceIsTrue, RolloversAreTrue, TimeIsTrue
<1> QED
  BY <1>1, <1>2, <1>3 DEF Next

LEMMA InitialClock ==
  Init => ClockInv
<1>1. 0 \div Wrap = 0 /\ 0 % Wrap = 0
  <2>1. Wrap \in Nat \ {0} /\ 0 \in 0 .. Wrap - 1 /\ Wrap * 0 + 0 = 0
    BY ReaderAssumption
  <2> QED
    BY <2>1, DivUnique
<1> QED
  BY <1>1
  DEF Init, ClockInv, DifferenceIsTrue, RolloversAreTrue, TimeIsTrue, NewReader

\* The time ReadData gives an event is the true one, in every run, whatever the
\* width of the word and however often it rolled over, and also where the ADC's
\* time has to stand in for the TI's.
THEOREM ReaderTimes ==
  ASSUME ClockIsReadable
  PROVE  Spec => []TimeIsTrue
<1>1. Init => TypeInvariant /\ ClockInv
  BY InitialTypes, InitialClock
<1>2. (TypeInvariant /\ ClockInv) /\ [Next]_vars => (TypeInvariant /\ ClockInv)'
  BY StepKeepsTypes, StepKeepsClock
<1>3. TypeInvariant /\ ClockInv => TimeIsTrue
  BY DEF ClockInv
<1> QED
  BY <1>1, <1>2, <1>3, PTL DEF Spec

LEMMA StepKeepsLines ==
  ASSUME ThresholdsFit
  PROVE  /\ TypeInvariant /\ ModeIsTrue /\ LinesAreTrue /\ [Next]_vars
         => ModeIsTrue' /\ LinesAreTrue'
<1> SUFFICES ASSUME TypeInvariant, ModeIsTrue, LinesAreTrue, [Next]_vars
             PROVE  ModeIsTrue' /\ LinesAreTrue'
  OBVIOUS
<1>1. CASE BeginRun
  BY <1>1 DEF BeginRun, ModeIsTrue, LinesAreTrue, NewReader, ThresholdsFit, AllDown
<1>2. CASE \E missing, lost \in BOOLEAN : ReadData(missing, lost)
  BY <1>2, EventKeepsLines
<1>3. CASE UNCHANGED vars
  BY <1>3 DEF vars, ModeIsTrue, LinesAreTrue
<1> QED
  BY <1>1, <1>2, <1>3 DEF Next

LEMMA InitialLines ==
  ASSUME ThresholdsFit
  PROVE  Init => ModeIsTrue /\ LinesAreTrue
BY DEF Init, ModeIsTrue, LinesAreTrue, NewReader, ThresholdsFit, AllDown

\* Every line of an event is read as it is, unless the ADC data of an event of
\* the run was lost; and no line that is down is ever read as up.
THEOREM ReaderLines ==
  ASSUME ThresholdsFit
  PROVE  Spec => []LinesAreTrue
<1> DEFINE Inv == TypeInvariant /\ ModeIsTrue /\ LinesAreTrue
<1>1. Init => Inv
  BY InitialTypes, InitialLines
<1>2. Inv /\ [Next]_vars => Inv'
  BY StepKeepsTypes, StepKeepsLines
<1>3. Inv => LinesAreTrue
  OBVIOUS
<1> QED
  BY <1>1, <1>2, <1>3, PTL DEF Spec
=============================================================================
