--------------------------- MODULE TimeSyncProofs ---------------------------
(***************************************************************************)
(* The corrected file has every event, each with its own data, for every   *)
(* set of TDCs and every file, however often the noise comes; and the      *)
(* statistics count the slips, for every set of crates and modules.        *)
(***************************************************************************)
EXTENDS TimeSyncFilter, TimeSyncStats, NatLemmas, FiniteSetTheorems

AnyBank == Banks \union {NoBank}
Events == [id : 0 .. MaxEvents, other : BOOLEAN, bank : AnyBank]

Handler ==
  [fSlippage : {0, 1}, fLastEvent : Events, fFirstTdcCheck : BOOLEAN,
   fTdcMask : SUBSET Tdcs, crashed : BOOLEAN]

\* The events of a file, and their numbers.
Written(file) == {file[i] : i \in DOMAIN file}
Ids(events) == {e.id : e \in events}
Held(d) == IF d.fLastEvent = NoEvent THEN {} ELSE {d.fLastEvent}

\* The types, and that nothing is written before it was read.
TypesInv ==
  /\ read \in 0 .. MaxEvents /\ prev \in 0 .. read /\ closed \in BOOLEAN
  /\ slip \in {"aligned", "noisy", "late"} /\ noisy \subseteq 1 .. MaxEvents
  /\ slip # "aligned" => prev # 0
  /\ h \in Handler /\ out \in Seq(Events)
  /\ h.fLastEvent.id <= read /\ \A e \in Written(out) : e.id <= read

\* The handler is correcting exactly while the TDCs are late, and then it holds the last
\* physics event, in which noise began if the TDCs are still noisy.
SlipIsKnown ==
  ~h.crashed =>
    /\ h.fSlippage = IF slip = "aligned" THEN 0 ELSE 1
    /\ slip = "aligned" => h.fLastEvent = NoEvent
    /\ slip # "aligned" => h.fLastEvent # NoEvent /\ h.fLastEvent.id = prev /\ ~h.fFirstTdcCheck
    /\ slip = "noisy" => prev \in noisy /\ h.fLastEvent.bank # NoBank
    /\ ~h.fFirstTdcCheck => h.fTdcMask = Tdcs

\* An event without a bank, with its own data, or in which noise began.
IsOwn(e, noise) == e.bank # NoBank /\ e.id \notin noise => e.id \in e.bank.of

---------------------------------------------------------------------------
(* The file.                                                               *)

LEMMA AppendWrites ==
  ASSUME NEW s \in Seq(Events), NEW e \in Events
  PROVE  /\ Append(s, e) \in Seq(Events) /\ Len(Append(s, e)) = Len(s) + 1
         /\ Written(Append(s, e)) = Written(s) \union {e}
<1>1. /\ Append(s, e) \in Seq(Events) /\ Len(Append(s, e)) = Len(s) + 1
      /\ DOMAIN Append(s, e) = 1 .. Len(s) + 1 /\ DOMAIN s = 1 .. Len(s) /\ Len(s) \in Nat
      /\ \A i \in 1 .. Len(s) : Append(s, e)[i] = s[i]
      /\ Append(s, e)[Len(s) + 1] = e
  OBVIOUS
<1>2. ASSUME NEW x PROVE x \in Written(Append(s, e)) <=> x \in Written(s) \union {e}
  <2>1. ASSUME x \in Written(Append(s, e)) PROVE x \in Written(s) \union {e}
    <3>1. PICK i \in 1 .. Len(s) + 1 : x = Append(s, e)[i]
      BY <1>1, <2>1 DEF Written
    <3>2. i \in 1 .. Len(s) \/ i = Len(s) + 1
      BY <1>1
    <3> QED
      BY <1>1, <3>1, <3>2 DEF Written
  <2>2. ASSUME x \in Written(s) PROVE x \in Written(Append(s, e))
    <3>1. PICK i \in 1 .. Len(s) : x = s[i]
      BY <1>1, <2>2 DEF Written
    <3>2. i \in 1 .. Len(s) + 1 /\ x = Append(s, e)[i]
      BY <1>1, <3>1
    <3> QED
      BY <1>1, <3>2 DEF Written
  <2>3. e \in Written(Append(s, e))
    <3>1. Len(s) + 1 \in 1 .. Len(s) + 1
      BY <1>1
    <3> QED
      BY <1>1, <3>1 DEF Written
  <2> QED
    BY <2>1, <2>2, <2>3
<1> QED
  BY <1>1, <1>2

LEMMA EventsWritten ==
  ASSUME NEW s \in Seq(Events)
  PROVE  \A x \in Written(s) : x \in Events /\ x.id \in Nat
<1>1. ASSUME NEW i \in DOMAIN s PROVE s[i] \in Events /\ s[i].id \in Nat
  <2>1. s[i] \in Events
    OBVIOUS
  <2> QED
    BY <2>1 DEF Events
<1> QED
  BY <1>1 DEF Written

LEMMA PairIsAppended ==
  ASSUME NEW s \in Seq(Events), NEW e \in Events, NEW f \in Events
  PROVE  s \o <<e, f>> = Append(Append(s, e), f)
OBVIOUS

---------------------------------------------------------------------------
(* The data acquisition and the stages of Analyze.                         *)

\* The banks, when no noise begins, by what the TDCs are.
LEMMA BanksAre ==
  ASSUME NEW sync \in BOOLEAN, NEW b \in BanksNow(sync, FALSE),
         slip \in {"aligned", "noisy", "late"}
  PROVE  \/ b = NoBank
         \/ slip = "aligned" /\ b \in Ordinary({read + 1})
         \/ /\ slip = "noisy" /\ ~sync
            /\ \E large \in BOOLEAN, tdcs \in SUBSET Tdcs : b = Noise(large, tdcs)
         \/ slip = "noisy" /\ sync /\ b \in Ordinary({read + 1})
         \/ slip = "late" /\ ~sync /\ b \in Ordinary({prev})
         \/ slip = "late" /\ sync /\ b \in Ordinary({prev, read + 1})
<1>1. CASE slip = "aligned"
  BY <1>1 DEF BanksNow, BanksAfter
<1>2. CASE slip = "noisy" /\ sync
  BY <1>2 DEF BanksNow, BanksAfter
<1>3. CASE slip = "noisy" /\ ~sync
  BY <1>3 DEF BanksNow, BanksAfter
<1>4. CASE slip = "late" /\ sync
  BY <1>4 DEF BanksNow, BanksAfter
<1>5. CASE slip = "late" /\ ~sync
  BY <1>5 DEF BanksNow, BanksAfter
<1> QED
  BY <1>1, <1>2, <1>3, <1>4, <1>5

\* The bank in which noise begins is large and lacks a TDC.
LEMMA NoiseIs ==
  ASSUME NEW sync \in BOOLEAN, NEW b \in BanksNow(sync, TRUE)
  PROVE  \E tdcs \in SUBSET Tdcs : tdcs # Tdcs /\ b = Noise(TRUE, tdcs)
<1>1. b \in NoisyBanks
  BY Zenon DEF BanksNow
<1>2. PICK tdcs \in (SUBSET Tdcs) \ {{}, Tdcs} : b = Noise(TRUE, tdcs)
  BY <1>1 DEF NoisyBanks
<1>3. tdcs \in SUBSET Tdcs /\ tdcs # Tdcs
  BY <1>2
<1> QED
  BY <1>2, <1>3

LEMMA BanksAreTyped ==
  ASSUME TypesInv, read < MaxEvents, NEW sync \in BOOLEAN, NEW begins \in BOOLEAN,
         NEW b \in BanksNow(sync, begins)
  PROVE  b \in AnyBank
<1>1. read + 1 \in 1 .. MaxEvents /\ (slip # "aligned" => prev \in 1 .. MaxEvents)
  BY FilterAssumption DEF TypesInv
<1>2. ASSUME NEW of \in SUBSET (1 .. MaxEvents), b \in Ordinary(of) PROVE b \in Banks
  BY <1>2 DEF Ordinary, Banks
<1>3. ASSUME NEW large \in BOOLEAN, NEW tdcs \in SUBSET Tdcs, b = Noise(large, tdcs)
      PROVE  b \in Banks
  BY <1>3 DEF Noise, Banks
<1>4. CASE begins = TRUE
  <2>1. PICK tdcs \in SUBSET Tdcs : b = Noise(TRUE, tdcs)
    BY <1>4, NoiseIs
  <2> QED
    BY <1>3, <2>1 DEF AnyBank
<1>5. CASE begins = FALSE
  <2>1. \/ b = NoBank
        \/ b \in Ordinary({read + 1})
        \/ slip # "aligned" /\ (b \in Ordinary({prev}) \/ b \in Ordinary({prev, read + 1}))
        \/ \E large \in BOOLEAN, tdcs \in SUBSET Tdcs : b = Noise(large, tdcs)
    BY <1>5, BanksAre DEF TypesInv
  <2> QED
    BY <1>1, <1>2, <1>3, <2>1 DEF AnyBank
<1> QED
  BY <1>4, <1>5

\* The events of the two kinds.
LEMMA EventsAreTyped ==
  ASSUME FilterAssumption, read \in 0 .. MaxEvents, read < MaxEvents, NEW b \in AnyBank, NEW other \in BOOLEAN
  PROVE  /\ [id |-> read + 1, other |-> other, bank |-> b] \in Events
         /\ [id |-> read + 1, other |-> other, bank |-> b] # NoEvent
         /\ NoBank \in AnyBank /\ NoEvent \in Events
BY DEF Events, NoEvent, AnyBank

LEMMA CheckBankIs ==
  ASSUME NEW d \in Handler, NEW b \in AnyBank
  PROVE  /\ CheckBank(d, b) \in Handler
         /\ CheckBank(d, b).fLastEvent = d.fLastEvent /\ CheckBank(d, b).crashed = d.crashed
         /\ CheckBank(d, b).fSlippage =
              IF b # NoBank /\ ~d.fFirstTdcCheck /\ b.tdcs # d.fTdcMask /\ b.large THEN 1 ELSE d.fSlippage
         /\ CheckBank(d, b).fFirstTdcCheck = (b = NoBank /\ d.fFirstTdcCheck)
         /\ CheckBank(d, b).fTdcMask = IF b # NoBank /\ d.fFirstTdcCheck THEN b.tdcs ELSE d.fTdcMask
<1>1. CASE b = NoBank
  BY <1>1 DEF CheckBank, Handler
<1>2. CASE b # NoBank
  <2>1. b \in Banks
    BY <1>2 DEF AnyBank
  <2>2. PICK mask \in SUBSET Tdcs : mask = IF d.fFirstTdcCheck THEN b.tdcs ELSE d.fTdcMask
    BY <2>1 DEF Banks, Handler
  <2>3. PICK slippage \in {0, 1} :
          slippage = IF ~d.fFirstTdcCheck /\ b.tdcs # d.fTdcMask /\ b.large THEN 1 ELSE d.fSlippage
    BY DEF Handler
  <2>4. CheckBank(d, b) =
          [d EXCEPT !.fFirstTdcCheck = FALSE, !.fTdcMask = mask, !.fSlippage = slippage]
    BY <1>2, <2>2, <2>3 DEF CheckBank, TdcsMissing
  <2> QED
    BY <1>2, <2>2, <2>3, <2>4 DEF Handler
<1> QED
  BY <1>1, <1>2

LEMMA CorrectedIs ==
  ASSUME NEW d \in Handler, NEW b \in AnyBank
  PROVE  /\ Corrected(d, b) \in Events
         /\ Corrected(d, b).id = d.fLastEvent.id
         /\ Corrected(d, b).bank = IF d.fLastEvent.bank = NoBank THEN NoBank ELSE b
<1>1. PICK c \in AnyBank : c = IF d.fLastEvent.bank = NoBank THEN NoBank ELSE b
  BY DEF AnyBank
<1>2. PICK e \in Events : e = d.fLastEvent
  BY DEF Handler
<1>3. Corrected(d, b) = [e EXCEPT !.bank = c]
  BY <1>1, <1>2 DEF Corrected
<1> QED
  BY <1>1, <1>2, <1>3 DEF Events

\* The ways through WriteEvent: the event is written, held back, ends the program, is
\* held back for the one held so far, or is written behind it.
Passed(d, e) == out' = Append(out, e) /\ h' = d /\ d.fSlippage = 0
HeldBack(d, e) ==
  /\ UNCHANGED out /\ h' = [d EXCEPT !.fLastEvent = e]
  /\ d.fSlippage = 1 /\ d.fLastEvent = NoEvent
EndsProgram(d) == UNCHANGED out /\ h' = [d EXCEPT !.crashed = TRUE]
FillsIn(d, e) ==
  /\ d.fSlippage = 1 /\ d.fLastEvent # NoEvent /\ ~NullBank(d, e)
  /\ out' = Append(out, Corrected(d, e.bank)) /\ h' = [d EXCEPT !.fLastEvent = e]
EndsCorrection(d, e) ==
  /\ fResync
  /\ d.fSlippage = 1 /\ d.fLastEvent # NoEvent /\ ~NullBank(d, e)
  /\ out' = Append(Append(out, Corrected(d, e.bank)), e)
  /\ h' = [d EXCEPT !.fSlippage = 0, !.fLastEvent = NoEvent]

LEMMA WritesAre ==
  ASSUME NEW d \in Handler, NEW e \in Events, NEW sync \in BOOLEAN, out \in Seq(Events),
         WriteEvent(d, e, sync)
  PROVE  \/ Passed(d, e)
         \/ HeldBack(d, e)
         \/ EndsProgram(d)
         \/ ~(sync /\ fResync) /\ FillsIn(d, e)
         \/ sync /\ EndsCorrection(d, e)
<1>1. d.fSlippage \in {0, 1} /\ e.bank \in AnyBank
  BY DEF Handler, Events
<1>2. CASE d.fSlippage = 0
  BY <1>2 DEF WriteEvent, Passed
<1>3. CASE d.fSlippage = 1 /\ d.fLastEvent = NoEvent
  BY <1>3 DEF WriteEvent, HeldBack
<1>4. CASE d.fSlippage = 1 /\ d.fLastEvent # NoEvent
  <2>1. CASE NullBank(d, e)
    <3>1. d.fSlippage # 0 /\ d.fSlippage > 0
      BY <1>4
    <3> QED
      BY <1>4, <2>1, <3>1, Zenon DEF WriteEvent, EndsProgram
  <2>2. CASE ~NullBank(d, e)
    <3>1. d.fSlippage # 0 /\ d.fSlippage > 0
      BY <1>4
    <3>2. WriteDelayed(d, e, sync)
      BY <1>4, <2>2, <3>1, Zenon DEF WriteEvent
    <3>3. out \o <<Corrected(d, e.bank), e>> = Append(Append(out, Corrected(d, e.bank)), e)
      BY <1>1, CorrectedIs, PairIsAppended
    <3> QED
      BY <1>4, <2>2, <3>2, <3>3 DEF WriteDelayed, FillsIn, EndsCorrection
  <2> QED
    BY <2>1, <2>2
<1> QED
  BY <1>1, <1>2, <1>3, <1>4

\* What CheckBank leaves of the handler, and what Analyze does with the event.
Checked(d, b) ==
  /\ d.fLastEvent = h.fLastEvent /\ d.crashed = h.crashed
  /\ d.fSlippage =
       IF b # NoBank /\ ~h.fFirstTdcCheck /\ b.tdcs # h.fTdcMask /\ b.large THEN 1 ELSE h.fSlippage
  /\ d.fFirstTdcCheck = (b = NoBank /\ h.fFirstTdcCheck)
  /\ d.fTdcMask = IF b # NoBank /\ h.fFirstTdcCheck THEN b.tdcs ELSE h.fTdcMask

Outcome(d, e, sync) ==
  \/ Passed(d, e)
  \/ HeldBack(d, e)
  \/ EndsProgram(d)
  \/ ~(sync /\ fResync) /\ FillsIn(d, e)
  \/ sync /\ EndsCorrection(d, e)

LEMMA AnalyzeIs ==
  ASSUME TypesInv, NEW sync \in BOOLEAN, NEW begins \in BOOLEAN, AnalyzeEvent(sync, begins)
  PROVE  /\ \E b \in AnyBank, d \in Handler, e \in Events :
              /\ b \in BanksNow(sync, begins) /\ Checked(d, b)
              /\ e.id = read + 1 /\ e.bank = b /\ e # NoEvent
              /\ Outcome(d, e, sync)
         /\ read < MaxEvents /\ read' = read + 1 /\ prev' = read + 1 /\ closed' = closed
         /\ slip' = SlipAfter(sync, begins)
         /\ noisy' = IF begins THEN noisy \union {read + 1} ELSE noisy
<1>1. PICK b \in BanksNow(sync, begins) :
        WriteEvent(CheckBank(h, b), [id |-> read + 1, other |-> FALSE, bank |-> b], sync)
  BY DEF AnalyzeEvent
<1>2. read < MaxEvents /\ h \in Handler /\ out \in Seq(Events)
  BY DEF AnalyzeEvent, Reading, TypesInv
<1>3. b \in AnyBank
  BY <1>2, BanksAreTyped
<1>4. PICK e \in Events : e = [id |-> read + 1, other |-> FALSE, bank |-> b] /\ e # NoEvent
  BY <1>2, <1>3, EventsAreTyped, FilterAssumption DEF TypesInv
<1>5. PICK d \in Handler : d = CheckBank(h, b) /\ Checked(d, b)
  BY <1>2, <1>3, CheckBankIs DEF Checked
<1>6. WriteEvent(d, e, sync)
  BY <1>1, <1>4, <1>5
<1>7. Outcome(d, e, sync)
  BY <1>2, <1>6, WritesAre DEF Outcome
<1>8. e.id = read + 1 /\ e.bank = b
  BY <1>4
<1>9. \E x \in AnyBank, y \in Handler, z \in Events :
        /\ x \in BanksNow(sync, begins) /\ Checked(y, x)
        /\ z.id = read + 1 /\ z.bank = x /\ z # NoEvent
        /\ Outcome(y, z, sync)
  BY <1>3, <1>4, <1>5, <1>7, <1>8
<1> QED
  BY <1>2, <1>9 DEF AnalyzeEvent

---------------------------------------------------------------------------
(* Types.                                                                  *)

LEMMA InitialFilter == FilterInit => TypesInv /\ SlipIsKnown /\ OwnData /\ NoneLost
<1> SUFFICES ASSUME FilterInit PROVE TypesInv /\ SlipIsKnown /\ OwnData /\ NoneLost
  OBVIOUS
<1>1. NoEvent \in Events
  BY FilterAssumption DEF NoEvent, Events, AnyBank
<1>2. Written(out) = {} /\ DOMAIN out = {} /\ out \in Seq(Events) /\ Len(out) = 0
  BY DEF FilterInit, Written
<1>3. h \in Handler /\ h.fLastEvent = NoEvent /\ h.fLastEvent.id = 0
  BY <1>1 DEF FilterInit, Handler, NoEvent
<1>4. TypesInv
  <2>1. \A e \in Written(out) : e.id <= read
    BY <1>2
  <2>2. /\ read \in 0 .. MaxEvents /\ prev \in 0 .. read /\ closed \in BOOLEAN
        /\ slip = "aligned" /\ noisy \subseteq 1 .. MaxEvents /\ h.fLastEvent.id <= read
    <3>1. read = 0 /\ prev = 0 /\ slip = "aligned" /\ noisy = {}
      BY DEF FilterInit
    <3>2. closed \in BOOLEAN
      BY Zenon DEF FilterInit
    <3>3. 0 \in 0 .. MaxEvents /\ 0 \in 0 .. 0 /\ 0 <= 0
      BY FilterAssumption
    <3> QED
      BY <1>3, <3>1, <3>2, <3>3
  <2> QED
    BY <1>2, <1>3, <2>1, <2>2 DEF TypesInv
<1>5. SlipIsKnown
  BY <1>3 DEF FilterInit, SlipIsKnown
<1>6. OwnData
  BY <1>2 DEF OwnData
<1>7. NoneLost
  BY <1>2, <1>3, FS_EmptySet DEF FilterInit, NoneLost
<1> QED
  BY <1>4, <1>5, <1>6, <1>7

\* What an outcome leaves: a typed handler, and a file with the events that were
\* written before and those of the outcome.
LEMMA OutcomeTypes ==
  ASSUME TypesInv, read < MaxEvents, NEW d \in Handler, d.fLastEvent = h.fLastEvent,
         NEW e \in Events, e.id = read + 1, NEW sync \in BOOLEAN, Outcome(d, e, sync)
  PROVE  /\ h' \in Handler /\ h'.fLastEvent.id <= read + 1
         /\ out' \in Seq(Events) /\ \A x \in Written(out') : x.id <= read + 1
<1>1. /\ h \in Handler /\ out \in Seq(Events) /\ read \in Nat /\ e.bank \in AnyBank
      /\ d.fLastEvent.id <= read + 1 /\ d.fLastEvent.id \in Nat
      /\ \A x \in Written(out) : x.id <= read + 1
  <2>1. \A x \in Written(out) : x \in Events /\ x.id \in Nat
    BY EventsWritten DEF TypesInv
  <2>2. d.fLastEvent.id \in Nat /\ e.bank \in AnyBank
    BY DEF Handler, Events
  <2> QED
    BY <2>1, <2>2 DEF TypesInv
<1>2. /\ Corrected(d, e.bank) \in Events /\ Corrected(d, e.bank).id <= read + 1
  BY <1>1, CorrectedIs
<1>3. CASE Passed(d, e)
  BY <1>1, <1>3, AppendWrites DEF Passed
<1>4. CASE HeldBack(d, e)
  BY <1>1, <1>4 DEF HeldBack, Handler
<1>5. CASE EndsProgram(d)
  BY <1>1, <1>5 DEF EndsProgram, Handler
<1>6. CASE FillsIn(d, e)
  <2>1. h' \in Handler /\ h'.fLastEvent = e
    BY <1>6 DEF FillsIn, Handler
  <2> QED
    BY <1>1, <1>2, <1>6, <2>1, AppendWrites DEF FillsIn
<1>7. CASE EndsCorrection(d, e)
  <2>1. h' \in Handler /\ h'.fLastEvent = NoEvent /\ NoEvent.id = 0
    <3>1. NoEvent \in Events /\ NoEvent.id = 0
      BY FilterAssumption DEF NoEvent, Events, AnyBank
    <3> QED
      BY <1>7, <3>1 DEF EndsCorrection, Handler
  <2>2. PICK s \in Seq(Events) :
          s = Append(out, Corrected(d, e.bank)) /\ Written(s) = Written(out) \union {Corrected(d, e.bank)}
    BY <1>1, <1>2, AppendWrites
  <2>3. out' = Append(s, e)
    BY <1>7, <2>2 DEF EndsCorrection
  <2>4. out' \in Seq(Events) /\ Written(out') = Written(s) \union {e}
    BY <2>3, AppendWrites
  <2> QED
    BY <1>1, <1>2, <2>1, <2>2, <2>4
<1> QED
  BY <1>3, <1>4, <1>5, <1>6, <1>7 DEF Outcome

LEMMA PassedThrough ==
  ASSUME TypesInv, PassThrough
  PROVE  \E e \in Events :
           /\ e.id = read + 1 /\ e.bank = NoBank /\ out' = Append(out, e)
           /\ read < MaxEvents /\ read' = read + 1 /\ UNCHANGED <<prev, slip, noisy, closed, h>>
<1>1. read \in 0 .. MaxEvents /\ read < MaxEvents /\ NoBank \in AnyBank
  BY DEF TypesInv, PassThrough, Reading, AnyBank
<1>2. PICK e \in Events : e = [id |-> read + 1, other |-> TRUE, bank |-> NoBank]
  BY <1>1, EventsAreTyped, FilterAssumption
<1>3. e.id = read + 1 /\ e.bank = NoBank
  BY <1>2
<1> QED
  BY <1>1, <1>2, <1>3 DEF PassThrough

LEMMA StepKeepsTypes ==
  TypesInv /\ [FilterNext]_filterVars => TypesInv'
<1> SUFFICES ASSUME TypesInv, [FilterNext]_filterVars PROVE TypesInv'
  OBVIOUS
<1>1. ASSUME NEW sync \in BOOLEAN, NEW begins \in BOOLEAN, AnalyzeEvent(sync, begins)
      PROVE  TypesInv'
  <2>1. PICK b \in AnyBank, d \in Handler, e \in Events :
          Checked(d, b) /\ e.id = read + 1 /\ Outcome(d, e, sync)
    BY <1>1, AnalyzeIs
  <2>2. /\ read < MaxEvents /\ read' = read + 1 /\ prev' = read + 1 /\ closed' = closed
        /\ slip' = SlipAfter(sync, begins)
        /\ noisy' = IF begins THEN noisy \union {read + 1} ELSE noisy
    BY <1>1, AnalyzeIs
  <2>3. /\ h' \in Handler /\ h'.fLastEvent.id <= read + 1
        /\ out' \in Seq(Events) /\ \A x \in Written(out') : x.id <= read + 1
    BY <2>1, <2>2, OutcomeTypes DEF Checked
  <2>4. slip' \in {"aligned", "noisy", "late"}
    BY <2>2, Zenon DEF SlipAfter, TypesInv
  <2>5. noisy' \subseteq 1 .. MaxEvents
    <3>1. read + 1 \in 1 .. MaxEvents
      BY <2>2, FilterAssumption DEF TypesInv
    <3> QED
      BY <2>2, <3>1 DEF TypesInv
  <2>6. read' \in 0 .. MaxEvents /\ prev' \in 0 .. read' /\ prev' # 0 /\ closed' \in BOOLEAN
    BY <2>2, FilterAssumption DEF TypesInv
  <2> QED
    BY <2>2, <2>3, <2>4, <2>5, <2>6 DEF TypesInv
<1>2. CASE PassThrough
  <2>1. PICK e \in Events :
          /\ e.id = read + 1 /\ e.bank = NoBank /\ out' = Append(out, e)
          /\ read < MaxEvents /\ read' = read + 1 /\ UNCHANGED <<prev, slip, noisy, closed, h>>
    BY <1>2, PassedThrough
  <2>2. read \in Nat /\ h.fLastEvent.id \in Nat /\ \A x \in Written(out) : x.id \in Nat
    <3>1. \A x \in Written(out) : x.id \in Nat
      BY EventsWritten DEF TypesInv
    <3>2. h \in Handler /\ read \in Nat
      BY DEF TypesInv
    <3> QED
      BY <3>1, <3>2 DEF Handler, Events
  <2>3. out' \in Seq(Events) /\ Written(out') = Written(out) \union {e}
    BY <2>1, AppendWrites DEF TypesInv
  <2>4. \A x \in Written(out') : x.id <= read'
    BY <2>1, <2>2, <2>3 DEF TypesInv
  <2> QED
    BY <2>1, <2>2, <2>3, <2>4, FilterAssumption DEF TypesInv
<1>3. CASE CloseFile
  BY <1>3 DEF CloseFile, TypesInv
<1>4. CASE UNCHANGED filterVars
  BY <1>4 DEF filterVars, TypesInv
<1> QED
  BY <1>1, <1>2, <1>3, <1>4 DEF FilterNext

---------------------------------------------------------------------------
(* No event is lost.                                                       *)

HeldIds(d) == IF d.fLastEvent = NoEvent THEN {} ELSE {d.fLastEvent.id}
NumberHeld(d) == IF d.fLastEvent = NoEvent THEN 0 ELSE 1

LEMMA HeldAreCounted ==
  ASSUME NEW d
  PROVE  Cardinality(HeldIds(d)) = NumberHeld(d)
BY FS_EmptySet, FS_Singleton DEF HeldIds, NumberHeld

LEMMA IdsAreWritten ==
  ASSUME NEW s
  PROVE  {s[i].id : i \in DOMAIN s} = Ids(Written(s))
BY DEF Ids, Written

LEMMA NumbersFollow ==
  ASSUME NEW n \in Nat
  PROVE  (1 .. n) \union {n + 1} = 1 .. n + 1
OBVIOUS

\* The file and the event held make up the first n events.
Complete(file, d, n) ==
  Len(file) + NumberHeld(d) = n /\ Ids(Written(file)) \union HeldIds(d) = 1 .. n

LEMMA NoneLostIs == NoneLost <=> h.crashed \/ Complete(out, h, read)
BY HeldAreCounted, IdsAreWritten, Zenon DEF NoneLost, Complete, HeldIds

LEMMA NoneLostIsNext == NoneLost' <=> h'.crashed \/ Complete(out', h', read')
BY HeldAreCounted, IdsAreWritten, Zenon DEF NoneLost, Complete, HeldIds

LEMMA OutcomeLosesNone ==
  ASSUME TypesInv, NEW d \in Handler, d.fLastEvent = h.fLastEvent,
         NEW e \in Events, e.id = read + 1, e # NoEvent, NEW sync \in BOOLEAN,
         Outcome(d, e, sync), Complete(out, h, read)
  PROVE  h'.crashed \/ Complete(out', h', read + 1)
<1>1. h \in Handler /\ out \in Seq(Events) /\ read \in Nat /\ e.bank \in AnyBank /\ Len(out) \in Nat
  BY DEF TypesInv, Events
<1>2. (1 .. read) \union {read + 1} = 1 .. read + 1
  BY <1>1, NumbersFollow
<1>3. HeldIds(d) = HeldIds(h) /\ NumberHeld(d) = NumberHeld(h)
  BY DEF HeldIds, NumberHeld
<1>4. PICK c \in Events : c = Corrected(d, e.bank) /\ c.id = d.fLastEvent.id
  BY <1>1, CorrectedIs
<1>5. CASE Passed(d, e)
  <2>1. /\ Len(out') = Len(out) + 1 /\ Written(out') = Written(out) \union {e} /\ h' = d
    BY <1>1, <1>5, AppendWrites DEF Passed
  <2>2. Ids(Written(out')) = Ids(Written(out)) \union {read + 1}
    BY <2>1 DEF Ids
  <2>3. Len(out') + NumberHeld(h') = read + 1
    BY <1>1, <1>3, <2>1 DEF Complete, NumberHeld
  <2> QED
    BY <1>2, <1>3, <2>1, <2>2, <2>3 DEF Complete
<1>6. CASE HeldBack(d, e)
  <2>1. out' = out /\ h'.fLastEvent = e /\ h.fLastEvent = NoEvent
    BY <1>6 DEF HeldBack, Handler
  <2>2. HeldIds(h) = {} /\ NumberHeld(h) = 0 /\ HeldIds(h') = {read + 1} /\ NumberHeld(h') = 1
    BY <2>1 DEF HeldIds, NumberHeld
  <2>3. Len(out') + NumberHeld(h') = read + 1
    BY <1>1, <2>1, <2>2 DEF Complete
  <2> QED
    BY <1>2, <2>1, <2>2, <2>3 DEF Complete
<1>7. CASE EndsProgram(d)
  BY <1>7 DEF EndsProgram, Handler
<1>8. CASE FillsIn(d, e)
  <2>1. /\ h'.fLastEvent = e /\ h.fLastEvent # NoEvent
        /\ Len(out') = Len(out) + 1 /\ Written(out') = Written(out) \union {c}
    BY <1>1, <1>4, <1>8, AppendWrites DEF FillsIn, Handler
  <2>2. /\ HeldIds(h) = {h.fLastEvent.id} /\ NumberHeld(h) = 1
        /\ HeldIds(h') = {read + 1} /\ NumberHeld(h') = 1
    BY <2>1 DEF HeldIds, NumberHeld
  <2>3. Ids(Written(out')) = Ids(Written(out)) \union HeldIds(h)
    BY <1>4, <2>1, <2>2 DEF Ids
  <2>4. Len(out') + NumberHeld(h') = read + 1
    BY <1>1, <2>1, <2>2 DEF Complete
  <2> QED
    BY <1>2, <2>2, <2>3, <2>4 DEF Complete
<1>9. CASE EndsCorrection(d, e)
  <2>1. PICK s \in Seq(Events) :
          /\ s = Append(out, c) /\ Len(s) = Len(out) + 1 /\ Written(s) = Written(out) \union {c}
    BY <1>1, AppendWrites
  <2>2. /\ h'.fLastEvent = NoEvent /\ h.fLastEvent # NoEvent /\ out' = Append(s, e)
    <3>1. NoEvent \in Events
      BY FilterAssumption DEF NoEvent, Events, AnyBank
    <3> QED
      BY <1>4, <1>9, <2>1, <3>1 DEF EndsCorrection, Handler
  <2>3. Len(out') = Len(s) + 1 /\ Written(out') = Written(s) \union {e}
    BY <2>2, AppendWrites
  <2>4. /\ HeldIds(h) = {h.fLastEvent.id} /\ NumberHeld(h) = 1
        /\ HeldIds(h') = {} /\ NumberHeld(h') = 0
    BY <2>2 DEF HeldIds, NumberHeld
  <2>5. Ids(Written(out')) = (Ids(Written(out)) \union HeldIds(h)) \union {read + 1}
    BY <1>4, <2>1, <2>3, <2>4 DEF Ids
  <2>6. Len(out') + NumberHeld(h') = read + 1
    BY <1>1, <2>1, <2>3, <2>4 DEF Complete
  <2> QED
    BY <1>2, <2>4, <2>5, <2>6 DEF Complete
<1> QED
  BY <1>5, <1>6, <1>7, <1>8, <1>9 DEF Outcome

LEMMA StepLosesNone ==
  TypesInv /\ NoneLost /\ [FilterNext]_filterVars => NoneLost'
<1> SUFFICES ASSUME TypesInv, NoneLost, [FilterNext]_filterVars PROVE NoneLost'
  OBVIOUS
<1>1. ASSUME NEW sync \in BOOLEAN, NEW begins \in BOOLEAN, AnalyzeEvent(sync, begins)
      PROVE  NoneLost'
  <2>1. PICK b \in AnyBank, d \in Handler, e \in Events :
          Checked(d, b) /\ e.id = read + 1 /\ e # NoEvent /\ Outcome(d, e, sync)
    BY <1>1, AnalyzeIs
  <2>2. read' = read + 1 /\ ~h.crashed
    BY <1>1, AnalyzeIs DEF AnalyzeEvent, Reading
  <2>3. Complete(out, h, read)
    BY <2>2, NoneLostIs
  <2> QED
    BY <2>1, <2>2, <2>3, OutcomeLosesNone, NoneLostIsNext DEF Checked
<1>2. CASE PassThrough
  <2>1. PICK e \in Events :
          e.id = read + 1 /\ out' = Append(out, e) /\ read' = read + 1 /\ h' = h
    BY <1>2, PassedThrough
  <2>2. out \in Seq(Events) /\ read \in Nat /\ Len(out) \in Nat
    BY DEF TypesInv
  <2>3. Len(out') = Len(out) + 1 /\ Written(out') = Written(out) \union {e}
    BY <2>1, <2>2, AppendWrites
  <2>4. Complete(out, h, read)
    BY <1>2, NoneLostIs DEF PassThrough, Reading
  <2>5. Ids(Written(out')) = Ids(Written(out)) \union {read + 1}
    BY <2>1, <2>3 DEF Ids
  <2>6. Len(out') + NumberHeld(h') = read + 1
    BY <2>1, <2>2, <2>3, <2>4 DEF Complete, NumberHeld
  <2>7. (1 .. read) \union {read + 1} = 1 .. read + 1
    BY <2>2, NumbersFollow
  <2>8. Complete(out', h', read')
    BY <2>1, <2>4, <2>5, <2>6, <2>7 DEF Complete
  <2> QED
    BY <2>8, NoneLostIsNext
<1>3. CASE CloseFile
  BY <1>3 DEF CloseFile, NoneLost
<1>4. CASE UNCHANGED filterVars
  BY <1>4 DEF filterVars, NoneLost
<1> QED
  BY <1>1, <1>2, <1>3, <1>4 DEF FilterNext

---------------------------------------------------------------------------
(* Each event has its own data.                                            *)

\* A sync event ends the correction, and noise does not begin in one.
SyncRestores == fResync /\ ~NoiseAtSync

LEMMA OwnDataIs == OwnData <=> \A e \in Written(out) : IsOwn(e, noisy)
BY DEF OwnData, Written, IsOwn

LEMMA OwnDataIsNext == OwnData' <=> \A e \in Written(out') : IsOwn(e, noisy')
BY DEF OwnData, Written, IsOwn

LEMMA OrdinaryIs ==
  ASSUME NEW of, NEW b \in Ordinary(of)
  PROVE  /\ b.of = of /\ (h.fFirstTdcCheck => b.tdcs = Tdcs)
         /\ b.tdcs # Tdcs => ~b.large
BY DEF Ordinary

\* Noise begins: the event is held back.
LEMMA NoiseBegins ==
  ASSUME SyncRestores, TypesInv, SlipIsKnown, ~h.crashed, slip = "aligned", ~h.fFirstTdcCheck,
         NEW b \in BanksNow(FALSE, TRUE), NEW d \in Handler, Checked(d, b),
         NEW e \in Events, e.id = read + 1, e.bank = b, e # NoEvent, Outcome(d, e, FALSE)
  PROVE  /\ out' = out
         /\ h'.crashed \/ /\ h'.fSlippage = 1 /\ h'.fLastEvent = e /\ b # NoBank
                          /\ ~h'.fFirstTdcCheck /\ h'.fTdcMask = Tdcs
<1>1. PICK tdcs \in SUBSET Tdcs : tdcs # Tdcs /\ b = Noise(TRUE, tdcs)
  BY NoiseIs
<1>2. b.tdcs = tdcs /\ b.large = TRUE /\ b # NoBank
  <2>1. b.tdcs = tdcs /\ b.large = TRUE /\ b.of = {} /\ NoBank.of = {0}
    BY <1>1 DEF Noise, NoBank
  <2> QED
    BY <2>1
<1>3. h.fTdcMask = Tdcs /\ h.fLastEvent = NoEvent
  BY DEF SlipIsKnown
<1>4. d.fSlippage = 1 /\ d.fLastEvent = NoEvent /\ d.fTdcMask = Tdcs /\ ~d.fFirstTdcCheck
  BY <1>1, <1>2, <1>3 DEF Checked
<1>5. HeldBack(d, e) \/ EndsProgram(d)
  BY <1>4 DEF Outcome, Passed, FillsIn, EndsCorrection
<1>6. CASE HeldBack(d, e)
  BY <1>2, <1>4, <1>6 DEF HeldBack, Handler
<1>7. CASE EndsProgram(d)
  BY <1>7 DEF EndsProgram, Handler
<1> QED
  BY <1>5, <1>6, <1>7

\* The TDCs are in time: the event is written with its own bank, or without one.
LEMMA InTimeIsPassed ==
  ASSUME SyncRestores, TypesInv, SlipIsKnown, ~h.crashed, slip = "aligned", NEW sync \in BOOLEAN,
         NEW b \in BanksNow(sync, FALSE), NEW d \in Handler, Checked(d, b),
         NEW e \in Events, e.id = read + 1, e.bank = b, e # NoEvent, Outcome(d, e, sync)
  PROVE  \/ h'.crashed /\ out' = out
         \/ /\ out' = Append(out, e) /\ IsOwn(e, noisy)
            /\ h'.fSlippage = 0 /\ h'.fLastEvent = NoEvent
            /\ ~h'.fFirstTdcCheck => h'.fTdcMask = Tdcs
<1>1. b = NoBank \/ b \in Ordinary({read + 1})
  BY BanksAre
<1>2. b = NoBank \/ /\ b.of = {read + 1} /\ (h.fFirstTdcCheck => b.tdcs = Tdcs)
                    /\ b.tdcs # Tdcs => ~b.large
  BY <1>1, OrdinaryIs
<1>3. h.fSlippage = 0 /\ h.fLastEvent = NoEvent /\ (~h.fFirstTdcCheck => h.fTdcMask = Tdcs)
  BY DEF SlipIsKnown
<1>4. d.fSlippage = 0 /\ d.fLastEvent = NoEvent
  BY <1>2, <1>3 DEF Checked
<1>5. ~d.fFirstTdcCheck => d.fTdcMask = Tdcs
  <2>1. CASE h.fFirstTdcCheck /\ b = NoBank
    BY <2>1, Zenon DEF Checked
  <2>2. CASE h.fFirstTdcCheck /\ b # NoBank
    BY <1>2, <2>2 DEF Checked
  <2>3. CASE ~h.fFirstTdcCheck
    BY <1>3, <2>3 DEF Checked
  <2> QED
    BY <2>1, <2>2, <2>3
<1>6. IsOwn(e, noisy)
  BY <1>2 DEF IsOwn
<1>7. Passed(d, e) \/ EndsProgram(d)
  BY <1>4 DEF Outcome, HeldBack, FillsIn, EndsCorrection
<1>8. CASE Passed(d, e)
  BY <1>4, <1>5, <1>6, <1>8 DEF Passed
<1>9. CASE EndsProgram(d)
  BY <1>9 DEF EndsProgram, Handler
<1> QED
  BY <1>7, <1>8, <1>9

\* The TDCs are late, or noisy: the event held gets the bank, which is its own unless noise
\* began in it.
LEMMA LateIsCorrected ==
  ASSUME SyncRestores, TypesInv, SlipIsKnown, ~h.crashed, slip # "aligned", NEW sync \in BOOLEAN,
         NEW b \in BanksNow(sync, FALSE), NEW d \in Handler, Checked(d, b),
         NEW e \in Events, e.id = read + 1, e.bank = b, e # NoEvent, Outcome(d, e, sync)
  PROVE  \/ h'.crashed /\ out' = out
         \/ \E c \in Events :
              /\ IsOwn(c, noisy)
              /\ ~h'.fFirstTdcCheck /\ h'.fTdcMask = Tdcs
              /\ \/ /\ ~sync /\ out' = Append(out, c)
                    /\ h'.fSlippage = 1 /\ h'.fLastEvent = e
                 \/ /\ sync /\ out' = Append(Append(out, c), e) /\ IsOwn(e, noisy)
                    /\ h'.fSlippage = 0 /\ h'.fLastEvent = NoEvent
<1>1. /\ slip \in {"noisy", "late"} /\ h.fSlippage = 1 /\ h.fLastEvent # NoEvent
      /\ h.fLastEvent.id = prev /\ ~h.fFirstTdcCheck /\ h.fTdcMask = Tdcs
      /\ slip = "noisy" => prev \in noisy /\ h.fLastEvent.bank # NoBank
  BY DEF SlipIsKnown, TypesInv
<1>2. d.fSlippage = 1 /\ d.fLastEvent = h.fLastEvent /\ ~d.fFirstTdcCheck /\ d.fTdcMask = Tdcs
  BY <1>1 DEF Checked
<1>3. PICK c \in Events : /\ c = Corrected(d, b) /\ c.id = prev
                          /\ c.bank = IF h.fLastEvent.bank = NoBank THEN NoBank ELSE b
  <2>1. b \in AnyBank
    BY DEF Events
  <2> QED
    BY <1>1, <1>2, <2>1, CorrectedIs
<1>4. b # NoBank => /\ slip = "late" => prev \in b.of
                    /\ sync => read + 1 \in b.of
  <2>1. CASE slip = "noisy" /\ sync = TRUE
    <3>1. b = NoBank \/ b \in Ordinary({read + 1})
      BY <2>1, BanksAre
    <3> QED
      BY <2>1, <3>1, OrdinaryIs
  <2>2. CASE slip = "noisy" /\ sync = FALSE
    BY <2>2
  <2>3. CASE slip = "late" /\ sync = TRUE
    <3>1. b = NoBank \/ b \in Ordinary({prev, read + 1})
      BY <2>3, BanksAre
    <3> QED
      BY <2>3, <3>1, OrdinaryIs
  <2>4. CASE slip = "late" /\ sync = FALSE
    <3>1. b = NoBank \/ b \in Ordinary({prev})
      BY <2>4, BanksAre
    <3> QED
      BY <2>4, <3>1, OrdinaryIs
  <2> QED
    BY <1>1, <2>1, <2>2, <2>3, <2>4
<1>5. IsOwn(c, noisy) /\ (sync => IsOwn(e, noisy))
  BY <1>1, <1>3, <1>4 DEF IsOwn
<1>6. NoEvent \in Events
  BY FilterAssumption DEF NoEvent, Events, AnyBank
<1>7. \/ EndsProgram(d)
      \/ ~sync /\ FillsIn(d, e)
      \/ sync /\ EndsCorrection(d, e)
  BY <1>1, <1>2 DEF Outcome, Passed, HeldBack, SyncRestores
<1>8. CASE EndsProgram(d)
  BY <1>8 DEF EndsProgram, Handler
<1>9. CASE ~sync /\ FillsIn(d, e)
  <2>1. /\ out' = Append(out, c) /\ h'.fSlippage = 1 /\ h'.fLastEvent = e
        /\ ~h'.fFirstTdcCheck /\ h'.fTdcMask = Tdcs
    BY <1>2, <1>3, <1>9 DEF FillsIn, Handler
  <2> QED
    BY <1>5, <1>9, <2>1
<1>10. CASE sync /\ EndsCorrection(d, e)
  <2>1. /\ out' = Append(Append(out, c), e) /\ h'.fSlippage = 0 /\ h'.fLastEvent = NoEvent
        /\ ~h'.fFirstTdcCheck /\ h'.fTdcMask = Tdcs
    BY <1>2, <1>3, <1>6, <1>10 DEF EndsCorrection, Handler
  <2> QED
    BY <1>5, <1>10, <2>1
<1> QED
  BY <1>7, <1>8, <1>9, <1>10

LEMMA SlipsAre ==
  ASSUME slip \in {"aligned", "noisy", "late"}
  PROVE  /\ \A begins \in BOOLEAN : SlipAfter(TRUE, begins) = "aligned"
         /\ SlipAfter(FALSE, TRUE) = "noisy"
         /\ SlipAfter(FALSE, FALSE) = IF slip = "aligned" THEN "aligned" ELSE "late"
BY DEF SlipAfter

\* More noise, and one event more that is own: the file keeps its own data.
LEMMA OwnIsAppended ==
  ASSUME NEW s \in Seq(Events), NEW c \in Events, NEW noise, NEW more, noise \subseteq more,
         \A e \in Written(s) : IsOwn(e, noise), IsOwn(c, noise)
  PROVE  \A e \in Written(Append(s, c)) : IsOwn(e, more)
<1>1. Written(Append(s, c)) = Written(s) \union {c}
  BY AppendWrites
<1> QED
  BY <1>1 DEF IsOwn

LEMMA AnalyzeKeepsOwn ==
  ASSUME SyncRestores, TypesInv, SlipIsKnown, OwnData,
         NEW sync \in BOOLEAN, NEW begins \in BOOLEAN, AnalyzeEvent(sync, begins)
  PROVE  SlipIsKnown' /\ OwnData'
<1>1. PICK b \in AnyBank, d \in Handler, e \in Events :
        /\ b \in BanksNow(sync, begins) /\ Checked(d, b)
        /\ e.id = read + 1 /\ e.bank = b /\ e # NoEvent /\ Outcome(d, e, sync)
  BY AnalyzeIs
<1>2. /\ ~h.crashed /\ read' = read + 1 /\ prev' = read + 1
      /\ slip' = SlipAfter(sync, begins)
      /\ noisy' = IF begins THEN noisy \union {read + 1} ELSE noisy
  BY AnalyzeIs DEF AnalyzeEvent, Reading
<1>3. out \in Seq(Events) /\ slip \in {"aligned", "noisy", "late"}
  BY DEF TypesInv
<1>4. \A x \in Written(out) : IsOwn(x, noisy)
  BY OwnDataIs
<1>5. CASE begins = TRUE
  <2>1. slip = "aligned" /\ ~h.fFirstTdcCheck /\ sync = FALSE
    BY <1>5 DEF AnalyzeEvent, SyncRestores
  <2>2. /\ out' = out
        /\ h'.crashed \/ /\ h'.fSlippage = 1 /\ h'.fLastEvent = e /\ b # NoBank
                         /\ ~h'.fFirstTdcCheck /\ h'.fTdcMask = Tdcs
    BY <1>1, <1>2, <1>5, <2>1, NoiseBegins
  <2>3. slip' = "noisy" /\ noisy' = noisy \union {read + 1}
    BY <1>2, <1>3, <1>5, <2>1, SlipsAre
  <2>4. SlipIsKnown'
    BY <1>1, <1>2, <2>2, <2>3 DEF SlipIsKnown
  <2>5. \A x \in Written(out') : IsOwn(x, noisy')
    BY <1>4, <2>2, <2>3 DEF IsOwn
  <2> QED
    BY <2>4, <2>5, OwnDataIsNext
<1>6. CASE begins = FALSE /\ slip = "aligned"
  <2>1. noisy' = noisy /\ slip' = "aligned"
    <3>1. noisy' = noisy
      BY <1>2, <1>6
    <3>2. CASE sync = TRUE
      BY <1>2, <1>3, <1>6, <3>2, SlipsAre
    <3>3. CASE sync = FALSE
      BY <1>2, <1>3, <1>6, <3>3, SlipsAre
    <3> QED
      BY <3>1, <3>2, <3>3
  <2>2. \/ h'.crashed /\ out' = out
        \/ /\ out' = Append(out, e) /\ IsOwn(e, noisy)
           /\ h'.fSlippage = 0 /\ h'.fLastEvent = NoEvent
           /\ ~h'.fFirstTdcCheck => h'.fTdcMask = Tdcs
    BY <1>1, <1>2, <1>6, InTimeIsPassed
  <2>3. SlipIsKnown'
    BY <2>1, <2>2 DEF SlipIsKnown
  <2>4. \A x \in Written(out') : IsOwn(x, noisy')
    BY <1>3, <1>4, <2>1, <2>2, OwnIsAppended
  <2> QED
    BY <2>3, <2>4, OwnDataIsNext
<1>7. CASE begins = FALSE /\ slip # "aligned"
  <2>1. noisy' = noisy
    BY <1>2, <1>7
  <2>2. CASE h'.crashed /\ out' = out
    BY <1>4, <2>1, <2>2, OwnDataIsNext DEF SlipIsKnown
  <2>3. ASSUME NEW c \in Events, IsOwn(c, noisy),
               ~h'.fFirstTdcCheck, h'.fTdcMask = Tdcs,
               ~sync, out' = Append(out, c), h'.fSlippage = 1, h'.fLastEvent = e
        PROVE  SlipIsKnown' /\ OwnData'
    <3>1. slip' = "late"
      <4>1. sync = FALSE
        BY <2>3
      <4> QED
        BY <1>2, <1>3, <1>7, <4>1, SlipsAre
    <3>2. SlipIsKnown'
      BY <1>1, <1>2, <2>3, <3>1 DEF SlipIsKnown
    <3>3. \A x \in Written(out') : IsOwn(x, noisy')
      BY <1>3, <1>4, <2>1, <2>3, OwnIsAppended
    <3> QED
      BY <3>2, <3>3, OwnDataIsNext
  <2>4. ASSUME NEW c \in Events, IsOwn(c, noisy),
               ~h'.fFirstTdcCheck, h'.fTdcMask = Tdcs,
               sync, out' = Append(Append(out, c), e), IsOwn(e, noisy),
               h'.fSlippage = 0, h'.fLastEvent = NoEvent
        PROVE  SlipIsKnown' /\ OwnData'
    <3>1. slip' = "aligned"
      <4>1. sync = TRUE
        BY <2>4
      <4> QED
        BY <1>2, <1>3, <1>7, <4>1, SlipsAre
    <3>2. SlipIsKnown'
      BY <2>4, <3>1 DEF SlipIsKnown
    <3>3. PICK s \in Seq(Events) : s = Append(out, c)
      BY <1>3, AppendWrites
    <3>4. \A x \in Written(s) : IsOwn(x, noisy)
      BY <1>3, <1>4, <2>4, <3>3, OwnIsAppended
    <3>5. \A x \in Written(out') : IsOwn(x, noisy')
      BY <2>1, <2>4, <3>3, <3>4, OwnIsAppended
    <3> QED
      BY <3>2, <3>5, OwnDataIsNext
  <2>5. \/ h'.crashed /\ out' = out
        \/ \E c \in Events :
             /\ IsOwn(c, noisy)
             /\ ~h'.fFirstTdcCheck /\ h'.fTdcMask = Tdcs
             /\ \/ /\ ~sync /\ out' = Append(out, c)
                   /\ h'.fSlippage = 1 /\ h'.fLastEvent = e
                \/ /\ sync /\ out' = Append(Append(out, c), e) /\ IsOwn(e, noisy)
                   /\ h'.fSlippage = 0 /\ h'.fLastEvent = NoEvent
    BY <1>1, <1>2, <1>7, LateIsCorrected
  <2> QED
    BY <2>2, <2>3, <2>4, <2>5
<1> QED
  BY <1>5, <1>6, <1>7

LEMMA StepKeepsOwn ==
  ASSUME SyncRestores
  PROVE  TypesInv /\ SlipIsKnown /\ OwnData /\ [FilterNext]_filterVars => SlipIsKnown' /\ OwnData'
<1> SUFFICES ASSUME TypesInv, SlipIsKnown, OwnData, [FilterNext]_filterVars
             PROVE  SlipIsKnown' /\ OwnData'
  OBVIOUS
<1>1. ASSUME NEW sync \in BOOLEAN, NEW begins \in BOOLEAN, AnalyzeEvent(sync, begins)
      PROVE  SlipIsKnown' /\ OwnData'
  BY <1>1, AnalyzeKeepsOwn
<1>2. CASE PassThrough
  <2>1. PICK e \in Events :
          /\ e.bank = NoBank /\ out' = Append(out, e) /\ UNCHANGED <<prev, slip, noisy, closed, h>>
    BY <1>2, PassedThrough
  <2>2. SlipIsKnown'
    BY <2>1 DEF SlipIsKnown
  <2>3. IsOwn(e, noisy) /\ noisy' = noisy /\ out \in Seq(Events)
    BY <2>1 DEF IsOwn, TypesInv
  <2>4. \A x \in Written(out) : IsOwn(x, noisy)
    BY OwnDataIs
  <2>5. \A x \in Written(out') : IsOwn(x, noisy')
    BY <2>1, <2>3, <2>4, OwnIsAppended
  <2> QED
    BY <2>2, <2>5, OwnDataIsNext
<1>3. CASE CloseFile
  BY <1>3 DEF CloseFile, SlipIsKnown, OwnData
<1>4. CASE UNCHANGED filterVars
  BY <1>4 DEF filterVars, SlipIsKnown, OwnData
<1> QED
  BY <1>1, <1>2, <1>3, <1>4 DEF FilterNext

---------------------------------------------------------------------------

\* The members of the handler and what is written keep their types, and nothing is
\* written that was not read (THcTimeSyncEvtHandler::Analyze).
THEOREM FilterTypes == FilterSpec => []FilterTypeInvariant
<1>1. TypesInv => FilterTypeInvariant
  <2> SUFFICES ASSUME TypesInv PROVE FilterTypeInvariant
    OBVIOUS
  <2>1. out \in Seq(Events) /\ h \in Handler /\ read \in Nat
    BY DEF TypesInv
  <2>2. ASSUME NEW e \in Events, e.id <= read PROVE e.id \in 0 .. read /\ e.bank \in Banks \union {NoBank}
    BY <2>1, <2>2 DEF Events, AnyBank
  <2>3. h.fLastEvent \in Events /\ h.fLastEvent.id <= read
    BY <2>1 DEF TypesInv, Handler
  <2>4. \A x \in {out[i] : i \in DOMAIN out} : x \in Events /\ x.id <= read
    BY <2>1, EventsWritten DEF TypesInv, Written
  <2>5. \A e \in {h.fLastEvent} \union {out[i] : i \in DOMAIN out} :
          e.id \in 0 .. read /\ e.bank \in Banks \union {NoBank}
    BY <2>2, <2>3, <2>4
  <2>6. /\ h.fSlippage \in {0, 1} /\ h.fFirstTdcCheck \in BOOLEAN /\ h.fTdcMask \subseteq Tdcs
        /\ h.crashed \in BOOLEAN
    BY <2>1 DEF Handler
  <2> QED
    BY <2>5, <2>6 DEF TypesInv, FilterTypeInvariant
<1> QED
  BY <1>1, InitialFilter, StepKeepsTypes, PTL DEF FilterSpec

\* If a sync event ends the correction and noise does not begin in one, each event read is
\* in the corrected file, once and with its own data, or held back; an event in which noise
\* began has lost its data (THcTimeSyncEvtHandler::Analyze and WriteEvent).
THEOREM CorrectedFile ==
  ASSUME SyncRestores
  PROVE  FilterSpec => []FileIsCorrected
<1>1. OwnData /\ NoneLost => FileIsCorrected
  BY DEF FileIsCorrected
<1> QED
  BY <1>1, InitialFilter, StepKeepsTypes, StepLosesNone, StepKeepsOwn, PTL DEF FilterSpec

\* Without these conditions, no event is lost.
THEOREM NothingIsLost == FilterSpec => []NoneLost
BY InitialFilter, StepKeepsTypes, StepLosesNone, PTL DEF FilterSpec

---------------------------------------------------------------------------
(* The statistics: congruences of the times, of the counts, and the sets   *)
(* of events that are counted.                                             *)

\* A set of naturals has a least element, so that there is a master crate.
LEMMA LeastOfNaturals ==
  ASSUME NEW S \in SUBSET Nat, S # {}
  PROVE  \E m \in S : \A n \in S : m <= n
<1> SUFFICES ASSUME \A m \in S : \E n \in S : ~(m <= n) PROVE FALSE
  OBVIOUS
<1> DEFINE T == {n \in Nat : \A k \in 0 .. n : k \notin S}
<1>1. 0 \in T
  OBVIOUS
<1>2. ASSUME NEW n \in Nat, n \in T PROVE n + 1 \in T
  <2>1. \A k \in 0 .. n + 1 : k \in 0 .. n \/ k = n + 1
    OBVIOUS
  <2>2. n + 1 \notin S
    <3> SUFFICES ASSUME n + 1 \in S PROVE FALSE
      OBVIOUS
    <3>1. PICK k \in S : ~(n + 1 <= k)
      OBVIOUS
    <3>2. k \in 0 .. n
      BY <3>1
    <3> QED
      BY <1>2, <3>2
  <2> QED
    BY <1>2, <2>1, <2>2
<1>3. \A n \in Nat : n \in T
  <2> HIDE DEF T
  <2> QED
    BY <1>1, <1>2, SetInduction
<1>4. PICK x \in S : x \in Nat
  OBVIOUS
<1> QED
  BY <1>3, <1>4

LEMMA MasterIsCrate == fMasterRoc \in Rocs
BY LeastOfNaturals, StatsAssumption DEF fMasterRoc

\* A difference of two words stands for the difference of what they are remainders of.
LEMMA SignedIs ==
  ASSUME NEW n \in Int, NEW x \in Int
  PROVE  Signed(n) \in Int /\ (x + Signed(n)) % TimeWrap = (x + n) % TimeWrap
<1> DEFINE r == n % TimeWrap
<1>1. r \in 0 .. TimeWrap - 1 /\ TimeWrap \in Nat \ {0}
  BY DivModDef, StatsAssumption
<1>2. Signed(n) = r \/ Signed(n) = r - TimeWrap
  BY DEF Signed
<1>3. (x + r) % TimeWrap = (x + n) % TimeWrap
  <2>1. (r + x) % TimeWrap = (n + x) % TimeWrap
    BY <1>1, ModPlus
  <2>2. r + x = x + r /\ n + x = x + n
    BY <1>1
  <2> QED
    BY <2>1, <2>2
<1> HIDE DEF r
<1>4. (x + (r - TimeWrap)) % TimeWrap = (x + r) % TimeWrap
  <2>1. x + (r - TimeWrap) = (x + r) + TimeWrap * (-1)
    BY <1>1
  <2>2. (x + r) \in Int
    BY <1>1
  <2>3. ((x + r) + TimeWrap * (-1)) % TimeWrap = (x + r) % TimeWrap
    <3>1. \A n1 \in Int : ((x + r) + TimeWrap * n1) % TimeWrap = (x + r) % TimeWrap
      BY <1>1, <2>2, ModTurns
    <3> QED
      BY <3>1
  <2> QED
    BY <2>1, <2>3
<1> QED
  BY <1>1, <1>2, <1>3, <1>4

\* The offset taken in the first event is the true one.
LEMMA OffsetIsTrue ==
  ASSUME NEW W \in Nat \ {0}, NEW time \in Int, NEW a \in Int, NEW b \in Int
  PROVE  (a + (((time + b) % W) - ((time + a) % W))) % W = b % W
<1>0. time + a \in Int /\ time + b \in Int
  OBVIOUS
<1>1. PICK q \in Int, r \in 0 .. W - 1 : time + b = W * q + r /\ r = (time + b) % W
  BY <1>0, DivModDef
<1>2. PICK p \in Int, s \in 0 .. W - 1 : time + a = W * p + s /\ s = (time + a) % W
  BY <1>0, DivModDef
<1>3. a + (r - s) = b + W * (p - q) /\ p - q \in Int
  <2>1. W * (p - q) = W * p - W * q /\ W * p \in Int /\ W * q \in Int
    OBVIOUS
  <2>2. r = (time + b) - W * q /\ s = (time + a) - W * p
    BY <1>1, <1>2, <2>1
  <2> QED
    BY <2>1, <2>2
<1>4. (b + W * (p - q)) % W = b % W
  BY <1>3, ModTurns
<1> QED
  BY <1>1, <1>2, <1>3, <1>4

\* With a true offset the time expected is that of the crate.
LEMMA ExpectedIs ==
  ASSUME TimeWrap \in Nat \ {0}, statEvent.time \in Int, Base[fMasterRoc] \in Int,
         NEW b \in Int, NEW off \in Int, (Base[fMasterRoc] + off) % TimeWrap = b % TimeWrap
  PROVE  Expected(off) = (statEvent.time + b) % TimeWrap
<1>a. PICK W \in Nat \ {0} : W = TimeWrap
  OBVIOUS
<1>b. PICK time \in Int : time = statEvent.time
  OBVIOUS
<1>c. PICK a \in Int : a = Base[fMasterRoc]
  OBVIOUS
<1>d. (a + off) % W = b % W
  BY <1>a, <1>c
<1>0. time + a \in Int /\ a + off \in Int
  OBVIOUS
<1>1. (((time + a) % W) + off) % W = ((time + a) + off) % W
  BY <1>0, ModPlus
<1>2. (((a + off) % W) + time) % W = ((a + off) + time) % W
  BY <1>0, ModPlus
<1>3. ((b % W) + time) % W = (b + time) % W
  BY ModPlus
<1>4. (time + a) + off = (a + off) + time /\ b + time = time + b
  OBVIOUS
<1>5. (((time + a) % W) + off) % W = (time + b) % W
  BY <1>1, <1>2, <1>3, <1>4, <1>d
<1> QED
  BY <1>5, <1>a, <1>b, <1>c DEF Expected, ti_ttime

\* Less than a turn is seen in the remainder.
LEMMA SlipIsSeen ==
  ASSUME NEW W \in Nat \ {0}, NEW x \in Int, NEW d \in Int, -W < d, d < W
  PROVE  (x + d) % W = x % W <=> d = 0
<1> SUFFICES ASSUME (x + d) % W = x % W PROVE d = 0
  OBVIOUS
<1>1. PICK q \in Int, r \in 0 .. W - 1 : x = W * q + r /\ r = x % W
  BY DivModDef
<1>2. PICK p \in Int, s \in 0 .. W - 1 : x + d = W * p + s /\ s = (x + d) % W
  <2>1. x + d \in Int
    OBVIOUS
  <2> QED
    BY <2>1, DivModDef
<1>3. W * p \in Int /\ W * q \in Int /\ d = W * p - W * q
  <2>1. W * p \in Int /\ W * q \in Int
    OBVIOUS
  <2>2. r = s
    BY <1>1, <1>2
  <2>3. PICK n \in Int : n = W * p
    BY <2>1
  <2>4. PICK m \in Int : m = W * q
    BY <2>1
  <2>5. x = m + r /\ x + d = n + r
    BY <1>1, <1>2, <2>2, <2>3, <2>4
  <2>6. d = n - m
    BY <2>5
  <2> QED
    BY <2>1, <2>3, <2>4, <2>6
<1>4. ~(p + 1 <= q)
  BY <1>3, ProductOrder
<1>5. ~(q + 1 <= p)
  BY <1>3, ProductOrder
<1>6. p = q
  BY <1>4, <1>5
<1> QED
  BY <1>3, <1>6

\* One more event is counted or not.
LEMMA OneMore ==
  ASSUME NEW n \in Nat, NEW S \in SUBSET (1 .. n), NEW b \in BOOLEAN
  PROVE  /\ Cardinality(S) \in Nat
         /\ Cardinality(S \union {i \in {n + 1} : b}) = Cardinality(S) + One(b)
<1>1. IsFiniteSet(S) /\ Cardinality(S) \in Nat
  <2>1. IsFiniteSet(1 .. n)
    BY FS_Interval
  <2> QED
    BY <2>1, FS_Subset, FS_CardinalityType
<1>2. n + 1 \notin S
  OBVIOUS
<1>3. CASE b
  <2>1. {i \in {n + 1} : b} = {n + 1}
    BY <1>3
  <2> QED
    BY <1>1, <1>2, <1>3, <2>1, FS_AddElement DEF One
<1>4. CASE ~b
  <2>1. S \union {i \in {n + 1} : b} = S
    BY <1>4
  <2> QED
    BY <1>1, <1>4, <2>1 DEF One
<1> QED
  BY <1>1, <1>3, <1>4

---------------------------------------------------------------------------
(* The statistics of a list of events.                                     *)

StatEvents ==
  [time : Int, sync : BOOLEAN, slip : [StatFadcs -> {n \in Int : -TimeWrap < n /\ n < TimeWrap}],
   lag : [StatTdcs -> Nat], rocs : SUBSET Rocs]

FadcsOf(crates) == {f \in StatFadcs : f[1] \in crates}

\* What is known of some of the crates or FADCs.
MapsOf(S) == UNION {[T -> Int] : T \in SUBSET S}

IsStats(s) ==
  /\ s \in [rocs : SUBSET Rocs, tiOffset : MapsOf(Rocs), offset : MapsOf(StatFadcs),
            tiEarly : MapsOf(Rocs), tiLate : MapsOf(Rocs), early : MapsOf(StatFadcs),
            late : MapsOf(StatFadcs), tdcOffset : MapsOf(StatTdcs), wrong : MapsOf(StatTdcs)]
  /\ s.tiOffset \in [s.rocs -> Int] /\ s.offset \in [FadcsOf(s.rocs) -> Int]
  /\ s.tiEarly \in [s.rocs -> Nat] /\ s.tiLate \in [s.rocs -> Nat]
  /\ s.early \in [StatFadcs -> Nat] /\ s.late \in [StatFadcs -> Nat]
  /\ s.tdcOffset \in [StatTdcs -> Int] /\ s.wrong \in [StatTdcs -> Nat]

\* The offsets are true modulo the words, whatever the first times were.
OffsetsAreTrue(s) ==
  /\ \A r \in s.rocs : (Base[fMasterRoc] + s.tiOffset[r]) % TimeWrap = Base[r] % TimeWrap
  /\ \A f \in FadcsOf(s.rocs) : statSetup.Expected[f[1]] = 0 =>
       (Base[fMasterRoc] + s.offset[f]) % TimeWrap = Base[f[1]] % TimeWrap

SlippedIn(l, f) == {i \in DOMAIN l : l[i].slip[f] # 0}

TimesAreCounted(s, l) ==
  /\ \A r \in s.rocs : s.tiEarly[r] = 0 /\ s.tiLate[r] = 0
  /\ \A f \in FadcsOf(s.rocs) : statSetup.Expected[f[1]] = 0 =>
       s.early[f] + s.late[f] = Cardinality(SlippedIn(l, f))

LEMMA MapsAre ==
  ASSUME NEW S, NEW T \in SUBSET S
  PROVE  [T -> Nat] \subseteq MapsOf(S) /\ [T -> Int] \subseteq MapsOf(S)
<1>1. [T -> Nat] \subseteq [T -> Int]
  OBVIOUS
<1> QED
  BY <1>1 DEF MapsOf

LEMMA EmptyIsNoStats == \A s : IsStats(s) => s # <<>>
<1> SUFFICES ASSUME NEW s, IsStats(s), s = <<>> PROVE FALSE
  OBVIOUS
<1>1. DOMAIN s = {}
  OBVIOUS
<1>2. "rocs" \in DOMAIN s
  BY DEF IsStats
<1> QED
  BY <1>1, <1>2

LEMMA InitStatsAre ==
  ASSUME statSetup \in StatSetups, statEvent \in StatEvents
  PROVE  IsStats(InitStats) /\ TimesAreCounted(InitStats, <<>>)
<1>1. \A r \in Rocs : ti_ttime(r) \in Int
  <2> TAKE r \in Rocs
  <2>1. statEvent.time + Base[r] \in Int
    BY StatsAssumption DEF StatEvents
  <2> QED
    BY <2>1, StatsAssumption, DivModDef DEF ti_ttime
<1>2. \A f \in StatFadcs : fadcTime(f) \in Int
  <2> TAKE f \in StatFadcs
  <2>1. f[1] \in Rocs /\ Base[f[1]] \in Int
    BY StatsAssumption
  <2>2. statEvent.time \in Int /\ statEvent.slip[f] \in Int
    BY DEF StatEvents
  <2>3. statEvent.time + Base[f[1]] + statEvent.slip[f] \in Int
    BY <2>1, <2>2
  <2> QED
    BY <2>3, StatsAssumption, DivModDef DEF fadcTime
<1>3. \A r \in Rocs : Signed(ti_ttime(r) - ti_ttime(fMasterRoc)) \in Int
  BY <1>1, MasterIsCrate, SignedIs
<1>4. \A f \in StatFadcs : Signed(fadcTime(f) - ti_ttime(fMasterRoc)) \in Int
  BY <1>1, <1>2, MasterIsCrate, SignedIs
<1>5. \A f \in StatFadcs : statSetup.Expected[f[1]] \in Int
  BY StatsAssumption DEF IsStatSetup
<1>6. statEvent.rocs \subseteq Rocs
  BY DEF StatEvents
<1>7. InitStats.offset \in [FadcsOf(statEvent.rocs) -> Int]
  BY <1>4, <1>5 DEF InitStats, FadcsOf
<1>8. InitStats.tiOffset \in [statEvent.rocs -> Int]
  BY <1>3, <1>6 DEF InitStats
<1>9. IsStats(InitStats)
  <2> DEFINE s == InitStats
  <2>1. /\ s.rocs = statEvent.rocs /\ s.tiEarly \in [s.rocs -> Nat] /\ s.tiLate \in [s.rocs -> Nat]
        /\ s.early \in [StatFadcs -> Nat] /\ s.late \in [StatFadcs -> Nat]
        /\ s.tdcOffset \in [StatTdcs -> Int] /\ s.wrong \in [StatTdcs -> Nat]
    BY DEF InitStats
  <2>2. s \in [rocs : {s.rocs}, tiOffset : {s.tiOffset}, offset : {s.offset}, tiEarly : {s.tiEarly},
              tiLate : {s.tiLate}, early : {s.early}, late : {s.late}, tdcOffset : {s.tdcOffset},
              wrong : {s.wrong}]
    BY DEF InitStats
  <2> HIDE DEF s
  <2>3. s.tiOffset \in [s.rocs -> Int] /\ s.offset \in [FadcsOf(s.rocs) -> Int]
    BY <1>7, <1>8, <2>1 DEF s
  <2>4. s.rocs \in SUBSET Rocs /\ FadcsOf(s.rocs) \in SUBSET StatFadcs
    BY <1>6, <2>1 DEF FadcsOf
  <2>5. /\ s.tiOffset \in MapsOf(Rocs) /\ s.offset \in MapsOf(StatFadcs)
        /\ s.tiEarly \in MapsOf(Rocs) /\ s.tiLate \in MapsOf(Rocs)
        /\ s.early \in MapsOf(StatFadcs) /\ s.late \in MapsOf(StatFadcs)
        /\ s.tdcOffset \in MapsOf(StatTdcs) /\ s.wrong \in MapsOf(StatTdcs)
    BY <2>1, <2>3, <2>4, MapsAre
  <2> QED
    BY <2>1, <2>2, <2>3, <2>4, <2>5 DEF IsStats, s
<1>10. \A f : SlippedIn(<<>>, f) = {}
  BY DEF SlippedIn
<1>11. TimesAreCounted(InitStats, <<>>)
  <2>1. \A f \in StatFadcs : InitStats.early[f] = 0 /\ InitStats.late[f] = 0
    BY DEF InitStats
  <2>2. \A r \in InitStats.rocs : InitStats.tiEarly[r] = 0 /\ InitStats.tiLate[r] = 0
    BY DEF InitStats
  <2>3. \A f : Cardinality(SlippedIn(<<>>, f)) = 0
    BY <1>10, FS_EmptySet
  <2> QED
    BY <2>1, <2>2, <2>3 DEF TimesAreCounted, FadcsOf
<1> QED
  BY <1>9, <1>11

LEMMA InitOffsetsAreTrue ==
  ASSUME statSetup \in StatSetups, statEvent \in StatEvents,
         \A f \in StatFadcs : statEvent.slip[f] = 0
  PROVE  OffsetsAreTrue(InitStats)
<1> DEFINE m == fMasterRoc
<1>1. m \in Rocs /\ Base[m] \in Int /\ TimeWrap \in Nat \ {0} /\ statEvent.time \in Int
  BY MasterIsCrate, StatsAssumption DEF StatEvents
<1>2. \A r \in Rocs :
        (Base[m] + Signed(ti_ttime(r) - ti_ttime(m))) % TimeWrap = Base[r] % TimeWrap
  <2> HIDE DEF m
  <2> TAKE r \in Rocs
  <2>1. Base[r] \in Int
    BY StatsAssumption
  <2>2. ti_ttime(r) \in Int /\ ti_ttime(m) \in Int
    BY <1>1, <2>1, DivModDef DEF ti_ttime
  <2>3. (Base[m] + (ti_ttime(r) - ti_ttime(m))) % TimeWrap = Base[r] % TimeWrap
    BY <1>1, <2>1, OffsetIsTrue DEF ti_ttime
  <2>4. ti_ttime(r) - ti_ttime(m) \in Int
    BY <2>2
  <2> QED
    BY <1>1, <2>3, <2>4, SignedIs
<1>3. \A f \in StatFadcs : f[1] \in Rocs /\ fadcTime(f) = ti_ttime(f[1])
  <2> TAKE f \in StatFadcs
  <2>1. f[1] \in Rocs /\ Base[f[1]] \in Int
    BY StatsAssumption
  <2>2. statEvent.time + Base[f[1]] + statEvent.slip[f] = statEvent.time + Base[f[1]]
    BY <1>1, <2>1
  <2> QED
    BY <2>1, <2>2 DEF fadcTime, ti_ttime
<1>4. \A r \in InitStats.rocs : r \in Rocs /\ InitStats.tiOffset[r] = Signed(ti_ttime(r) - ti_ttime(m))
  BY DEF InitStats, StatEvents
<1>5. \A f \in FadcsOf(InitStats.rocs) : statSetup.Expected[f[1]] = 0 =>
        f \in StatFadcs /\ InitStats.offset[f] = Signed(fadcTime(f) - ti_ttime(m))
  BY DEF InitStats, FadcsOf
<1> HIDE DEF m
<1>6. \A r \in InitStats.rocs : (Base[m] + InitStats.tiOffset[r]) % TimeWrap = Base[r] % TimeWrap
  BY <1>2, <1>4
<1>7. \A f \in FadcsOf(InitStats.rocs) : statSetup.Expected[f[1]] = 0 =>
        (Base[m] + InitStats.offset[f]) % TimeWrap = Base[f[1]] % TimeWrap
  BY <1>2, <1>3, <1>5
<1> QED
  BY <1>6, <1>7 DEF m, OffsetsAreTrue

LEMMA CountDiffIsInt ==
  ASSUME NEW s, IsStats(s), NEW t \in StatTdcs, statEvent \in StatEvents, Len(statLog) \in Nat
  PROVE  CountDiff(s, t) \in Int
<1>1. statEvent.lag[t] \in Int /\ ti_evcount \in Int /\ s.tdcOffset[t] \in Int
  BY DEF StatEvents, ti_evcount, IsStats
<1>2. ftdcEvCount(t) \in Int
  <2>1. ti_evcount - 1 - statEvent.lag[t] \in Int
    BY <1>1
  <2> QED
    BY <2>1, StatsAssumption, DivModDef DEF ftdcEvCount
<1>3. (ti_evcount % CountMask) \in Int /\ ((ftdcEvCount(t) + s.tdcOffset[t]) % CountMask) \in Int
  <2>1. ftdcEvCount(t) + s.tdcOffset[t] \in Int
    BY <1>1, <1>2
  <2>2. \A x \in Int : x % CountMask \in Int
    BY StatsAssumption, DivModDef
  <2> QED
    BY <1>1, <2>1, <2>2
<1> QED
  BY <1>3 DEF CountDiff

\* The members after an event.
LEMMA AccumulateIs ==
  ASSUME NEW s, IsStats(s), statEvent \in StatEvents, Len(statLog) \in Nat
  PROVE  LET n == AccumulateStats(s)
         IN  /\ IsStats(n)
             /\ n.rocs = s.rocs /\ n.tiOffset = s.tiOffset /\ n.offset = s.offset
             /\ \A r \in s.rocs :
                  /\ n.tiEarly[r] = s.tiEarly[r] + One(ti_ttime(r) < Expected(s.tiOffset[r]))
                  /\ n.tiLate[r] = s.tiLate[r] + One(ti_ttime(r) > Expected(s.tiOffset[r]))
             /\ \A f \in FadcsOf(s.rocs) :
                  /\ n.early[f] = s.early[f] + One(fadcTime(f) < Expected(s.offset[f]))
                  /\ n.late[f] = s.late[f] + One(fadcTime(f) > Expected(s.offset[f]))
             /\ \A t \in StatTdcs : t[1] \in s.rocs =>
                  /\ n.wrong[t] = s.wrong[t] + One(CountDiff(s, t) # 0 /\ ~Corrects(s, t))
                  /\ n.tdcOffset[t] = s.tdcOffset[t] + IF Corrects(s, t) THEN CountDiff(s, t) ELSE 0
<1> DEFINE a == [r \in s.rocs |-> s.tiEarly[r] + One(ti_ttime(r) < Expected(s.tiOffset[r]))]
           b == [r \in s.rocs |-> s.tiLate[r] + One(ti_ttime(r) > Expected(s.tiOffset[r]))]
           c == [f \in StatFadcs |-> s.early[f] + One(f[1] \in s.rocs /\ fadcTime(f) < Expected(s.offset[f]))]
           d == [f \in StatFadcs |-> s.late[f] + One(f[1] \in s.rocs /\ fadcTime(f) > Expected(s.offset[f]))]
           e == [t \in StatTdcs |->
                  s.wrong[t] + One(t[1] \in s.rocs /\ CountDiff(s, t) # 0 /\ ~Corrects(s, t))]
           g == [t \in StatTdcs |->
                  s.tdcOffset[t] + IF t[1] \in s.rocs /\ Corrects(s, t) THEN CountDiff(s, t) ELSE 0]
           n == AccumulateStats(s)
<1>1. \A x \in Nat : x + 1 \in Nat /\ x + 0 \in Nat
  OBVIOUS
<1>2. \A r \in s.rocs : s.tiEarly[r] \in Nat /\ s.tiLate[r] \in Nat
  BY DEF IsStats
<1>3. \A f \in StatFadcs : s.early[f] \in Nat /\ s.late[f] \in Nat
  BY DEF IsStats
<1>4. \A t \in StatTdcs : s.wrong[t] \in Nat /\ s.tdcOffset[t] \in Int
  BY DEF IsStats
<1>5. a \in [s.rocs -> Nat] /\ b \in [s.rocs -> Nat]
  <2>1. \A r \in s.rocs : s.tiEarly[r] + One(ti_ttime(r) < Expected(s.tiOffset[r])) \in Nat
    BY <1>1, <1>2 DEF One
  <2>2. \A r \in s.rocs : s.tiLate[r] + One(ti_ttime(r) > Expected(s.tiOffset[r])) \in Nat
    BY <1>1, <1>2 DEF One
  <2> QED
    BY <2>1, <2>2
<1>6. c \in [StatFadcs -> Nat] /\ d \in [StatFadcs -> Nat]
  <2>1. \A f \in StatFadcs :
          s.early[f] + One(f[1] \in s.rocs /\ fadcTime(f) < Expected(s.offset[f])) \in Nat
    BY <1>1, <1>3 DEF One
  <2>2. \A f \in StatFadcs :
          s.late[f] + One(f[1] \in s.rocs /\ fadcTime(f) > Expected(s.offset[f])) \in Nat
    BY <1>1, <1>3 DEF One
  <2> QED
    BY <2>1, <2>2
<1>7. e \in [StatTdcs -> Nat]
  <2>1. \A t \in StatTdcs :
          s.wrong[t] + One(t[1] \in s.rocs /\ CountDiff(s, t) # 0 /\ ~Corrects(s, t)) \in Nat
    BY <1>1, <1>4 DEF One
  <2> QED
    BY <2>1
<1>8. g \in [StatTdcs -> Int]
  BY <1>4, CountDiffIsInt
<1>9. s.rocs \in SUBSET Rocs
  BY DEF IsStats
<1>10. n = [s EXCEPT !.tiEarly = a, !.tiLate = b, !.early = c, !.late = d, !.wrong = e, !.tdcOffset = g]
  BY Zenon DEF AccumulateStats
<1>11. \A r \in s.rocs :
         /\ a[r] = s.tiEarly[r] + One(ti_ttime(r) < Expected(s.tiOffset[r]))
         /\ b[r] = s.tiLate[r] + One(ti_ttime(r) > Expected(s.tiOffset[r]))
  BY Zenon
<1>12. \A f \in FadcsOf(s.rocs) :
         /\ c[f] = s.early[f] + One(fadcTime(f) < Expected(s.offset[f]))
         /\ d[f] = s.late[f] + One(fadcTime(f) > Expected(s.offset[f]))
  BY DEF FadcsOf, One
<1>13. \A t \in StatTdcs : t[1] \in s.rocs =>
         /\ e[t] = s.wrong[t] + One(CountDiff(s, t) # 0 /\ ~Corrects(s, t))
         /\ g[t] = s.tdcOffset[t] + IF Corrects(s, t) THEN CountDiff(s, t) ELSE 0
  BY DEF One
<1> HIDE DEF a, b, c, d, e, g, n
<1>14. /\ a \in MapsOf(Rocs) /\ b \in MapsOf(Rocs)
       /\ c \in MapsOf(StatFadcs) /\ d \in MapsOf(StatFadcs)
       /\ e \in MapsOf(StatTdcs) /\ g \in MapsOf(StatTdcs)
  BY <1>5, <1>6, <1>7, <1>8, <1>9, MapsAre
<1>15. /\ n.rocs = s.rocs /\ n.tiOffset = s.tiOffset /\ n.offset = s.offset
       /\ n.tiEarly = a /\ n.tiLate = b /\ n.early = c /\ n.late = d /\ n.wrong = e /\ n.tdcOffset = g
  BY <1>10, <1>14 DEF IsStats
<1>16. IsStats(n)
  BY <1>5, <1>6, <1>7, <1>8, <1>10, <1>14, <1>15 DEF IsStats
<1> QED
  BY <1>11, <1>12, <1>13, <1>15, <1>16 DEF n

\* The events of a list with one more.
LEMMA OneEventMore ==
  ASSUME statLog \in Seq(StatEvents), statEvent \in StatEvents, NEW l, l = Append(statLog, statEvent)
  PROVE  /\ Len(statLog) \in Nat /\ Len(l) = Len(statLog) + 1 /\ l \in Seq(StatEvents)
         /\ DOMAIN statLog = 1 .. Len(statLog) /\ DOMAIN l = 1 .. Len(statLog) + 1
         /\ \A i \in 1 .. Len(statLog) : l[i] = statLog[i] /\ l[i] \in StatEvents
         /\ l[Len(statLog) + 1] = statEvent
OBVIOUS

\* A crate is in time, and an FADC exactly when it did not slip.
LEMMA TimesAre ==
  ASSUME NEW s, IsStats(s), OffsetsAreTrue(s), statEvent \in StatEvents
  PROVE  /\ \A r \in s.rocs : ti_ttime(r) = Expected(s.tiOffset[r]) /\ ti_ttime(r) \in Int
         /\ \A f \in FadcsOf(s.rocs) : statSetup.Expected[f[1]] = 0 =>
              /\ fadcTime(f) \in Int /\ Expected(s.offset[f]) \in Int
              /\ fadcTime(f) = Expected(s.offset[f]) <=> statEvent.slip[f] = 0
<1>1. /\ Base[fMasterRoc] \in Int /\ TimeWrap \in Nat \ {0} /\ statEvent.time \in Int
      /\ s.rocs \subseteq Rocs /\ \A r \in Rocs : Base[r] \in Int
  BY MasterIsCrate, StatsAssumption DEF StatEvents, IsStats
<1>2. ASSUME NEW b \in Int, NEW off \in Int, (Base[fMasterRoc] + off) % TimeWrap = b % TimeWrap
      PROVE  Expected(off) = (statEvent.time + b) % TimeWrap /\ Expected(off) \in Int
  <2>1. Expected(off) = (statEvent.time + b) % TimeWrap
    BY <1>1, <1>2, ExpectedIs
  <2>2. statEvent.time + b \in Int
    BY <1>1
  <2> QED
    BY <1>1, <2>1, <2>2, DivModDef
<1>3. ASSUME NEW r \in s.rocs
      PROVE  ti_ttime(r) = Expected(s.tiOffset[r]) /\ ti_ttime(r) \in Int
  <2>1. Base[r] \in Int /\ s.tiOffset[r] \in Int
    BY <1>1 DEF IsStats
  <2>2. (Base[fMasterRoc] + s.tiOffset[r]) % TimeWrap = Base[r] % TimeWrap
    BY DEF OffsetsAreTrue
  <2> QED
    BY <1>2, <2>1, <2>2 DEF ti_ttime
<1>4. ASSUME NEW f \in FadcsOf(s.rocs), statSetup.Expected[f[1]] = 0
      PROVE  /\ fadcTime(f) \in Int /\ Expected(s.offset[f]) \in Int
             /\ fadcTime(f) = Expected(s.offset[f]) <=> statEvent.slip[f] = 0
  <2>1. f \in StatFadcs /\ Base[f[1]] \in Int /\ s.offset[f] \in Int
    BY <1>1 DEF IsStats, FadcsOf
  <2>2. (Base[fMasterRoc] + s.offset[f]) % TimeWrap = Base[f[1]] % TimeWrap
    BY <1>4 DEF OffsetsAreTrue
  <2>3. Expected(s.offset[f]) = (statEvent.time + Base[f[1]]) % TimeWrap /\ Expected(s.offset[f]) \in Int
    BY <1>2, <2>1, <2>2
  <2>4. /\ statEvent.slip[f] \in Int /\ -TimeWrap < statEvent.slip[f] /\ statEvent.slip[f] < TimeWrap
        /\ statEvent.time + Base[f[1]] \in Int
    BY <1>1, <2>1 DEF StatEvents
  <2>5. fadcTime(f) = ((statEvent.time + Base[f[1]]) + statEvent.slip[f]) % TimeWrap /\ fadcTime(f) \in Int
    <3>1. (statEvent.time + Base[f[1]]) + statEvent.slip[f] \in Int
      BY <2>4
    <3> QED
      BY <1>1, <3>1, DivModDef DEF fadcTime
  <2> QED
    BY <1>1, <2>3, <2>4, <2>5, SlipIsSeen
<1> QED
  BY <1>3, <1>4

LEMMA TimesAreKept ==
  ASSUME NEW s, IsStats(s), OffsetsAreTrue(s), TimesAreCounted(s, statLog),
         statLog \in Seq(StatEvents), statEvent \in StatEvents
  PROVE  /\ IsStats(AccumulateStats(s)) /\ OffsetsAreTrue(AccumulateStats(s))
         /\ TimesAreCounted(AccumulateStats(s), Append(statLog, statEvent))
<1> DEFINE n == AccumulateStats(s)
           l == Append(statLog, statEvent)
<1>1. IsStats(n) /\ n.rocs = s.rocs /\ n.tiOffset = s.tiOffset /\ n.offset = s.offset
  BY AccumulateIs
<1>2. OffsetsAreTrue(n)
  BY <1>1 DEF OffsetsAreTrue
<1>3. ASSUME NEW r \in s.rocs PROVE n.tiEarly[r] = 0 /\ n.tiLate[r] = 0
  <2>1. n.tiEarly[r] = 0 + One(ti_ttime(r) < Expected(s.tiOffset[r]))
    BY AccumulateIs DEF TimesAreCounted
  <2>2. n.tiLate[r] = 0 + One(ti_ttime(r) > Expected(s.tiOffset[r]))
    BY AccumulateIs DEF TimesAreCounted
  <2>3. ~(ti_ttime(r) < Expected(s.tiOffset[r])) /\ ~(ti_ttime(r) > Expected(s.tiOffset[r]))
    BY TimesAre
  <2> QED
    BY <2>1, <2>2, <2>3 DEF One
<1>4. ASSUME NEW f \in FadcsOf(s.rocs), statSetup.Expected[f[1]] = 0
      PROVE  n.early[f] + n.late[f] = Cardinality(SlippedIn(l, f))
  <2>1. n.early[f] = s.early[f] + One(fadcTime(f) < Expected(s.offset[f]))
    BY AccumulateIs
  <2>2. n.late[f] = s.late[f] + One(fadcTime(f) > Expected(s.offset[f]))
    BY AccumulateIs
  <2>3. /\ fadcTime(f) \in Int /\ Expected(s.offset[f]) \in Int
        /\ fadcTime(f) = Expected(s.offset[f]) <=> statEvent.slip[f] = 0
    BY <1>4, TimesAre
  <2>4. s.early[f] \in Nat /\ s.late[f] \in Nat
    BY DEF IsStats, FadcsOf
  <2> DEFINE slipped == statEvent.slip[f] # 0
             S == SlippedIn(statLog, f)
             k == Len(statLog)
  <2>5. n.early[f] + n.late[f] = s.early[f] + s.late[f] + One(slipped)
    <3>1. CASE fadcTime(f) = Expected(s.offset[f])
      BY <2>1, <2>2, <2>3, <2>4, <3>1 DEF One
    <3>2. CASE fadcTime(f) < Expected(s.offset[f])
      <4>1. ~(fadcTime(f) > Expected(s.offset[f])) /\ slipped
        BY <2>3, <3>2
      <4>2. n.early[f] = s.early[f] + 1 /\ One(slipped) = 1
        BY <2>1, <3>2, <4>1 DEF One
      <4>3. n.late[f] = s.late[f] + 0
        BY <2>2, <4>1 DEF One
      <4> QED
        BY <2>4, <4>2, <4>3
    <3>3. CASE fadcTime(f) > Expected(s.offset[f])
      <4>1. ~(fadcTime(f) < Expected(s.offset[f])) /\ slipped
        BY <2>3, <3>3
      <4>2. n.early[f] = s.early[f] + 0
        BY <2>1, <4>1 DEF One
      <4>3. n.late[f] = s.late[f] + 1 /\ One(slipped) = 1
        BY <2>2, <3>3, <4>1 DEF One
      <4>4. PICK i \in Nat, j \in Nat : i = s.early[f] /\ j = s.late[f]
        BY <2>4
      <4>5. n.early[f] = i /\ n.late[f] = j + 1
        BY <4>2, <4>3, <4>4
      <4> QED
        BY <4>3, <4>4, <4>5
    <3>4. \/ fadcTime(f) = Expected(s.offset[f]) \/ fadcTime(f) < Expected(s.offset[f])
          \/ fadcTime(f) > Expected(s.offset[f])
      BY <2>3
    <3> HIDE DEF slipped
    <3> QED
      BY <3>1, <3>2, <3>3, <3>4, Zenon
  <2>6. SlippedIn(l, f) = S \union {i \in {k + 1} : slipped}
    BY OneEventMore DEF SlippedIn
  <2>7. S \in SUBSET (1 .. k) /\ k \in Nat /\ slipped \in BOOLEAN
    BY OneEventMore DEF SlippedIn
  <2>8. s.early[f] + s.late[f] = Cardinality(S)
    BY <1>4 DEF TimesAreCounted
  <2> HIDE DEF S, k, slipped
  <2>9. Cardinality(S \union {i \in {k + 1} : slipped}) = Cardinality(S) + One(slipped)
    BY <2>7, OneMore
  <2> QED
    BY <2>5, <2>6, <2>8, <2>9
<1>5. TimesAreCounted(n, l)
  <2> HIDE DEF n, l
  <2> QED
    BY <1>1, <1>3, <1>4 DEF TimesAreCounted
<1> QED
  BY <1>1, <1>2, <1>5

---------------------------------------------------------------------------
(* The counts of the TDCs.                                                 *)

LostIn(l, t, n) ==
  /\ \A i \in 1 .. n - 1 : l[i].lag[t] = 0
  /\ \A i \in n .. Len(l) : l[i].lag[t] = l[n].lag[t] /\ l[n].lag[t] # 0

\* the event before event j was a sync event
AfterSync(l, j) == j # 1 /\ l[j - 1].sync

UncorrectedIn(l, t, n) ==
  {i \in n .. Len(l) : l[n].lag[t] <= 2 \/ \A j \in n .. i : ~AfterSync(l, j)}

\* A loss of more than two events has been taken as an offset.
WasCorrected(l, t, n) == l[n].lag[t] > 2 /\ \E j \in n .. Len(l) : AfterSync(l, j)

TdcIsCounted(s, l, t) ==
  /\ (\A i \in DOMAIN l : l[i].lag[t] = 0) => s.wrong[t] = 0 /\ s.tdcOffset[t] = 1
  /\ \A n \in DOMAIN l : LostIn(l, t, n) =>
       /\ s.wrong[t] = Cardinality(UncorrectedIn(l, t, n))
       /\ s.tdcOffset[t] = IF WasCorrected(l, t, n) THEN 1 + l[n].lag[t] ELSE 1

\* A count in step with its crate's differs by what was lost and not made up for.
LEMMA CountDiffIs ==
  ASSUME NEW s, IsStats(s), NEW t \in StatTdcs, statEvent \in StatEvents, Len(statLog) \in Nat
  PROVE  /\ s.tdcOffset[t] = 1 + statEvent.lag[t] => CountDiff(s, t) = 0
         /\ /\ s.tdcOffset[t] = 1 /\ statEvent.lag[t] <= Len(statLog) + 3
            /\ Len(statLog) + 3 < CountMask
            => CountDiff(s, t) = statEvent.lag[t]
<1> DEFINE ti == Len(statLog) + 3
           lag == statEvent.lag[t]
           off == s.tdcOffset[t]
           M == CountMask
<1>1. ti \in Nat /\ lag \in Nat /\ off \in Int /\ M \in Nat \ {0}
  BY StatsAssumption DEF StatEvents, IsStats
<1>2. CountDiff(s, t) = (ti % M) - ((((ti - 1 - lag) % M) + off) % M)
  BY DEF CountDiff, ti_evcount, ftdcEvCount
<1> HIDE DEF ti, lag, off, M
<1>3. (((ti - 1 - lag) % M) + off) % M = ((ti - 1 - lag) + off) % M
  <2>1. ti - 1 - lag \in Int
    BY <1>1
  <2> QED
    BY <1>1, <2>1, ModPlus
<1>4. \A x \in Int : x % M \in Int
  BY <1>1, DivModDef
<1>5. ASSUME off = 1 + lag PROVE CountDiff(s, t) = 0
  <2>1. (ti - 1 - lag) + off = ti
    BY <1>1, <1>5
  <2> QED
    BY <1>1, <1>2, <1>3, <1>4, <2>1
<1>6. ASSUME off = 1, lag <= ti, ti < M PROVE CountDiff(s, t) = lag
  <2>1. (ti - 1 - lag) + off = ti - lag /\ ti - lag \in 0 .. M - 1 /\ ti \in 0 .. M - 1
    BY <1>1, <1>6
  <2>2. \A x \in 0 .. M - 1 : x % M = x
    <3> TAKE x \in 0 .. M - 1
    <3>1. M * 0 + x = x /\ 0 \in Int
      BY <1>1
    <3>2. (M * 0 + x) % M = x
      BY <1>1, <3>1, DivUnique
    <3> QED
      BY <3>1, <3>2
  <2> QED
    BY <1>1, <1>2, <1>3, <2>1, <2>2
<1> QED
  BY <1>5, <1>6 DEF ti, lag, off, M

LEMMA TdcIsKept ==
  ASSUME NEW s, IsStats(s), NEW t \in StatTdcs, t[1] \in s.rocs,
         statLog \in Seq(StatEvents), statEvent \in StatEvents,
         statEvent.lag[t] <= Len(statLog) + 3, Len(statLog) + 3 < CountMask,
         wassync = (statLog # <<>> /\ statLog[Len(statLog)].sync),
         TdcIsCounted(s, statLog, t),
         statLog = <<>> => s.wrong[t] = 0 /\ s.tdcOffset[t] = 1
  PROVE  TdcIsCounted(AccumulateStats(s), Append(statLog, statEvent), t)
<1> DEFINE new == AccumulateStats(s)
           k == Len(statLog)
           lag == statEvent.lag[t]
           l == Append(statLog, statEvent)
           d == CountDiff(s, t)
<1>1. /\ k \in Nat /\ Len(l) = k + 1 /\ DOMAIN statLog = 1 .. k /\ DOMAIN l = 1 .. k + 1
      /\ \A i \in 1 .. k : l[i] = statLog[i] /\ l[i] \in StatEvents
      /\ l[k + 1] = statEvent
  BY OneEventMore
<1>2. lag \in Nat /\ s.wrong[t] \in Nat /\ s.tdcOffset[t] \in Int
  BY DEF StatEvents, IsStats
<1>3. /\ new.wrong[t] = s.wrong[t] + One(d # 0 /\ ~Corrects(s, t))
      /\ new.tdcOffset[t] = s.tdcOffset[t] + IF Corrects(s, t) THEN d ELSE 0
  BY <1>1, AccumulateIs
<1>4. s.tdcOffset[t] = 1 + lag => d = 0
  BY <1>1, CountDiffIs
<1>5. s.tdcOffset[t] = 1 => d = lag
  BY <1>1, CountDiffIs
<1>6. wassync <=> AfterSync(l, k + 1)
  <2>1. CASE k = 0
    <3>1. statLog = <<>>
      BY <2>1
    <3>2. ~AfterSync(l, k + 1)
      BY <2>1 DEF AfterSync
    <3>3. ~wassync
      BY <3>1, Zenon
    <3> QED
      BY <3>2, <3>3
  <2>2. CASE k # 0
    <3>1. k \in 1 .. k /\ (k + 1) - 1 = k /\ statLog # <<>>
      BY <1>1, <2>2
    <3>2. l[(k + 1) - 1] = statLog[k]
      BY <1>1, <3>1
    <3>3. AfterSync(l, k + 1) <=> statLog[k].sync
      <4>1. k + 1 # 1
        BY <1>1, <2>2
      <4>2. AfterSync(l, k + 1) <=> l[(k + 1) - 1].sync
        BY <4>1, Zenon DEF AfterSync
      <4> QED
        BY <3>2, <4>2, Zenon
    <3>4. wassync <=> statLog[k].sync
      BY <3>1, Zenon
    <3> QED
      BY <3>3, <3>4
  <2> QED
    BY <2>1, <2>2
<1>7. \A j \in 1 .. k : AfterSync(l, j) <=> AfterSync(statLog, j)
  <2> TAKE j \in 1 .. k
  <2>1. j # 1 => l[j - 1] = statLog[j - 1]
    BY <1>1
  <2> QED
    BY <2>1 DEF AfterSync
<1>8. Corrects(s, t) <=> wassync /\ d > 2
  BY DEF Corrects
\* Nothing was lost before this event.
<1>9. (\A i \in 1 .. k : statLog[i].lag[t] = 0) => s.wrong[t] = 0 /\ s.tdcOffset[t] = 1
  BY <1>1 DEF TdcIsCounted
<1> HIDE DEF new, l, d, k, lag
<1>10. ASSUME \A i \in DOMAIN l : l[i].lag[t] = 0
       PROVE  new.wrong[t] = 0 /\ new.tdcOffset[t] = 1
  <2>1. \A i \in 1 .. k : i \in DOMAIN l /\ statLog[i] = l[i]
    BY <1>1
  <2>2. k + 1 \in DOMAIN l
    BY <1>1
  <2>3. lag = 0
    BY <1>1, <1>10, <2>2 DEF lag
  <2>4. s.wrong[t] = 0 /\ s.tdcOffset[t] = 1
    BY <1>9, <1>10, <2>1
  <2>5. d = 0
    BY <1>5, <2>3, <2>4
  <2> QED
    BY <1>3, <1>8, <2>4, <2>5 DEF One
<1>11. ASSUME NEW n \in DOMAIN l, LostIn(l, t, n)
       PROVE  /\ new.wrong[t] = Cardinality(UncorrectedIn(l, t, n))
              /\ new.tdcOffset[t] = IF WasCorrected(l, t, n) THEN 1 + l[n].lag[t] ELSE 1
  <2>1. n \in 1 .. k + 1 /\ n \in Nat
    BY <1>1
  <2>2. l[n].lag[t] = lag /\ lag # 0
    <3>1. k + 1 \in n .. Len(l)
      BY <1>1, <2>1
    <3> QED
      BY <1>1, <1>11, <3>1 DEF LostIn, lag
  <2> DEFINE fresh == lag <= 2 \/ \A j \in n .. k + 1 : ~AfterSync(l, j)
             old == IF n = k + 1 THEN {} ELSE UncorrectedIn(statLog, t, n)
  <2>3. n # k + 1 => statLog[n] = l[n] /\ n \in DOMAIN statLog
    BY <1>1, <2>1
  <2>4. UncorrectedIn(l, t, n) = old \union {i \in {k + 1} : fresh}
    <3>1. \A i \in n .. k : (\A j \in n .. i : ~AfterSync(l, j)) <=> (\A j \in n .. i : ~AfterSync(statLog, j))
      <4> TAKE i \in n .. k
      <4>1. \A j \in n .. i : j \in 1 .. k
        BY <1>1, <2>1
      <4> QED
        BY <1>7, <4>1
    <3>2. UncorrectedIn(l, t, n) = {i \in n .. k : lag <= 2 \/ \A j \in n .. i : ~AfterSync(l, j)}
                                     \union {i \in {k + 1} : fresh}
      <4>1. n .. k + 1 = (n .. k) \union {k + 1}
        BY <1>1, <2>1
      <4> QED
        BY <1>1, <2>2, <4>1 DEF UncorrectedIn
    <3>3. old = {i \in n .. k : lag <= 2 \/ \A j \in n .. i : ~AfterSync(statLog, j)}
      <4>1. CASE n = k + 1
        <5>1. n .. k = {}
          BY <1>1, <4>1
        <5> QED
          BY <4>1, <5>1
      <4>2. CASE n # k + 1
        BY <1>1, <2>2, <2>3, <4>2 DEF UncorrectedIn, k
      <4> QED
        BY <4>1, <4>2
    <3> QED
      BY <3>1, <3>2, <3>3
  <2>5. old \in SUBSET (1 .. k) /\ fresh \in BOOLEAN
    <3>1. n .. k \subseteq 1 .. k
      BY <1>1, <2>1
    <3> QED
      BY <3>1 DEF UncorrectedIn, k
  <2>6. /\ s.wrong[t] = Cardinality(old)
        /\ s.tdcOffset[t] = IF n # k + 1 /\ WasCorrected(statLog, t, n) THEN 1 + lag ELSE 1
    <3>1. CASE n = k + 1
      <4>1. \A i \in 1 .. k : i \in 1 .. n - 1 /\ statLog[i] = l[i]
        BY <1>1, <3>1
      <4>2. s.wrong[t] = 0 /\ s.tdcOffset[t] = 1
        BY <1>9, <1>11, <4>1 DEF LostIn
      <4> QED
        BY <3>1, <4>2, FS_EmptySet
    <3>2. CASE n # k + 1
      <4>1. LostIn(statLog, t, n)
        <5>1. \A i \in 1 .. n - 1 : i \in 1 .. k
          BY <1>1, <2>1, <3>2
        <5>2. \A i \in n .. Len(statLog) : i \in 1 .. k /\ i \in n .. Len(l)
          BY <1>1, <2>1 DEF k
        <5> QED
          BY <1>1, <1>11, <2>3, <3>2, <5>1, <5>2 DEF LostIn
      <4> QED
        BY <2>2, <2>3, <3>2, <4>1 DEF TdcIsCounted
    <3> QED
      BY <3>1, <3>2
  <2>7. n # k + 1 /\ WasCorrected(statLog, t, n) <=> lag > 2 /\ \E j \in n .. k : AfterSync(l, j)
    <3>1. \A j \in n .. k : j \in 1 .. k
      BY <1>1, <2>1
    <3>2. n = k + 1 => n .. k = {}
      BY <1>1
    <3> QED
      BY <1>7, <2>2, <2>3, <3>1, <3>2 DEF WasCorrected, k
  <2>8. WasCorrected(l, t, n) <=> lag > 2 /\ \E j \in n .. k + 1 : AfterSync(l, j)
    BY <1>1, <2>2 DEF WasCorrected
  <2>9. \A j \in n .. k + 1 : j \in n .. k \/ j = k + 1
    BY <1>1, <2>1
  <2>10. k + 1 \in n .. k + 1 /\ \A j \in n .. k : j \in n .. k + 1
    BY <1>1, <2>1
  <2>11. Cardinality(old \union {i \in {k + 1} : fresh}) = Cardinality(old) + One(fresh)
    <3> HIDE DEF old, fresh
    <3> QED
      BY <1>1, <2>5, OneMore
  <2> HIDE DEF old
  <2>12. CASE lag > 2 /\ \E j \in n .. k : AfterSync(l, j)
    <3>1. s.tdcOffset[t] = 1 + lag /\ d = 0
      BY <1>4, <2>6, <2>7, <2>12
    <3>2. ~fresh /\ WasCorrected(l, t, n)
      BY <1>2, <2>8, <2>10, <2>12 DEF lag
    <3>3. ~(d # 0 /\ ~Corrects(s, t)) /\ ~Corrects(s, t)
      BY <1>8, <3>1
    <3>4. new.wrong[t] = s.wrong[t] + 0 /\ new.tdcOffset[t] = (1 + lag) + 0
      BY <1>3, <3>1, <3>3 DEF One
    <3>5. One(fresh) = 0
      BY <3>2 DEF One
    <3> QED
      BY <1>2, <2>2, <2>4, <2>6, <2>11, <3>2, <3>4, <3>5 DEF lag
  <2>13. CASE ~(lag > 2 /\ \E j \in n .. k : AfterSync(l, j))
    <3>1. s.tdcOffset[t] = 1 /\ d = lag
      BY <1>5, <2>6, <2>7, <2>13
    <3>2. Corrects(s, t) <=> lag > 2 /\ AfterSync(l, k + 1)
      BY <1>6, <1>8, <3>1
    <3>3. Corrects(s, t) <=> WasCorrected(l, t, n)
      BY <2>8, <2>9, <2>10, <2>13, <3>2
    <3>4. fresh <=> ~Corrects(s, t)
      BY <1>2, <2>9, <2>10, <2>13, <3>2 DEF lag
    <3>5. d # 0
      BY <2>2, <3>1
    <3>6. new.wrong[t] = s.wrong[t] + One(fresh)
      BY <1>3, <3>4, <3>5 DEF One
    <3>7. new.tdcOffset[t] = IF Corrects(s, t) THEN 1 + lag ELSE 1
      BY <1>2, <1>3, <3>1 DEF lag
    <3> QED
      BY <2>2, <2>4, <2>6, <2>11, <3>3, <3>6, <3>7
  <2> QED
    BY <2>12, <2>13
<1> QED
  BY <1>10, <1>11 DEF TdcIsCounted, new, l

---------------------------------------------------------------------------
(* The invariant of the statistics.                                        *)

StatsInv ==
  /\ statSetup \in StatSetups /\ statLog \in Seq(StatEvents) /\ Len(statLog) <= statSetup.MaxEvents
  /\ wassync \in BOOLEAN /\ statPc \in {"read", "decoded", "crashed"}
  /\ wassync = (statLog # <<>> /\ statLog[Len(statLog)].sync)
  /\ statLog = <<>> => stats = <<>>
  /\ statLog # <<>> => IsStats(stats)
  /\ statPc = "decoded" =>
       /\ statEvent \in StatEvents /\ Len(statLog) < statSetup.MaxEvents
       /\ statLog = <<>> => \A f \in StatFadcs : statEvent.slip[f] = 0
       /\ \A t \in StatTdcs : statEvent.lag[t] <= Len(statLog) + 3

TimesInv == statPc # "crashed" /\ statLog # <<>> => OffsetsAreTrue(stats) /\ TimesAreCounted(stats, statLog)

CountsInv ==
  statPc # "crashed" /\ statLog # <<>> =>
    \A t \in StatTdcs : t[1] \in stats.rocs => TdcIsCounted(stats, statLog, t)

LEMMA InitialStats == StatsInit => StatsInv /\ TimesInv /\ CountsInv
<1> SUFFICES ASSUME StatsInit PROVE StatsInv /\ TimesInv /\ CountsInv
  OBVIOUS
<1>1. statSetup.MaxEvents \in Nat /\ statLog = <<>> /\ Len(statLog) = 0 /\ statLog \in Seq(StatEvents)
  BY StatsAssumption DEF StatsInit, IsStatSetup
<1>2. wassync = (statLog # <<>> /\ statLog[Len(statLog)].sync)
  BY Zenon DEF StatsInit
<1> QED
  BY <1>1, <1>2 DEF StatsInit, StatsInv, TimesInv, CountsInv

LEMMA EventIsTyped ==
  ASSUME StatsInv, NewEvent
  PROVE  statEvent' \in StatEvents
<1>1. PICK time \in statSetup.Times, sync \in BOOLEAN, slips \in [StatFadcs -> statSetup.Slips],
           lag \in [StatTdcs -> statSetup.Lags], missing \in SUBSET Rocs :
        statEvent' = [time |-> time, sync |-> sync, slip |-> slips, lag |-> lag, rocs |-> Rocs \ missing]
  BY DEF NewEvent
<1>2. time \in Int /\ slips \in [StatFadcs -> {n \in Int : -TimeWrap < n /\ n < TimeWrap}]
      /\ lag \in [StatTdcs -> Nat]
  BY StatsAssumption DEF IsStatSetup, StatsInv
<1> QED
  BY <1>1, <1>2 DEF StatEvents

LEMMA CountedNext ==
  \A t : TdcIsCounted(stats, statLog, t)' <=> TdcIsCounted(stats', statLog', t)
BY Zenon DEF TdcIsCounted, LostIn, UncorrectedIn, WasCorrected, AfterSync

LEMMA NewEventKeepsStats ==
  ASSUME StatsInv, NewEvent
  PROVE  StatsInv' /\ (TimesInv => TimesInv') /\ (CountsInv => CountsInv')
<1>1. UNCHANGED <<statSetup, statLog, stats, wassync>> /\ statPc = "read" /\ statPc' = "decoded"
  BY DEF NewEvent
<1>2. /\ Len(statLog) < statSetup.MaxEvents
      /\ statLog = <<>> => \A f \in StatFadcs : statEvent'.slip[f] = 0
      /\ \A t \in StatTdcs : statEvent'.lag[t] <= Len(statLog) + 3
  BY DEF NewEvent
<1>3. StatsInv'
  BY <1>1, <1>2, EventIsTyped DEF StatsInv
<1>4. OffsetsAreTrue(stats)' <=> OffsetsAreTrue(stats)
  BY <1>1 DEF OffsetsAreTrue, FadcsOf
<1>5. TimesAreCounted(stats, statLog)' <=> TimesAreCounted(stats, statLog)
  BY <1>1 DEF TimesAreCounted, FadcsOf, SlippedIn
<1>6. \A t : TdcIsCounted(stats, statLog, t)' <=> TdcIsCounted(stats, statLog, t)
  <2>1. \A t : TdcIsCounted(stats, statLog, t)' <=> TdcIsCounted(stats', statLog', t)
    BY CountedNext
  <2> QED
    BY <1>1, <2>1
<1> QED
  BY <1>1, <1>3, <1>4, <1>5, <1>6 DEF TimesInv, CountsInv

\* The statistics an event is added to, those of the first event included.
LEMMA StatsBefore ==
  ASSUME StatsInv, AnalyzeStats, NEW s, s = IF stats = <<>> THEN InitStats ELSE stats
  PROVE  /\ IsStats(s)
         /\ TimesInv => OffsetsAreTrue(s) /\ TimesAreCounted(s, statLog)
         /\ statLog = <<>> => \A t \in StatTdcs : s.wrong[t] = 0 /\ s.tdcOffset[t] = 1
         /\ statLog # <<>> => s = stats
<1>1. statPc = "decoded" /\ statEvent \in StatEvents /\ statSetup \in StatSetups
  BY DEF AnalyzeStats, StatsInv
<1>2. CASE statLog = <<>>
  <2>1. s = InitStats
    BY <1>2 DEF StatsInv
  <2>2. IsStats(s) /\ TimesAreCounted(s, statLog)
    BY <1>1, <1>2, <2>1, InitStatsAre
  <2>3. OffsetsAreTrue(s)
    BY <1>1, <1>2, <2>1, InitOffsetsAreTrue DEF StatsInv
  <2>4. \A t \in StatTdcs : s.wrong[t] = 0 /\ s.tdcOffset[t] = 1
    BY <2>1 DEF InitStats
  <2> QED
    BY <1>2, <2>2, <2>3, <2>4
<1>3. CASE statLog # <<>>
  <2>1. IsStats(stats) /\ s = stats
    BY <1>3, EmptyIsNoStats DEF StatsInv
  <2> QED
    BY <1>1, <1>3, <2>1 DEF TimesInv
<1> QED
  BY <1>2, <1>3

\* Analyze either adds the event to them or ends the program.
LEMMA AnalyzeStatsIs ==
  ASSUME StatsInv, AnalyzeStats, NEW s, s = IF stats = <<>> THEN InitStats ELSE stats
  PROVE  /\ \/ stats' = AccumulateStats(s) /\ statPc' = "read"
            \/ stats' = s /\ statPc' = "crashed"
         /\ statLog' = Append(statLog, statEvent) /\ wassync' = statEvent.sync
         /\ statSetup' = statSetup
         /\ statLog \in Seq(StatEvents) /\ statEvent \in StatEvents /\ Len(statLog) < statSetup.MaxEvents
BY DEF AnalyzeStats, StatsInv

LEMMA AnalyzeKeepsStats ==
  ASSUME StatsInv, AnalyzeStats
  PROVE  StatsInv'
<1>1. PICK s : s = IF stats = <<>> THEN InitStats ELSE stats
  OBVIOUS
<1>2. /\ Len(statLog) \in Nat /\ Len(statLog') = Len(statLog) + 1 /\ statLog' \in Seq(StatEvents)
      /\ statLog'[Len(statLog) + 1] = statEvent
  BY <1>1, AnalyzeStatsIs, OneEventMore
<1>3. statLog' # <<>> /\ statLog'[Len(statLog')] = statEvent
  BY <1>2
<1>4. wassync' = (statLog' # <<>> /\ statLog'[Len(statLog')].sync) /\ wassync' \in BOOLEAN
  <2>1. wassync' = statEvent.sync /\ statEvent.sync \in BOOLEAN
    BY <1>1, AnalyzeStatsIs DEF StatEvents
  <2> QED
    BY <1>3, <2>1, Zenon
<1>5. IsStats(stats')
  BY <1>1, <1>2, AnalyzeStatsIs, StatsBefore, AccumulateIs
<1>6. statSetup.MaxEvents \in Nat
  BY StatsAssumption DEF StatsInv, IsStatSetup
<1>7. Len(statLog') <= statSetup'.MaxEvents /\ statSetup' \in StatSetups
  BY <1>1, <1>2, <1>6, AnalyzeStatsIs DEF StatsInv
<1>8. statPc' \in {"read", "crashed"}
  BY <1>1, AnalyzeStatsIs
<1> QED
  BY <1>2, <1>3, <1>4, <1>5, <1>7, <1>8 DEF StatsInv, IsStats

LEMMA AnalyzeKeepsTimes ==
  ASSUME StatsInv, TimesInv, AnalyzeStats
  PROVE  TimesInv'
<1> SUFFICES ASSUME statPc' # "crashed"
             PROVE  OffsetsAreTrue(stats)' /\ TimesAreCounted(stats, statLog)'
  BY DEF TimesInv
<1>1. PICK s : s = IF stats = <<>> THEN InitStats ELSE stats
  OBVIOUS
<1>2. /\ stats' = AccumulateStats(s) /\ statLog' = Append(statLog, statEvent) /\ statSetup' = statSetup
      /\ statLog \in Seq(StatEvents) /\ statEvent \in StatEvents
  BY <1>1, AnalyzeStatsIs
<1>3. IsStats(s) /\ OffsetsAreTrue(s) /\ TimesAreCounted(s, statLog)
  BY <1>1, StatsBefore
<1>4. OffsetsAreTrue(stats') /\ TimesAreCounted(stats', statLog')
  BY <1>2, <1>3, TimesAreKept
<1>5. OffsetsAreTrue(stats)' <=> OffsetsAreTrue(stats')
  BY <1>2 DEF OffsetsAreTrue, FadcsOf
<1>6. TimesAreCounted(stats, statLog)' <=> TimesAreCounted(stats', statLog')
  BY <1>2 DEF TimesAreCounted, FadcsOf, SlippedIn
<1> QED
  BY <1>4, <1>5, <1>6

LEMMA AnalyzeKeepsCounts ==
  ASSUME StatsInv, CountsInv, CountsDoNotTurn, AnalyzeStats
  PROVE  CountsInv'
<1> SUFFICES ASSUME statPc' # "crashed", NEW t \in StatTdcs, t[1] \in stats'.rocs
             PROVE  TdcIsCounted(stats, statLog, t)'
  BY Zenon DEF CountsInv
<1>1. PICK s : s = IF stats = <<>> THEN InitStats ELSE stats
  OBVIOUS
<1>2. /\ stats' = AccumulateStats(s) /\ statLog' = Append(statLog, statEvent)
      /\ statLog \in Seq(StatEvents) /\ statEvent \in StatEvents /\ Len(statLog) < statSetup.MaxEvents
  BY <1>1, AnalyzeStatsIs
<1>3. /\ IsStats(s)
      /\ statLog = <<>> => s.wrong[t] = 0 /\ s.tdcOffset[t] = 1
      /\ statLog # <<>> => s = stats
  BY <1>1, StatsBefore
<1>4. Len(statLog) \in Nat
  BY <1>2
<1>5. stats'.rocs = s.rocs
  BY <1>2, <1>3, <1>4, AccumulateIs
<1>6. statPc = "decoded" /\ statEvent.lag[t] <= Len(statLog) + 3
  BY DEF AnalyzeStats, StatsInv
<1>7. Len(statLog) + 3 < CountMask
  <2>1. statSetup \in StatSetups /\ statSetup.MaxEvents \in Nat
    BY StatsAssumption DEF StatsInv, IsStatSetup
  <2>2. statSetup.MaxEvents + 2 < CountMask
    BY <2>1 DEF CountsDoNotTurn
  <2> QED
    BY <1>2, <1>4, <2>1, <2>2, StatsAssumption
<1>8. TdcIsCounted(s, statLog, t)
  <2>1. CASE statLog = <<>>
    BY <1>3, <2>1 DEF TdcIsCounted
  <2>2. CASE statLog # <<>>
    BY <1>3, <1>5, <1>6, <2>2 DEF CountsInv
  <2> QED
    BY <2>1, <2>2
<1>9. wassync = (statLog # <<>> /\ statLog[Len(statLog)].sync)
  BY Zenon DEF StatsInv
<1>10. TdcIsCounted(stats', statLog', t)
  BY <1>2, <1>3, <1>5, <1>6, <1>7, <1>8, <1>9, TdcIsKept
<1>11. TdcIsCounted(stats, statLog, t)' <=> TdcIsCounted(stats', statLog', t)
  BY CountedNext
<1> QED
  BY <1>10, <1>11

LEMMA StutterKeepsStats ==
  ASSUME UNCHANGED statVars
  PROVE  (StatsInv => StatsInv') /\ (TimesInv => TimesInv') /\ (CountsInv => CountsInv')
<1>1. UNCHANGED <<statSetup, statLog, statEvent, stats, wassync, statPc>>
  BY DEF statVars
<1>2. StatsInv => StatsInv'
  BY <1>1 DEF StatsInv
<1>3. OffsetsAreTrue(stats)' <=> OffsetsAreTrue(stats)
  BY <1>1 DEF OffsetsAreTrue, FadcsOf
<1>4. TimesAreCounted(stats, statLog)' <=> TimesAreCounted(stats, statLog)
  BY <1>1 DEF TimesAreCounted, FadcsOf, SlippedIn
<1>5. \A t : TdcIsCounted(stats, statLog, t)' <=> TdcIsCounted(stats, statLog, t)
  <2>1. \A t : TdcIsCounted(stats, statLog, t)' <=> TdcIsCounted(stats', statLog', t)
    BY CountedNext
  <2> QED
    BY <1>1, <2>1
<1> QED
  BY <1>1, <1>2, <1>3, <1>4, <1>5 DEF TimesInv, CountsInv

LEMMA StatsKept == StatsSpec => []StatsInv
<1>1. StatsInit => StatsInv
  BY InitialStats
<1>2. StatsInv /\ [StatsNext]_statVars => StatsInv'
  BY NewEventKeepsStats, AnalyzeKeepsStats, StutterKeepsStats DEF StatsNext
<1> QED
  BY <1>1, <1>2, PTL DEF StatsSpec

LEMMA TimesKept == StatsSpec => []TimesInv
<1>1. StatsInit => TimesInv
  BY InitialStats
<1>2. StatsInv /\ TimesInv /\ [StatsNext]_statVars => TimesInv'
  BY NewEventKeepsStats, AnalyzeKeepsTimes, StutterKeepsStats DEF StatsNext
<1> QED
  BY <1>1, <1>2, StatsKept, PTL DEF StatsSpec

\* The words of time: an FADC is counted in the events in which it slipped, whenever the
\* words roll over, and no crate is.
LEMMA TimesAreThose ==
  ASSUME StatsInv, TimesInv, statPc = "read", statLog # <<>>
  PROVE  FadcsAreCounted /\ CratesAreRight
<1>1. IsStats(stats) /\ TimesAreCounted(stats, statLog)
  BY DEF StatsInv, TimesInv
<1>2. DOMAIN stats.offset = FadcsOf(stats.rocs)
  BY <1>1 DEF IsStats
<1>3. \A f : Slipped(f) = SlippedIn(statLog, f)
  BY DEF Slipped, SlippedIn
<1> QED
  BY <1>1, <1>2, <1>3 DEF FadcsAreCounted, CratesAreRight, TimesAreCounted

LEMMA CountsAreThose ==
  ASSUME CountsInv, statPc = "read", statLog # <<>>
  PROVE  TdcsAreCounted
<1>1. \A t, n : LostAt(t, n) <=> LostIn(statLog, t, n)
  BY Zenon DEF LostAt, LostIn
<1>2. \A t, n : Uncorrected(t, n) = UncorrectedIn(statLog, t, n)
  <2>1. \A j : ~AfterSync(statLog, j) <=> j = 1 \/ ~statLog[j - 1].sync
    BY Zenon DEF AfterSync
  <2> QED
    BY <2>1 DEF Uncorrected, UncorrectedIn
<1>3. \A t \in StatTdcs : t[1] \in stats.rocs => TdcIsCounted(stats, statLog, t)
  BY DEF CountsInv
<1> QED
  BY <1>1, <1>2, <1>3 DEF TdcsAreCounted, TdcIsCounted

\* The statistics are typed and the counts are natural.
THEOREM StatsTypes == StatsSpec => []StatsTypeInvariant
<1>1. StatsInv => StatsTypeInvariant
  <2> SUFFICES ASSUME StatsInv, stats # <<>>, NEW f \in StatFadcs
               PROVE  stats.early[f] \in Nat /\ stats.late[f] \in Nat
    BY DEF StatsInv, StatsTypeInvariant
  <2> QED
    BY DEF StatsInv, IsStats
<1> QED
  BY <1>1, StatsKept, PTL

\* Of the FADCs and the crates, for files of any length.
THEOREM TimeSlipsAreCounted ==
  StatsSpec => [](statPc = "read" /\ statLog # <<>> => FadcsAreCounted /\ CratesAreRight)
<1>1. StatsInv /\ TimesInv => (statPc = "read" /\ statLog # <<>> => FadcsAreCounted /\ CratesAreRight)
  BY TimesAreThose
<1> QED
  BY <1>1, StatsKept, TimesKept, PTL

\* Of the TDCs too, for files in which their counts do not turn over: every slip is counted,
\* and no other event (THcTimeSyncEvtHandler::AccumulateStats).
THEOREM StatisticsAreTrue ==
  ASSUME CountsDoNotTurn
  PROVE  StatsSpec => []SlipsAreCounted
<1>1. StatsInit => CountsInv
  BY InitialStats
<1>2. StatsInv /\ CountsInv /\ [StatsNext]_statVars => CountsInv'
  BY NewEventKeepsStats, AnalyzeKeepsCounts, StutterKeepsStats DEF StatsNext
<1>3. StatsInv /\ TimesInv /\ CountsInv => SlipsAreCounted
  BY TimesAreThose, CountsAreThose DEF SlipsAreCounted
<1> QED
  BY <1>1, <1>2, <1>3, StatsKept, TimesKept, PTL DEF StatsSpec
=============================================================================
