----------------------- MODULE ScalerEvtHandlerProofs -----------------------
(***************************************************************************)
(* Time, counts and charges of the scalers, for every width of a word and  *)
(* every threshold, over any number of reads and of rollovers.             *)
(***************************************************************************)
EXTENDS ScalerEvtHandler, NatLemmas

Before(a, b) == a.clock <= b.clock /\ a.count <= b.count
Within(a, b) == b.clock - a.clock < Turn /\ b.count - a.count < Turn

\* The reads of the file: each is behind those before it, and none is a turn of a word
\* ahead of the last one analysed.
FileInOrder ==
  /\ now \in Values /\ seen \in Values /\ delayed \in Seq(Values)
  /\ Before(seen, now) /\ Within(seen, now)
  /\ \A i \in DOMAIN delayed : Before(now, delayed[i]) /\ Within(seen, delayed[i])
  /\ \A i, j \in DOMAIN delayed : i <= j => Before(delayed[i], delayed[j])

\* The members, also of a handler that reads words that are not there: the time never
\* goes back.
HandlerTypes ==
  /\ unmeasured \in Nat /\ ended \in BOOLEAN /\ sc \in Handler
  /\ sc.fTotalTime = sc.fLastClock + sc.fClockOverflows * Turn

\* The last words and the rollovers make up what the scalers held at the last read.
RolloversAreCounted ==
  /\ sc.fLastClock = seen.clock % Turn /\ sc.fClockOverflows = seen.clock \div Turn
  /\ sc.scal_prev_read = seen.count % Turn /\ sc.scal_overflows = seen.count \div Turn
  /\ sc.dvars_prev_read = seen.count % Turn
  /\ sc.evcount = 0 => seen.count = 0

TypesInv == FileInOrder /\ HandlerTypes
TotalsInv == RolloversAreCounted /\ TotalsAreTrue

---------------------------------------------------------------------------
(* The stages of AnalyzeBuffer.                                            *)

\* A word that is less than a turn behind has rolled over if it is smaller, and else not.
LEMMA RollsOverOnce ==
  ASSUME NEW a \in Nat, NEW b \in Nat, a <= b, b - a < Turn
  PROVE  /\ b \div Turn = IF b % Turn < a % Turn THEN (a \div Turn) + 1 ELSE a \div Turn
         /\ (b % Turn) + (b \div Turn) * Turn = b
         /\ Diff(b % Turn, a % Turn) = b - a
<1>1. Turn \in Nat \ {0}
  BY ScalerAssumption
<1>2. PICK q \in Int, r \in 0 .. Turn - 1 :
        a = Turn * q + r /\ q = a \div Turn /\ r = a % Turn
  BY <1>1, DivModDef
<1>3. PICK p \in Int, s \in 0 .. Turn - 1 :
        b = Turn * p + s /\ p = b \div Turn /\ s = b % Turn
  BY <1>1, DivModDef
<1>4. PICK x \in Int, y \in Int : x = Turn * q /\ y = Turn * p
  BY <1>1
<1>5. a = x + r /\ b = y + s
  BY <1>2, <1>3, <1>4
<1>6. p = IF s < r THEN q + 1 ELSE q
  <2>1. q + 1 <= p => x + Turn <= y
    BY <1>1, <1>4, ProductOrder
  <2>2. p + 1 <= q => y + Turn <= x
    BY <1>1, <1>4, ProductOrder
  <2>3. (q + 1) + 1 <= p => Turn * (q + 1) + Turn <= y
    BY <1>1, <1>4, ProductOrder
  <2>4. Turn * (q + 1) = x + Turn
    BY <1>1, <1>4
  <2>5. p = q => x = y
    BY <1>4
  <2>6. p = q + 1 => y = x + Turn
    BY <1>4, <2>4
  <2> QED
    BY <1>1, <1>5, <2>1, <2>2, <2>3, <2>4, <2>5, <2>6
<1>7. IF s < r THEN y = x + Turn ELSE y = x
  <2>1. Turn * (q + 1) = x + Turn
    BY <1>1, <1>4
  <2> QED
    BY <1>4, <1>6, <2>1
<1>8. Diff(s, r) = b - a
  BY <1>1, <1>5, <1>7 DEF Diff
<1>9. s + p * Turn = b
  BY <1>1, <1>4, <1>5
<1> QED
  BY <1>2, <1>3, <1>6, <1>8, <1>9

LEMMA AboveIsBoolean ==
  \A charge, delta \in Nat : \E above \in BOOLEAN : above = (charge > Threshold * delta)
<1> TAKE charge, delta \in Nat
<1>1. CASE charge > Threshold * delta
  <2>1. TRUE = (charge > Threshold * delta)
    BY <1>1
  <2> QED
    BY <2>1
<1>2. CASE ~(charge > Threshold * delta)
  <2>1. FALSE = (charge > Threshold * delta)
    BY <1>2
  <2> QED
    BY <2>1
<1> QED
  BY <1>1, <1>2

LEMMA DiffType ==
  ASSUME NEW w \in 0 .. Turn - 1, NEW p \in 0 .. Turn - 1
  PROVE  Diff(w, p) \in Nat
BY ScalerAssumption DEF Diff

LEMMA ChargeIsTyped ==
  \A n \in Handler, delta, charge \in Nat, above \in BOOLEAN :
    [n EXCEPT !.fBCM_delta_charge = delta, !.charge = charge, !.above = above] \in Handler
BY DEF Handler

\* What a read makes of its words: rollovers and time of the clock, time since the last
\* read, rollovers of the channel, and charge.
Measures(s, w, over, total, delta, turns, charge) ==
  /\ over = IF w.clock < s.fLastClock THEN s.fClockOverflows + 1 ELSE s.fClockOverflows
  /\ total = w.clock + over * Turn
  /\ delta = total - s.fTotalTime
  /\ turns = IF s.evcount > 0 /\ w.count < s.scal_prev_read
             THEN s.scal_overflows + 1 ELSE s.scal_overflows
  /\ charge = IF delta > 0 THEN Diff(w.count, s.scal_prev_read) ELSE 0

\* The members the read leaves.
Leaves(d, s, w, over, total, delta, turns, charge) ==
  /\ d.evcount = s.evcount + 1
  /\ d.fClockOverflows = over /\ d.fLastClock = w.clock /\ d.fTotalTime = total
  /\ d.scal_overflows = turns /\ d.count = w.count + turns * Turn
  /\ d.scal_prev_read = w.count /\ d.dvars_prev_read = w.count
  /\ d.charge = s.charge + charge
  /\ d.cutCount = IF charge > Threshold * delta
                  THEN s.cutCount + Diff(w.count, s.dvars_prev_read) ELSE s.cutCount
  /\ d.cutCharge = IF charge > Threshold * delta THEN s.cutCharge + charge ELSE s.cutCharge

\* AnalyzeBuffer after a clock that has not gone back: the members it leaves.
LEMMA BufferIs ==
  ASSUME NEW s \in Handler,
         NEW w \in [clock : 0 .. Turn - 1, count : 0 .. Turn - 1],
         NEW over \in Nat, NEW total \in Nat, NEW delta \in Nat, NEW turns \in Nat,
         NEW charge \in Nat,
         Measures(s, w, over, total, delta, turns, charge)
  PROVE  /\ AnalyzeBuffer(s, w) \in Handler
         /\ Leaves(AnalyzeBuffer(s, w), s, w, over, total, delta, turns, charge)
<1>1. Turn \in Nat \ {0} /\ w.clock \in 0 .. Turn - 1 /\ w.count \in 0 .. Turn - 1
  BY ScalerAssumption
<1> USE DEF Measures
<1>2. PICK c : c = ReadClock(s, w)
  OBVIOUS
<1>3. c = [s EXCEPT !.fClockOverflows = over, !.fLastClock = w.clock,
                    !.fTotalTime = total, !.fDeltaTime = delta]
  BY <1>2 DEF ReadClock
<1>4. /\ c \in Handler
      /\ c.fClockOverflows = over /\ c.fLastClock = w.clock /\ c.fTotalTime = total
      /\ c.fDeltaTime = delta
      /\ c.evcount = s.evcount /\ c.scal_prev_read = s.scal_prev_read
      /\ c.scal_overflows = s.scal_overflows /\ c.dvars_prev_read = s.dvars_prev_read
      /\ c.charge = s.charge /\ c.cutCount = s.cutCount /\ c.cutCharge = s.cutCharge
  <2>1. /\ over \in Nat /\ w.clock \in 0 .. Turn - 1 /\ total \in Nat /\ delta \in Nat \union {-1}
    BY <1>1
  <2> USE <1>3 DEF Handler
  <2> HIDE DEF Measures
  <2>2. c \in Handler
    BY <2>1
  <2>3. /\ c.fClockOverflows = over /\ c.fLastClock = w.clock /\ c.fTotalTime = total
        /\ c.fDeltaTime = delta
    OBVIOUS
  <2>4. /\ c.evcount = s.evcount /\ c.scal_prev_read = s.scal_prev_read
        /\ c.scal_overflows = s.scal_overflows /\ c.dvars_prev_read = s.dvars_prev_read
        /\ c.charge = s.charge /\ c.cutCount = s.cutCount /\ c.cutCharge = s.cutCharge
    OBVIOUS
  <2> QED
    BY <2>2, <2>3, <2>4
<1>5. PICK count \in Nat : count = w.count + turns * Turn
  BY <1>1
<1>6. PICK n : n = ReadCount(c, w)
  OBVIOUS
<1>7. n = [c EXCEPT !.scal_overflows = turns, !.count = count]
  BY <1>4, <1>5, <1>6 DEF ReadCount
<1>8. /\ n \in Handler
      /\ n.scal_overflows = turns /\ n.count = count
      /\ n.fClockOverflows = c.fClockOverflows /\ n.fLastClock = c.fLastClock
      /\ n.fTotalTime = c.fTotalTime /\ n.fDeltaTime = c.fDeltaTime
      /\ n.evcount = c.evcount /\ n.scal_prev_read = c.scal_prev_read
      /\ n.dvars_prev_read = c.dvars_prev_read /\ n.charge = c.charge
      /\ n.cutCount = c.cutCount /\ n.cutCharge = c.cutCharge
  BY <1>4, <1>7 DEF Handler
<1>9. PICK above \in BOOLEAN : above = (charge > Threshold * delta)
  BY AboveIsBoolean
<1>10. PICK sum \in Nat : sum = s.charge + charge
  BY DEF Handler
<1>11. PICK q : q = ReadCharge(n, w)
  OBVIOUS
<1>12. q = [n EXCEPT !.fBCM_delta_charge = charge, !.charge = sum, !.above = above]
  BY <1>4, <1>8, <1>9, <1>10, <1>11 DEF ReadCharge
<1>13. /\ q \in Handler /\ q.above = above /\ q.fBCM_delta_charge = charge
       /\ q.fDeltaTime = n.fDeltaTime /\ q.dvars_prev_read = n.dvars_prev_read
       /\ q.cutCount = n.cutCount /\ q.cutCharge = n.cutCharge
       /\ q.evcount = n.evcount /\ q.fClockOverflows = n.fClockOverflows
       /\ q.fLastClock = n.fLastClock /\ q.fTotalTime = n.fTotalTime
       /\ q.scal_overflows = n.scal_overflows /\ q.count = n.count /\ q.charge = sum
  <2>1. q \in Handler
    BY <1>8, <1>12, ChargeIsTyped, Zenon
  <2>2. q.above = above
    BY <1>8, <1>12, Zenon DEF Handler
  <2>3. /\ q.fBCM_delta_charge = charge
        /\ q.fDeltaTime = n.fDeltaTime /\ q.dvars_prev_read = n.dvars_prev_read
        /\ q.cutCount = n.cutCount /\ q.cutCharge = n.cutCharge
        /\ q.evcount = n.evcount /\ q.fClockOverflows = n.fClockOverflows
        /\ q.fLastClock = n.fLastClock /\ q.fTotalTime = n.fTotalTime
        /\ q.scal_overflows = n.scal_overflows /\ q.count = n.count /\ q.charge = sum
    BY <1>8, <1>12 DEF Handler
  <2> QED
    BY <2>1, <2>2, <2>3
<1>14. /\ q.fDeltaTime = delta /\ q.dvars_prev_read = s.dvars_prev_read
       /\ q.cutCount = s.cutCount /\ q.cutCharge = s.cutCharge
  BY <1>4, <1>8, <1>13
<1>15. PICK diff \in Nat : diff = Diff(w.count, s.dvars_prev_read)
  BY <1>1, DiffType DEF Handler
<1>16. PICK cutCount \in Nat, cutCharge \in Nat, cutTime \in Nat :
         /\ cutCount = IF above THEN s.cutCount + diff ELSE s.cutCount
         /\ cutCharge = IF above THEN s.cutCharge + charge ELSE s.cutCharge
         /\ cutTime = IF above THEN q.cutTime + delta ELSE q.cutTime
  <2>1. s.cutCount \in Nat /\ s.cutCharge \in Nat /\ q.cutTime \in Nat
    BY <1>13 DEF Handler
  <2>2. /\ (IF above THEN s.cutCount + diff ELSE s.cutCount) \in Nat
        /\ (IF above THEN s.cutCharge + charge ELSE s.cutCharge) \in Nat
        /\ (IF above THEN q.cutTime + delta ELSE q.cutTime) \in Nat
    BY <2>1
  <2> QED
    BY <2>2
<1>17. PICK d : d = AnalyzeBuffer(s, w)
  OBVIOUS
<1>18. d = [AddCut(q, w) EXCEPT !.scal_prev_read = w.count, !.evcount = @ + 1]
  BY <1>2, <1>6, <1>11, <1>17 DEF AnalyzeBuffer
<1>19. AddCut(q, w) = [q EXCEPT !.cutCount = cutCount, !.dvars_prev_read = w.count,
                                !.cutCharge = cutCharge, !.cutTime = cutTime]
  BY <1>13, <1>14, <1>15, <1>16 DEF AddCut
<1>20. PICK reads \in Nat : reads = q.evcount + 1
  BY <1>13 DEF Handler
<1>21. d = [q EXCEPT !.cutCount = cutCount, !.dvars_prev_read = w.count,
                     !.cutCharge = cutCharge, !.cutTime = cutTime,
                     !.scal_prev_read = w.count, !.evcount = reads]
  BY <1>13, <1>18, <1>19, <1>20 DEF Handler
<1>22. /\ d \in Handler
       /\ d.cutCount = cutCount /\ d.cutCharge = cutCharge /\ d.dvars_prev_read = w.count
       /\ d.scal_prev_read = w.count /\ d.evcount = reads
       /\ d.fClockOverflows = q.fClockOverflows /\ d.fLastClock = q.fLastClock
       /\ d.fTotalTime = q.fTotalTime /\ d.scal_overflows = q.scal_overflows
       /\ d.count = q.count /\ d.charge = q.charge
  BY <1>1, <1>13, <1>21 DEF Handler
<1> QED
  BY <1>4, <1>5, <1>8, <1>10, <1>13, <1>15, <1>16, <1>17, <1>20, <1>22, <1>9 DEF Leaves

---------------------------------------------------------------------------
(* A read, and the file.                                                   *)

LEMMA WordsType ==
  ASSUME NEW v \in Values, NEW lacking
  PROVE  Words(v, lacking) \in [clock : 0 .. Turn - 1, count : 0 .. Turn - 1]
<1>1. Turn \in Nat \ {0} /\ 0 \in 0 .. Turn - 1
  BY ScalerAssumption
<1>2. v.clock \in Int /\ v.count \in Int
  BY DEF Values
<1>3. v.clock % Turn \in 0 .. Turn - 1 /\ v.count % Turn \in 0 .. Turn - 1
  BY <1>1, <1>2, DivModDef
<1> QED
  BY <1>1, <1>3 DEF Words

\* A read keeps the types, whatever is missing from it.
LEMMA TakeTypes ==
  ASSUME HandlerTypes, seen \in Values,
         NEW v \in Values, Before(seen, v), NEW lacking, Take(sc, v, lacking), ended' \in BOOLEAN
  PROVE  HandlerTypes'
<1>1. Turn \in Nat \ {0} /\ Threshold \in Nat
  BY ScalerAssumption
<1>2. PICK w \in [clock : 0 .. Turn - 1, count : 0 .. Turn - 1] : w = Words(v, lacking)
  BY WordsType
<1>3. w.clock \in 0 .. Turn - 1 /\ w.count \in 0 .. Turn - 1
  OBVIOUS
<1>4. /\ sc.fTotalTime \in Nat /\ sc.fLastClock \in 0 .. Turn - 1 /\ sc.fClockOverflows \in Nat
      /\ sc.scal_overflows \in Nat /\ sc.scal_prev_read \in 0 .. Turn - 1
      /\ sc.fTotalTime = sc.fLastClock + (sc.fClockOverflows * Turn)
      /\ sc \in Handler
  BY DEF HandlerTypes, Handler
<1>5. PICK over \in Nat : over = IF w.clock < sc.fLastClock THEN sc.fClockOverflows + 1
                                 ELSE sc.fClockOverflows
  BY <1>4
<1>6. PICK x \in Nat, y \in Nat : x = over * Turn /\ y = sc.fClockOverflows * Turn
  <2>1. over * Turn \in Nat /\ sc.fClockOverflows * Turn \in Nat
    BY <1>1, <1>4
  <2> QED
    BY <2>1
<1>7. x = IF w.clock < sc.fLastClock THEN y + Turn ELSE y
  <2>1. (sc.fClockOverflows + 1) * Turn = y + Turn
    BY <1>1, <1>4, <1>6
  <2> QED
    BY <1>5, <1>6, <2>1
<1>8. PICK total \in Nat, delta \in Nat : total = w.clock + x /\ delta = total - sc.fTotalTime
  BY <1>1, <1>3, <1>4, <1>6, <1>7
<1>9. PICK turns \in Nat : turns = IF sc.evcount > 0 /\ w.count < sc.scal_prev_read
                                   THEN sc.scal_overflows + 1 ELSE sc.scal_overflows
  BY <1>4
<1>10. PICK charge \in Nat :
         charge = IF delta > 0 THEN Diff(w.count, sc.scal_prev_read) ELSE 0
  <2>1. Diff(w.count, sc.scal_prev_read) \in Nat
    BY <1>3, <1>4, DiffType
  <2> QED
    BY <2>1
<1>12. total = w.clock + over * Turn
  BY <1>6, <1>8
<1>13. PICK d \in Handler :
         d = AnalyzeBuffer(sc, w) /\ Leaves(d, sc, w, over, total, delta, turns, charge)
  <2>1. Measures(sc, w, over, total, delta, turns, charge)
    BY <1>5, <1>8, <1>9, <1>10, <1>12 DEF Measures
  <2>2. /\ AnalyzeBuffer(sc, w) \in Handler
        /\ Leaves(AnalyzeBuffer(sc, w), sc, w, over, total, delta, turns, charge)
    BY <1>4, <2>1, BufferIs, Zenon
  <2> QED
    BY <2>2, Zenon
<1>14. sc' = AnalyzeBuffer(sc, w) /\ unmeasured' \in Nat
  <2>1. (IF v.clock = seen.clock THEN v.count - seen.count ELSE 0) \in Nat
    BY DEF Values, Before
  <2> QED
    BY <1>2, <2>1 DEF Take, HandlerTypes
<1> QED
  BY <1>12, <1>13, <1>14 DEF HandlerTypes, Leaves

\* A read that has all its words brings time, counts and charge up to what it holds.
LEMMA TakeCounts ==
  ASSUME HandlerTypes, TotalsInv, seen \in Values,
         NEW v \in Values, Before(seen, v), Within(seen, v), Take(sc, v, "nothing")
  PROVE  TotalsInv'
<1>1. Turn \in Nat \ {0} /\ Threshold \in Nat
  BY ScalerAssumption
<1>2. PICK w \in [clock : 0 .. Turn - 1, count : 0 .. Turn - 1] :
        w = Words(v, "nothing") /\ w.clock = v.clock % Turn /\ w.count = v.count % Turn
  <2>1. /\ Words(v, "nothing").clock = v.clock % Turn
        /\ Words(v, "nothing").count = v.count % Turn
    BY DEF Words
  <2> QED
    BY <2>1, WordsType
<1>3. /\ sc \in Handler /\ sc.evcount \in Nat
      /\ sc.fLastClock = seen.clock % Turn /\ sc.fClockOverflows = seen.clock \div Turn
      /\ sc.scal_prev_read = seen.count % Turn /\ sc.scal_overflows = seen.count \div Turn
      /\ sc.dvars_prev_read = seen.count % Turn /\ (sc.evcount = 0 => seen.count = 0)
      /\ sc.fTotalTime = seen.clock /\ sc.charge + unmeasured = seen.count
      /\ sc.cutCharge = sc.cutCount /\ sc.charge \in Nat /\ unmeasured \in Nat
      /\ sc.cutCount \in Nat
  BY DEF HandlerTypes, Handler, TotalsInv, RolloversAreCounted, TotalsAreTrue
<1>4. /\ v.clock \in Nat /\ v.count \in Nat /\ seen.clock \in Nat /\ seen.count \in Nat
      /\ seen.clock <= v.clock /\ seen.count <= v.count
      /\ v.clock - seen.clock < Turn /\ v.count - seen.count < Turn
  BY DEF Values, Before, Within
<1>5. PICK over \in Nat, turns \in Nat : over = v.clock \div Turn /\ turns = v.count \div Turn
  <2>0. v.clock \in Int /\ v.count \in Int
    BY <1>4
  <2>1. v.clock \div Turn \in Int /\ v.count \div Turn \in Int
    BY <1>1, <2>0, DivModDef
  <2>2. v.clock \div Turn >= 0 /\ v.count \div Turn >= 0
    BY <1>1, <1>4
  <2> QED
    BY <2>1, <2>2
<1>6. /\ over = IF w.clock < sc.fLastClock THEN sc.fClockOverflows + 1 ELSE sc.fClockOverflows
      /\ w.clock + over * Turn = v.clock
  BY <1>2, <1>3, <1>4, <1>5, RollsOverOnce
<1>7. /\ turns = IF w.count < sc.scal_prev_read THEN sc.scal_overflows + 1 ELSE sc.scal_overflows
      /\ w.count + turns * Turn = v.count
      /\ Diff(w.count, sc.scal_prev_read) = v.count - seen.count
  BY <1>2, <1>3, <1>4, <1>5, RollsOverOnce
<1>8. turns = IF sc.evcount > 0 /\ w.count < sc.scal_prev_read
              THEN sc.scal_overflows + 1 ELSE sc.scal_overflows
  <2>1. sc.evcount = 0 => ~(w.count < sc.scal_prev_read)
    <3>1. w.count \in 0 .. Turn - 1 /\ 0 % Turn = 0
      BY <1>1
    <3> QED
      BY <1>1, <1>3, <3>1
  <2> QED
    BY <1>3, <1>7, <2>1
<1>9. PICK delta \in Nat, charge \in Nat :
        /\ delta = v.clock - seen.clock
        /\ charge = IF delta > 0 THEN Diff(w.count, sc.scal_prev_read) ELSE 0
  BY <1>4, <1>7
<1>11. delta = v.clock - sc.fTotalTime /\ v.clock = w.clock + over * Turn
  BY <1>3, <1>6, <1>9
<1>12. PICK d \in Handler :
         d = AnalyzeBuffer(sc, w) /\ Leaves(d, sc, w, over, v.clock, delta, turns, charge)
  <2>1. Measures(sc, w, over, v.clock, delta, turns, charge)
    BY <1>6, <1>8, <1>9, <1>11 DEF Measures
  <2>2. /\ AnalyzeBuffer(sc, w) \in Handler
        /\ Leaves(AnalyzeBuffer(sc, w), sc, w, over, v.clock, delta, turns, charge)
    BY <1>3, <1>4, <2>1, BufferIs, Zenon
  <2> QED
    BY <2>2, Zenon
<1>13. /\ d.evcount = sc.evcount + 1
       /\ d.fClockOverflows = over /\ d.fLastClock = w.clock /\ d.fTotalTime = v.clock
       /\ d.scal_overflows = turns /\ d.count = w.count + turns * Turn
       /\ d.scal_prev_read = w.count /\ d.dvars_prev_read = w.count
       /\ d.charge = sc.charge + charge
       /\ d.cutCount = IF charge > Threshold * delta THEN sc.cutCount + Diff(w.count, sc.dvars_prev_read)
                       ELSE sc.cutCount
       /\ d.cutCharge = IF charge > Threshold * delta THEN sc.cutCharge + charge
                        ELSE sc.cutCharge
  BY <1>12 DEF Leaves
<1>14. charge > Threshold * delta => delta > 0
  <2>1. delta = 0 => charge = 0 /\ Threshold * delta = 0
    BY <1>1, <1>9
  <2> QED
    BY <2>1
<1>15. d.cutCharge = d.cutCount
  BY <1>3, <1>9, <1>13, <1>14
<1>16. /\ seen' = v /\ sc' = d
       /\ unmeasured' = unmeasured + IF v.clock = seen.clock THEN v.count - seen.count ELSE 0
  BY <1>2, <1>12 DEF Take
<1>17. sc'.charge + unmeasured' = v.count
  <2>1. sc'.charge = sc.charge + charge
    BY <1>13, <1>16
  <2>2. CASE delta > 0
    <3>1. unmeasured' = unmeasured /\ charge = v.count - seen.count
      BY <1>3, <1>4, <1>7, <1>9, <1>16, <2>2
    <3> QED
      BY <1>3, <1>4, <2>1, <3>1
  <2>3. CASE delta = 0
    <3>1. unmeasured' = unmeasured + (v.count - seen.count) /\ charge = 0
      BY <1>4, <1>9, <1>16, <2>3
    <3> QED
      BY <1>3, <1>4, <2>1, <3>1
  <2> QED
    BY <2>2, <2>3
<1>18. TotalsAreTrue'
  BY <1>7, <1>13, <1>15, <1>16, <1>17 DEF TotalsAreTrue
<1>19. RolloversAreCounted'
  <2>1. sc'.evcount # 0
    BY <1>3, <1>13, <1>16
  <2> QED
    BY <1>2, <1>5, <1>13, <1>16, <2>1 DEF RolloversAreCounted
<1> QED
  BY <1>18, <1>19 DEF TotalsInv

LEMMA BeforeOrders ==
  ASSUME NEW a \in Values, NEW b \in Values, NEW c \in Values
  PROVE  /\ Before(a, a)
         /\ Before(a, b) /\ Before(b, c) => Before(a, c)
         /\ Before(a, b) /\ Within(a, c) => Within(b, c)
BY ScalerAssumption DEF Values, Before, Within

LEMMA LaterIsBehind ==
  ASSUME NEW a \in Values, NEW v \in Later(a)
  PROVE  v \in Values /\ Before(a, v) /\ Within(seen, v)
<1>1. Turn \in Nat \ {0} /\ MaxStep \in Nat
  BY ScalerAssumption
<1>2. /\ v.clock \in a.clock .. a.clock + MaxStep /\ v.count \in a.count .. a.count + MaxStep
      /\ v \in [clock : a.clock .. a.clock + MaxStep, count : a.count .. a.count + MaxStep]
      /\ v.clock - seen.clock < Turn /\ v.count - seen.count < Turn
  BY DEF Later
<1>3. a.clock \in Nat /\ a.count \in Nat
  BY DEF Values
<1>4. v.clock \in Nat /\ v.count \in Nat /\ a.clock <= v.clock /\ a.count <= v.count
  BY <1>1, <1>2, <1>3
<1> QED
  BY <1>2, <1>4 DEF Values, Before, Within

\* The reads stay in order, also those of the end routine.
LEMMA StepKeepsOrder ==
  ASSUME FileInOrder, ScalerNext
  PROVE  FileInOrder'
<1>1. Turn \in Nat \ {0} /\ MaxStep \in Nat
  BY ScalerAssumption
<1>3. ASSUME NEW sync \in BOOLEAN, Analyze(sync) PROVE FileInOrder'
  <2>1. PICK v \in Later(now) :
          InTime(v) /\ now' = v /\ (seen' = seen \/ seen' = v)
    BY <1>3 DEF Analyze, Take
  <2>2. v \in Values /\ Before(now, v) /\ Within(seen, v)
    BY LaterIsBehind DEF FileInOrder
  <2>3. delayed' = delayed
    BY <1>3 DEF Analyze
  <2>4. Before(v, v) /\ Within(v, v) /\ Before(seen, v)
    BY <1>1, <2>2 DEF FileInOrder, Values, Before, Within
  <2>5. ASSUME NEW i \in DOMAIN delayed
        PROVE  Before(v, delayed[i]) /\ Within(seen, delayed[i]) /\ Within(v, delayed[i])
    <3>1. PICK u \in Values : u = delayed[i]
      BY DEF FileInOrder
    <3>2. Before(v, u) /\ Within(seen, u)
      BY <2>1, <3>1 DEF InTime, FileInOrder, Before
    <3>3. Within(v, u)
      BY <2>2, <2>4, <3>2, BeforeOrders DEF FileInOrder
    <3> QED
      BY <3>1, <3>2, <3>3
  <2> QED
    BY <2>1, <2>2, <2>3, <2>4, <2>5 DEF FileInOrder
<1>4. ASSUME SaveDelayed PROVE FileInOrder'
  <2>1. PICK last : last = IF delayed = <<>> THEN now ELSE delayed[Len(delayed)]
    OBVIOUS
  <2>2. PICK v \in Later(last) : delayed' = Append(delayed, v)
    BY <1>4, <2>1 DEF SaveDelayed
  <2>3. /\ last \in Values /\ Before(now, last)
        /\ \A i \in DOMAIN delayed : Before(delayed[i], last)
    <3>1. CASE delayed = <<>>
      BY <2>1, <3>1 DEF FileInOrder, Values, Before
    <3>2. CASE delayed # <<>>
      <4>1. Len(delayed) \in DOMAIN delayed /\ \A i \in DOMAIN delayed : i <= Len(delayed)
        BY <3>2 DEF FileInOrder
      <4> QED
        BY <2>1, <3>2, <4>1 DEF FileInOrder
    <3> QED
      BY <3>1, <3>2
  <2>4. v \in Values /\ Before(last, v) /\ Within(seen, v)
    BY <2>2, <2>3, LaterIsBehind
  <2>5. /\ delayed' \in Seq(Values)
        /\ \A i \in DOMAIN delayed' :
             \/ delayed'[i] = v /\ i = Len(delayed) + 1
             \/ i \in DOMAIN delayed /\ delayed'[i] = delayed[i]
    BY <2>2, <2>4 DEF FileInOrder
  <2>6. Before(now, v) /\ Before(v, v) /\ \A i \in DOMAIN delayed : Before(delayed[i], v)
    <3>1. now \in Values /\ \A i \in DOMAIN delayed : delayed[i] \in Values
      BY DEF FileInOrder
    <3> QED
      BY <2>3, <2>4, <3>1, BeforeOrders
  <2>7. now' = now /\ seen' = seen
    BY <1>4 DEF SaveDelayed
  <2>8. ASSUME NEW i \in DOMAIN delayed', NEW j \in DOMAIN delayed', i <= j
        PROVE  Before(delayed'[i], delayed'[j])
    <3>1. \A k \in DOMAIN delayed : k <= Len(delayed)
      BY DEF FileInOrder
    <3>2. Len(delayed) \in Nat
      BY DEF FileInOrder
    <3>3. CASE i = Len(delayed) + 1
      BY <2>5, <2>6, <2>8, <3>1, <3>2, <3>3
    <3>4. CASE i \in DOMAIN delayed /\ delayed'[i] = delayed[i]
      BY <2>5, <2>6, <2>8, <3>4 DEF FileInOrder
    <3> QED
      BY <2>5, <3>3, <3>4
  <2>9. \A i \in DOMAIN delayed' : Before(now, delayed'[i]) /\ Within(seen, delayed'[i])
    BY <2>4, <2>5, <2>6 DEF FileInOrder
  <2> QED
    BY <2>5, <2>7, <2>8, <2>9 DEF FileInOrder
<1>5. ASSUME EndDelayed PROVE FileInOrder'
  <2>1. /\ delayed # <<>> /\ now' = delayed[1] /\ seen' = delayed[1] /\ delayed' = Tail(delayed)
    BY <1>5 DEF EndDelayed, Take
  <2>2. /\ delayed' \in Seq(Values) /\ 1 \in DOMAIN delayed
        /\ \A i \in DOMAIN delayed' : i + 1 \in DOMAIN delayed /\ delayed'[i] = delayed[i + 1]
        /\ \A i \in DOMAIN delayed' : i \in Nat /\ 1 <= i + 1
    BY <2>1 DEF FileInOrder
  <2>3. PICK v \in Values : v = delayed[1] /\ Before(now, v) /\ Within(seen, v)
    BY <2>2 DEF FileInOrder
  <2>4. Before(v, v) /\ Within(v, v) /\ Before(seen, v)
    BY <1>1, <2>3 DEF FileInOrder, Values, Before, Within
  <2>5. ASSUME NEW i \in DOMAIN delayed'
        PROVE  Before(v, delayed'[i]) /\ Within(v, delayed'[i])
    <3>1. PICK u \in Values : u = delayed'[i] /\ u = delayed[i + 1]
      BY <2>2
    <3>2. Before(v, u) /\ Within(seen, u)
      BY <2>2, <2>3, <3>1 DEF FileInOrder
    <3>3. Within(v, u)
      BY <2>3, <2>4, <3>1, <3>2, BeforeOrders DEF FileInOrder
    <3> QED
      BY <3>1, <3>2, <3>3
  <2>6. ASSUME NEW i \in DOMAIN delayed', NEW j \in DOMAIN delayed', i <= j
        PROVE  Before(delayed'[i], delayed'[j])
    <3>1. i + 1 <= j + 1 /\ i + 1 \in DOMAIN delayed /\ j + 1 \in DOMAIN delayed
      BY <2>2, <2>6
    <3>2. Before(delayed[i + 1], delayed[j + 1])
      BY <3>1 DEF FileInOrder
    <3> QED
      BY <2>2, <3>2
  <2> QED
    BY <2>1, <2>2, <2>3, <2>4, <2>5, <2>6 DEF FileInOrder
<1>6. End => FileInOrder'
  BY DEF End, FileInOrder
<1> QED
  BY <1>3, <1>4, <1>5, <1>6 DEF ScalerNext

\* Every step that analyses a read takes one that is behind the last and less than a turn
\* of the words ahead of it.
LEMMA TakesInOrder ==
  ASSUME FileInOrder, ScalerNext
  PROVE  \/ UNCHANGED <<seen, unmeasured, sc>>
         \/ \E v \in Values, lacking \in Lacking \union {"nothing"} :
              Before(seen, v) /\ Within(seen, v) /\ Take(sc, v, lacking)
<1>1. ASSUME NEW sync \in BOOLEAN, Analyze(sync)
      PROVE  \/ UNCHANGED <<seen, unmeasured, sc>>
             \/ \E v \in Values, lacking \in Lacking \union {"nothing"} :
                  Before(seen, v) /\ Within(seen, v) /\ Take(sc, v, lacking)
  <2>1. PICK v \in Later(now) :
          UNCHANGED <<seen, unmeasured, sc>> \/ \E lacking \in Lacking : Take(sc, v, lacking)
    BY <1>1 DEF Analyze
  <2>2. v \in Values /\ Before(now, v) /\ Within(seen, v)
    BY LaterIsBehind DEF FileInOrder
  <2>3. Before(seen, v)
    BY <2>2, BeforeOrders DEF FileInOrder
  <2> QED
    BY <2>1, <2>2, <2>3
<1>2. ASSUME EndDelayed
      PROVE  \E v \in Values, lacking \in Lacking \union {"nothing"} :
               Before(seen, v) /\ Within(seen, v) /\ Take(sc, v, lacking)
  <2>1. delayed # <<>> /\ now' = delayed[1] /\ Take(sc, now', "nothing")
    BY <1>2 DEF EndDelayed
  <2>2. now' \in Values /\ Before(now, now') /\ Within(seen, now')
    BY <2>1 DEF FileInOrder
  <2>3. Before(seen, now')
    BY <2>2, BeforeOrders DEF FileInOrder
  <2> QED
    BY <2>1, <2>2, <2>3
<1>3. SaveDelayed \/ End => UNCHANGED <<seen, unmeasured, sc>>
  BY DEF SaveDelayed, End
<1> QED
  BY <1>1, <1>2, <1>3 DEF ScalerNext

LEMMA StepKeepsTypes ==
  TypesInv /\ [ScalerNext]_scalerVars => TypesInv'
<1> SUFFICES ASSUME TypesInv, [ScalerNext]_scalerVars PROVE TypesInv'
  OBVIOUS
<1>1. CASE ScalerNext
  <2>1. FileInOrder'
    BY <1>1, StepKeepsOrder DEF TypesInv
  <2>2. ended' \in BOOLEAN
    BY <1>1 DEF ScalerNext, Analyze, SaveDelayed, End, EndDelayed, TypesInv, HandlerTypes
  <2>3. CASE UNCHANGED <<seen, unmeasured, sc>>
    BY <2>1, <2>2, <2>3 DEF TypesInv, HandlerTypes
  <2>4. CASE \E v \in Values, lacking \in Lacking \union {"nothing"} :
               Before(seen, v) /\ Within(seen, v) /\ Take(sc, v, lacking)
    BY <2>1, <2>2, <2>4, TakeTypes DEF TypesInv, FileInOrder
  <2> QED
    BY <1>1, <2>3, <2>4, TakesInOrder DEF TypesInv
<1>2. CASE UNCHANGED scalerVars
  BY <1>2 DEF scalerVars, TypesInv, HandlerTypes, FileInOrder
<1> QED
  BY <1>1, <1>2

LEMMA StepKeepsTotals ==
  ASSUME ~PartialReads
  PROVE  TypesInv /\ TotalsInv /\ [ScalerNext]_scalerVars => TotalsInv'
<1> SUFFICES ASSUME TypesInv, TotalsInv, [ScalerNext]_scalerVars PROVE TotalsInv'
  OBVIOUS
<1>1. CASE ScalerNext
  <2>1. CASE UNCHANGED <<seen, unmeasured, sc>>
    BY <2>1 DEF TotalsInv, TotalsAreTrue, RolloversAreCounted
  <2>2. CASE \E v \in Values, lacking \in Lacking \union {"nothing"} :
               Before(seen, v) /\ Within(seen, v) /\ Take(sc, v, lacking)
    <3>1. PICK v \in Values : Before(seen, v) /\ Within(seen, v) /\ Take(sc, v, "nothing")
      BY <2>2 DEF Lacking
    <3> QED
      BY <3>1, TakeCounts DEF TypesInv, FileInOrder
  <2> QED
    BY <1>1, <2>1, <2>2, TakesInOrder DEF TypesInv
<1>2. CASE UNCHANGED scalerVars
  BY <1>2 DEF scalerVars, TotalsInv, TotalsAreTrue, RolloversAreCounted
<1> QED
  BY <1>1, <1>2

LEMMA InitialScalers ==
  ScalerInit => TypesInv /\ TotalsInv
<1> SUFFICES ASSUME ScalerInit PROVE TypesInv /\ TotalsInv
  OBVIOUS
<1>1. Turn \in Nat \ {0} /\ 0 \in 0 .. Turn - 1 /\ 0 % Turn = 0 /\ 0 \div Turn = 0
  BY ScalerAssumption
<1>2. sc \in Handler
  BY <1>1 DEF ScalerInit, Handler
<1>3. TotalsInv
  BY <1>1 DEF ScalerInit, TotalsInv, TotalsAreTrue, RolloversAreCounted
<1>4. HandlerTypes
  <2>1. 0 + (0 * Turn) = 0
    BY <1>1
  <2>2. sc.fTotalTime = 0 /\ sc.fLastClock = 0 /\ sc.fClockOverflows = 0
    BY DEF ScalerInit
  <2> QED
    BY <1>2, <2>1, <2>2 DEF ScalerInit, HandlerTypes
<1>5. FileInOrder
  BY <1>1 DEF ScalerInit, FileInOrder, Values, Before, Within
<1> QED
  BY <1>3, <1>4, <1>5 DEF TypesInv

\* The members keep their types, whatever modules a read lacks.
THEOREM ScalerTypes ==
  ScalerSpec => []ScalerTypeInvariant
<1>1. TypesInv => ScalerTypeInvariant
  BY DEF TypesInv, FileInOrder, HandlerTypes, ScalerTypeInvariant, Handler
<1> QED
  BY <1>1, InitialScalers, StepKeepsTypes, PTL DEF ScalerSpec

\* Time, counts and charges of the scalers are true for every width of a word, and every
\* order of reads, skipped events and reads of the end routine.
THEOREM ScalerTotals ==
  ASSUME ~PartialReads
  PROVE  ScalerSpec => []TotalsAreTrue
<1>1. TotalsInv => TotalsAreTrue
  BY DEF TotalsInv
<1> QED
  BY <1>1, InitialScalers, StepKeepsTypes, StepKeepsTotals, PTL DEF ScalerSpec

=======================================================================
