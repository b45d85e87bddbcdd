-------------------------- MODULE ScalerEvtHandler --------------------------
(***************************************************************************)
(* THcScalerEvtHandler: the scaler reads of a run.  A scaler counts up and *)
(* rolls over; the handler counts the rollovers of the clock and of each   *)
(* channel, and gives the time, the counts, the charge of a beam current   *)
(* monitor (here one count is one unit of charge), and the same three      *)
(* summed over the reads whose current is above a threshold.  The reads of *)
(* the end routine may stand too early in the file: they are copied and    *)
(* analysed at the end.                                                    *)
(*                                                                         *)
(* clock, count and unmeasured describe the scalers, delayed and ended the *)
(* file; sc holds the members of the handler.                              *)
(***************************************************************************)
EXTENDS Integers, Sequences

CONSTANTS
  Turn,             \* values of a scaler word
  Threshold,        \* fbcm_Current_Threshold, in counts for each tick
  fOnlySyncEvents,  \* whether only sync events are read
  PartialReads,     \* whether a read may lack a scaler module
  MaxStep,          \* bound: counts between two reads
  MaxReads,         \* bound: reads analysed
  MaxDelayed        \* bound: reads of the end routine

ASSUME ScalerAssumption ==
  /\ Turn \in Nat \ {0, 1} /\ Threshold \in Nat
  /\ {fOnlySyncEvents, PartialReads} \subseteq BOOLEAN
  /\ MaxStep \in Nat /\ MaxReads \in Nat /\ MaxDelayed \in Nat

VARIABLES
  now,        \* clock ticks and counts since the scalers were started
  seen,        \* the same at the last read that was analysed
  unmeasured,  \* counts that came while the clock stood still
  delayed,     \* the reads of the end routine found so far
  ended, sc

scalerVars == <<now, seen, unmeasured, delayed, ended, sc>>

---------------------------------------------------------------------------
(* THcScalerEvtHandler::AnalyzeBuffer.                                     *)

\* The words of a read; a module that is not in it reads zero.
Words(values, lacking) ==
  [clock |-> IF lacking = "clock" THEN 0 ELSE values.clock % Turn,
   count |-> IF lacking = "count" THEN 0 ELSE values.count % Turn]

\* The counts between two reads.
Diff(word, prev) == IF word < prev THEN Turn - prev + word ELSE word - prev

\* The total time and the time since the last read.
ReadClock(d, w) ==
  LET over == IF w.clock < d.fLastClock THEN d.fClockOverflows + 1 ELSE d.fClockOverflows
      total == w.clock + over * Turn
  IN  [d EXCEPT !.fClockOverflows = over, !.fLastClock = w.clock,
                !.fTotalTime = total, !.fDeltaTime = total - d.fTotalTime]

\* The total count; on the first read it is the word.
ReadCount(d, w) ==
  LET over == IF d.evcount > 0 /\ w.count < d.scal_prev_read
              THEN d.scal_overflows + 1 ELSE d.scal_overflows
  IN  [d EXCEPT !.scal_overflows = over, !.count = w.count + over * Turn]

\* The charge, none when the clock stood still, and whether the current is above
\* the threshold.
ReadCharge(d, w) ==
  LET delta == IF d.fDeltaTime > 0 THEN Diff(w.count, d.scal_prev_read) ELSE 0
  IN  [d EXCEPT !.fBCM_delta_charge = delta, !.charge = @ + delta,
                !.above = delta > Threshold * d.fDeltaTime]

\* The sums over reads above the threshold, from a previous read of their own.
AddCut(d, w) ==
  [d EXCEPT !.cutCount = IF d.above THEN @ + Diff(w.count, d.dvars_prev_read) ELSE @,
            !.dvars_prev_read = w.count,
            !.cutCharge = IF d.above THEN @ + d.fBCM_delta_charge ELSE @,
            !.cutTime = IF d.above THEN @ + d.fDeltaTime ELSE @]

AnalyzeBuffer(d, w) ==
  LET measured == AddCut(ReadCharge(ReadCount(ReadClock(d, w), w), w), w)
  IN  [measured EXCEPT !.scal_prev_read = w.count, !.evcount = @ + 1]

---------------------------------------------------------------------------

ScalerInit ==
  /\ now = [clock |-> 0, count |-> 0] /\ seen = now /\ unmeasured = 0
  /\ delayed = <<>> /\ ended = FALSE
  /\ sc = [evcount |-> 0, fLastClock |-> 0, fClockOverflows |-> 0,
           fTotalTime |-> 0, fDeltaTime |-> -1, scal_prev_read |-> 0,
           scal_overflows |-> 0, dvars_prev_read |-> 0, count |-> 0, charge |-> 0,
           fBCM_delta_charge |-> 0, above |-> FALSE,
           cutCount |-> 0, cutCharge |-> 0, cutTime |-> 0]

\* What the scalers may hold next after values: the clock has started before
\* the first read, and no channel turns over twice between two analysed reads.
Later(values) ==
  {v \in [clock : values.clock .. values.clock + MaxStep,
          count : values.count .. values.count + MaxStep] :
     /\ v.clock > 0
     /\ v.clock - seen.clock < Turn /\ v.count - seen.count < Turn}

InTime(v) ==
  \A i \in DOMAIN delayed : v.clock <= delayed[i].clock /\ v.count <= delayed[i].count

Take(d, v, lacking) ==
  /\ sc' = AnalyzeBuffer(d, Words(v, lacking))
  /\ seen' = v
  /\ unmeasured' = unmeasured + IF v.clock = seen.clock THEN v.count - seen.count ELSE 0

Lacking == IF PartialReads THEN {"clock", "count", "nothing"} ELSE {"nothing"}

\* An event of a type the handler analyses, perhaps not a sync event.
Analyze(sync) ==
  /\ ~ended /\ sc.evcount < MaxReads
  /\ \E v \in Later(now) :
       /\ InTime(v)
       /\ now' = v
       /\ IF fOnlySyncEvents /\ ~sync
          THEN UNCHANGED <<seen, unmeasured, sc>>
          ELSE \E lacking \in Lacking : Take(sc, v, lacking)
  /\ UNCHANGED <<delayed, ended>>

\* An event of the end routine: it is copied.
SaveDelayed ==
  /\ ~ended /\ Len(delayed) < MaxDelayed
  /\ \E v \in Later(IF delayed = <<>> THEN now ELSE delayed[Len(delayed)]) :
       delayed' = Append(delayed, v)
  /\ UNCHANGED <<now, seen, unmeasured, ended, sc>>

\* End of the file: the copies are analysed in the order they came, one by one.
End ==
  /\ ~ended /\ delayed = <<>>
  /\ ended' = TRUE
  /\ UNCHANGED <<now, seen, unmeasured, delayed, sc>>

\* Mutant: the copies are analysed last one first.
EndDelayed_LastFirst ==
  /\ delayed # <<>>
  /\ ended' = TRUE
  /\ now' = delayed[Len(delayed)]
  /\ Take(sc, now', "nothing")
  /\ delayed' = SubSeq(delayed, 1, Len(delayed) - 1)

EndDelayed ==
  /\ delayed # <<>>
  /\ ended' = TRUE
  /\ now' = Head(delayed)
  /\ Take(sc, now', "nothing")
  /\ delayed' = Tail(delayed)

ScalerNext ==
  \/ \E sync \in BOOLEAN : Analyze(sync)
  \/ SaveDelayed
  \/ End
  \/ EndDelayed

ScalerSpec == ScalerInit /\ [][ScalerNext]_scalerVars

---------------------------------------------------------------------------
(* Properties.                                                             *)

Values == [clock : Nat, count : Nat]

Handler ==
  [evcount : Nat, fLastClock : 0 .. Turn - 1, fClockOverflows : Nat,
   fTotalTime : Nat, fDeltaTime : Nat \union {-1},
   scal_prev_read : 0 .. Turn - 1, scal_overflows : Nat,
   dvars_prev_read : 0 .. Turn - 1, count : Nat, charge : Nat,
   fBCM_delta_charge : Nat, above : BOOLEAN,
   cutCount : Nat, cutCharge : Nat, cutTime : Nat]

ScalerTypeInvariant ==
  /\ now \in Values /\ seen \in Values /\ unmeasured \in Nat
  /\ delayed \in Seq(Values) /\ ended \in BOOLEAN
  /\ sc \in Handler

\* Over rollovers, skipped events and reads analysed at the end (AnalyzeBuffer)
\* the time and the count are those of the scalers since they were started; no
\* charge is counted twice or lost, but for what came while the clock stood
\* still, which the code knowingly drops; and the two sums that are cut on the
\* current are over the same reads, although each has a previous read of its own.
TotalsAreTrue ==
  /\ sc.fTotalTime = seen.clock /\ sc.count = seen.count
  /\ sc.charge + unmeasured = seen.count
  /\ sc.cutCharge = sc.cutCount
=============================================================================
