------------------------------- MODULE HitList -------------------------------
(***************************************************************************)
(* THcHitList: the hits of one detector in one event, one for each counter *)
(* with a signal, sorted by plane and counter.  The detector map says      *)
(* which channels of which modules are the detector's; the modules hand    *)
(* their channels over in an order of their own.  The objects of the list  *)
(* are reused from event to event.                                         *)
(*                                                                         *)
(* A flash ADC opens its window some clock ticks early or late (the slip); *)
(* the list corrects its pulse times by the trigger time of the module     *)
(* against that of the trigger interface (TI).  An event here carries true *)
(* times; what a module reports is Reported.                               *)
(*                                                                         *)
(* All modules stand in one crate, as THcHitList.cxx:220 assumes.  Times,  *)
(* samples and slips are the data; amplitudes and the integration          *)
(* parameters are left out.                                                *)
(***************************************************************************)
EXTENDS Integers, Sequences, SequencesExt, FiniteSets, FiniteSetsExt, TLC

CONSTANTS
  DetMap,      \* the detector map: a sequence of modules
  RefMaps,     \* the indexed reference channels
  Fadcs,       \* the slots of the flash ADCs
  Planes,      \* the planes of the detector, in order
  Events,      \* the events there may be
  NoRef, NoTime,
  SlipCorrection,                   \* FALSE after DisableSlipCorrection
  TdcCut, TdcBest, AdcCut, AdcBest, \* the reference time cuts
  Tick,        \* a clock tick in units of the pulse time: 64
  Word,        \* trigger times are counted modulo this
  MaxHits,     \* objects made by InitHitList
  MaxEvents    \* bound: events decoded

\* No two channels carry one signal of a counter; planes are in order.
HitListAssumption ==
  /\ \A i, j \in DOMAIN DetMap : i # j =>
       \/ DetMap[i].signal # DetMap[j].signal \/ DetMap[i].plane # DetMap[j].plane
       \/ DetMap[i].first + DetMap[i].hi - DetMap[i].lo < DetMap[j].first
       \/ DetMap[j].first + DetMap[j].hi - DetMap[j].lo < DetMap[i].first
  /\ \A i, j \in DOMAIN Planes : i < j => Planes[i] < Planes[j]
  /\ {SlipCorrection, TdcBest, AdcBest} \subseteq BOOLEAN
  /\ Word \in Nat \ {0} /\ MaxHits \in Nat /\ MaxEvents \in Nat

Fudge == 7
Signals == {"adc", "tdc"}

VARIABLES
  pool,               \* the objects of fRawHitList, those in use first
  fNRawHits,
  fTrigTimeShiftMap,  \* slot -> the ticks its window opened late
  fNTDCRef_miss, fNADCRef_miss,
  event, quiet,       \* the event decoded last, and whether warnings were off
  decoded             \* number of events decoded

vars == <<pool, fNRawHits, fTrigTimeShiftMap, fNTDCRef_miss, fNADCRef_miss,
          event, quiet, decoded>>

Hits == SubSeq(pool, 1, fNRawHits)

---------------------------------------------------------------------------
(* The modules.                                                            *)

Reported(ev, slot, times) ==
  IF slot \notin Fadcs THEN times
  ELSE [i \in DOMAIN times |-> times[i] - Tick * ev.slip[slot]]

TriggerTime(ev, slot) == (ev.ti - Fudge + ev.slip[slot]) % Word

Pulses(ev, slot, chan) == Reported(ev, slot, ev.data[slot, chan].times)
SamplePulses(ev, slot, chan) == Reported(ev, slot, ev.data[slot, chan].found)
HasSamples(ev, slot, chan) == ev.data[slot, chan].sampled

---------------------------------------------------------------------------
(* The time shifts of the flash ADCs, found once in an event.              *)

TIFound(ev) == SlipCorrection /\ ev.ti # NoTime

TITime(ev) == IF ev.ti >= Fudge THEN ev.ti - Fudge ELSE 0

\* the difference of two unsigned words, as an Int_t
Signed(d) == ((d + Word \div 2) % Word) - Word \div 2

\* Mutant: the shifts of the first event are kept.
ClearShifts_Keep(ev, shifts) == shifts

ClearShifts(ev, shifts) == IF TIFound(ev) THEN <<>> ELSE shifts

AddShift(ev, slot, shifts) ==
  IF ~TIFound(ev) \/ slot \notin Fadcs \/ slot \in DOMAIN shifts THEN shifts
  ELSE shifts @@ (slot :> Signed(TriggerTime(ev, slot) - TITime(ev)))

Shift(ev, slot, shifts) == IF TIFound(ev) /\ slot \in Fadcs THEN shifts[slot] ELSE 0

Shifted(times, shift) == [i \in DOMAIN times |-> times[i] + Tick * shift]

---------------------------------------------------------------------------
(* The reference times.                                                    *)

\* the first time that makes the cut, else the last if the cut says so
Chosen(times, cut, best, sampled) ==
  LET good == {i \in DOMAIN times : times[i] >= cut}
      at == IF good # {} THEN Min(good) ELSE Len(times)
  IN  [hashit |-> good # {} \/ (best /\ (times # <<>> \/ sampled)),
       reftime |-> IF at = 0 THEN 0 ELSE times[at],
       refdifftime |-> IF at > 1 THEN times[at] - times[at - 1] ELSE 0]

RefTimeOf(ev, slot, chan, shifts) ==
  IF slot \notin Fadcs
  THEN Chosen(Pulses(ev, slot, chan), TdcCut, TdcBest, FALSE)
  ELSE LET pulses == Pulses(ev, slot, chan)
           seen == IF pulses # <<>> THEN pulses ELSE SamplePulses(ev, slot, chan)
       IN  Chosen(Shifted(seen, Shift(ev, slot, shifts)), AdcCut, AdcBest,
                  HasSamples(ev, slot, chan))

ShiftsOfRefs(ev, shifts) == FoldLeft(LAMBDA s, r : AddShift(ev, r.slot, s), shifts, RefMaps)

RefTimes(ev, shifts) == [i \in DOMAIN RefMaps |-> RefTimeOf(ev, RefMaps[i].slot, RefMaps[i].chan, shifts)]

---------------------------------------------------------------------------
(* The hit objects.                                                        *)

Fresh == [fPlane |-> 0, fCounter |-> 0, data |-> [s \in Signals |-> <<>>],
          samp |-> <<>>, ref |-> [s \in Signals |-> NoRef], diff |-> [s \in Signals |-> 0]]

\* Mutant: the reference times stay.
Clear_KeepRef(o) == [Fresh EXCEPT !.diff = o.diff, !.ref = o.ref]

\* the difference of the reference times of an ADC is not cleared
Clear(o) == [Fresh EXCEPT !.diff["adc"] = o.diff["adc"]]

\* ConstructedAt: the object in place i, cleared if it was there already
ConstructedAt(objects, i) ==
  IF i <= Len(objects) THEN [objects EXCEPT ![i] = Clear(@)] ELSE Append(objects, Fresh)

Before(a, b) == a.fPlane < b.fPlane \/ (a.fPlane = b.fPlane /\ a.fCounter < b.fCounter)

Counter(d, chan) == IF d.reverse THEN d.first + d.hi - chan ELSE d.first + chan - d.lo

\* the object of a new hit at the end of the list
NewHit(acc, d, chan) ==
  [ConstructedAt(acc.pool, acc.n + 1) EXCEPT ![acc.n + 1].fPlane = d.plane,
                                             ![acc.n + 1].fCounter = Counter(d, chan)]

\* the hit of a counter, made at the end of the list if there is none yet
Lookup(acc, d, chan) ==
  LET mine(o) == o.fPlane = d.plane /\ o.fCounter = Counter(d, chan)
      found == {i \in 1 .. acc.n : mine(acc.pool[i])}
      new == acc.n + 1
      objects == NewHit(acc, d, chan)
      inOrder == acc.prev # 0 => Before(objects[acc.prev], objects[new])
  IN  IF found # {} THEN [acc EXCEPT !.at = Min(found)]
      ELSE [acc EXCEPT !.pool = objects, !.n = new, !.at = new,
                       !.sorted = @ /\ inOrder,
                       !.prev = IF acc.sorted /\ inOrder THEN new ELSE @]

SetReference(o, s, r) == [o EXCEPT !.ref[s] = r.reftime, !.diff[s] = r.refdifftime]

\* the hits of a channel into its object; pulses found in its samples are not shifted
SetHits(o, ev, d, chan, shifts) ==
  IF d.slot \notin Fadcs
  THEN [o EXCEPT !.data[d.signal] = @ \o Pulses(ev, d.slot, chan)]
  ELSE [o EXCEPT !.data[d.signal] = @ \o Shifted(Pulses(ev, d.slot, chan), Shift(ev, d.slot, shifts)),
                 !.samp = IF HasSamples(ev, d.slot, chan) THEN SamplePulses(ev, d.slot, chan) ELSE @]

RefOf(ev, d, refs, shifts) ==
  IF d.refchan >= 0 THEN RefTimeOf(ev, d.slot, d.refchan, shifts) ELSE refs[d.refindex]

\* whether a reference time is missed: only with warnings on
Missed(wanted, ref, loud) == wanted /\ ~ref.hashit /\ loud

\* One channel of the detector: find its hit, store its data and its reference.
OneChannel(ev, loud, refs, acc0, at) ==
  LET d == DetMap[at.map]
      acc == Lookup(acc0, d, at.chan)
      shifts == AddShift(ev, d.slot, acc.shifts)
      filled == SetHits(acc.pool[acc.at], ev, d, at.chan, shifts)
      wanted == d.refchan >= 0 \/ d.refindex \in DOMAIN refs
      ref == RefOf(ev, d, refs, shifts)
      missed == Missed(wanted, ref, loud)
  IN  [acc EXCEPT !.shifts = shifts,
                  !.pool[acc.at] = IF wanted /\ ref.hashit THEN SetReference(filled, d.signal, ref)
                                   ELSE filled,
                  !.tdcmiss = @ \/ (missed /\ d.slot \notin Fadcs),
                  !.adcmiss = @ \/ (missed /\ d.slot \in Fadcs)]

\* the detector's channels in the order they are met
Channels(ev) ==
  FlattenSeq([i \in DOMAIN DetMap |->
    LET mine == SelectSeq(ev.order[DetMap[i].slot], LAMBDA c : c \in DetMap[i].lo .. DetMap[i].hi)
    IN  [j \in DOMAIN mine |-> [map |-> i, chan |-> mine[j]]]])

\* Sort(fNRawHits)
SortList(acc) ==
  IF acc.sorted THEN acc.pool
  ELSE SortSeq(SubSeq(acc.pool, 1, acc.n), Before) \o SubSeq(acc.pool, acc.n + 1, Len(acc.pool))

---------------------------------------------------------------------------
Init ==
  /\ pool = [i \in 1 .. MaxHits |-> Fresh]
  /\ fNRawHits = 0
  /\ fTrigTimeShiftMap = <<>>
  /\ fNTDCRef_miss = 0 /\ fNADCRef_miss = 0
  /\ event = NoTime /\ quiet = TRUE
  /\ decoded = 0

DecodeToHitList(ev, suppresswarnings) ==
  LET shifts == ShiftsOfRefs(ev, ClearShifts(ev, fTrigTimeShiftMap))
      refs == RefTimes(ev, shifts)
      start == [pool |-> pool, n |-> 0, at |-> 0, sorted |-> TRUE, prev |-> 0,
                shifts |-> shifts, tdcmiss |-> FALSE, adcmiss |-> FALSE]
      end == FoldLeft(LAMBDA acc, at : OneChannel(ev, ~suppresswarnings, refs, acc, at),
                      start, Channels(ev))
  IN  /\ pool' = SortList(end)
      /\ fNRawHits' = end.n
      /\ fTrigTimeShiftMap' = end.shifts
      /\ fNTDCRef_miss' = fNTDCRef_miss + (IF end.tdcmiss THEN 1 ELSE 0)
      /\ fNADCRef_miss' = fNADCRef_miss + (IF end.adcmiss THEN 1 ELSE 0)

Decode ==
  \E ev \in Events, suppresswarnings \in BOOLEAN :
    /\ decoded < MaxEvents
    /\ DecodeToHitList(ev, suppresswarnings)
    /\ event' = ev /\ quiet' = suppresswarnings
    /\ decoded' = decoded + 1

Next == Decode

Spec == Init /\ [][Next]_vars

---------------------------------------------------------------------------
(* What the planes make of the list: each goes on where the one before     *)
(* stopped and stops at the first hit of a later plane.                    *)

\* ProcessHits: the index after the last hit the plane takes
NextHit(list, plane, nexthit) ==
  LET later == {i \in nexthit .. Len(list) : list[i].fPlane > plane}
  IN  IF later = {} THEN Len(list) + 1 ELSE Min(later)

\* THcHodoscope::Decode and THcDC::Decode: the index at which each plane starts
FirstHit(list) ==
  FoldLeft(LAMBDA starts, p : Append(starts, NextHit(list, p, starts[Len(starts)])), <<1>>, Planes)

HitsOfPlane(k) == FirstHit(Hits)[k] .. FirstHit(Hits)[k + 1] - 1

---------------------------------------------------------------------------
(* The properties.                                                         *)

\* the counters of the detector
Counters == UNION {{<<d.plane, Counter(d, c)>> : c \in d.lo .. d.hi} : d \in ToSet(DetMap)}

\* Types; the pool grows to one object for each counter and no further.
TypeInvariant ==
  /\ fNRawHits \in 0 .. Len(pool)
  /\ Len(pool) \in MaxHits .. Max({MaxHits, Cardinality(Counters)})
  /\ \A i \in DOMAIN pool :
       /\ DOMAIN pool[i] = DOMAIN Fresh
       /\ \A s \in Signals : pool[i].diff[s] \in Int /\ pool[i].ref[s] \in Int \union {NoRef}
  /\ DOMAIN fTrigTimeShiftMap \subseteq Fadcs
  /\ fNTDCRef_miss \in 0 .. decoded /\ fNADCRef_miss \in 0 .. decoded

\* the channels of the detector in an event, whatever their order
ChannelsIn(ev) ==
  UNION {{[d |-> d, chan |-> c] : c \in ToSet(ev.order[d.slot]) \intersect (d.lo .. d.hi)} :
         d \in ToSet(DetMap)}

CounterOf(c) == <<c.d.plane, Counter(c.d, c.chan)>>

Carriers(ev, h, s) ==
  {c \in ChannelsIn(ev) : CounterOf(c) = <<h.fPlane, h.fCounter>> /\ c.d.signal = s}

\* The list has one hit for each counter with data, in the order of plane and
\* counter, whatever the order of the channels and of the modules.
OneHitPerCounter ==
  /\ \A i, j \in 1 .. fNRawHits : i < j =>
       \/ Hits[i].fPlane < Hits[j].fPlane
       \/ Hits[i].fPlane = Hits[j].fPlane /\ Hits[i].fCounter < Hits[j].fCounter
  /\ decoded > 0 =>
       {<<h.fPlane, h.fCounter>> : h \in ToSet(Hits)} = {CounterOf(c) : c \in ChannelsIn(event)}

\* whether the trigger time can be told from its low word (the code warns if not)
TriggerTimeGood == decoded > 0 /\ (TIFound(event) => event.ti >= Fudge)

\* the times the list promises: true ones where the slip is known
Promised(ev, slot, times) == IF TIFound(ev) THEN times ELSE Reported(ev, slot, times)

\* A hit holds the hits of its own channels in this event, with their true
\* times if the trigger interface was read, and nothing of an earlier event.
HitsAreTheEvent ==
  /\ OneHitPerCounter
  /\ TriggerTimeGood =>
       \A h \in ToSet(Hits), s \in Signals :
         IF Carriers(event, h, s) = {} THEN h.data[s] = <<>> /\ h.ref[s] = NoRef
         ELSE \A c \in Carriers(event, h, s) :
                h.data[s] = Promised(event, c.d.slot, event.data[c.d.slot, c.chan].times)

HasRefChannel(d) == d.refchan >= 0 \/ d.refindex \in DOMAIN RefMaps

RefChannel(d) == IF d.refchan >= 0 THEN <<d.slot, d.refchan>>
                 ELSE <<RefMaps[d.refindex].slot, RefMaps[d.refindex].chan>>

\* the hits of a reference channel: its pulses, or those found in its samples
RefHits(ev, r) ==
  Promised(ev, r[1], IF ev.data[r].times # <<>> THEN ev.data[r].times ELSE ev.data[r].found)

TakenFrom(times, cut, best, ref, diff) ==
  \E i \in DOMAIN times :
    /\ ref = times[i] /\ diff = (IF i = 1 THEN 0 ELSE times[i] - times[i - 1])
    /\ \A j \in 1 .. i - 1 : times[j] < cut
    /\ ref >= cut \/ (best /\ i = Len(times))

\* The reference time of a signal is the first hit of its reference channel
\* that makes the cut, else the last if the cut says so, else there is none; a
\* channel with samples in which no pulse is found is a case of its own.
ReferencesAreTrue ==
  TriggerTimeGood =>
    \A h \in ToSet(Hits), s \in Signals : \A c \in Carriers(event, h, s) :
      LET cut == IF c.d.slot \in Fadcs THEN AdcCut ELSE TdcCut
          best == IF c.d.slot \in Fadcs THEN AdcBest ELSE TdcBest
          times == RefHits(event, RefChannel(c.d))
      IN  IF ~HasRefChannel(c.d) THEN h.ref[s] = NoRef
          ELSE /\ h.ref[s] = NoRef => \A i \in DOMAIN times : times[i] < cut /\ ~best
               /\ h.ref[s] # NoRef =>
                    \/ TakenFrom(times, cut, best, h.ref[s], h.diff[s])
                    \/ times = <<>> /\ event.data[RefChannel(c.d)].sampled

\* Every plane takes its own hits and no others, so no hit is lost between
\* the planes or taken twice.
EveryHitReachesItsPlane ==
  \A k \in DOMAIN Planes : HitsOfPlane(k) = {i \in 1 .. fNRawHits : Hits[i].fPlane = Planes[k]}

=============================================================================
