--------------------------- MODULE TimeSyncStats ---------------------------
(***************************************************************************)
(* The slips counted by the time synchronisation handler                   *)
(* (THcTimeSyncEvtHandler.cxx).                                            *)
(*                                                                         *)
(* Each event has the trigger time of the crates' trigger interfaces and   *)
(* FADCs, and the event count of the TDCs.  The offsets to the time of the *)
(* first crate in the first event are taken as right; an event in which an *)
(* offset differs is counted, early or late, by comparing unsigned words.  *)
(* A TDC is right if its count is one behind that of its crate; after a    *)
(* sync event a larger difference is taken as its offset from there on.    *)
(***************************************************************************)
EXTENDS Integers, FiniteSets, Sequences

CONSTANTS
  StatFadcs, StatTdcs, \* the modules, <<roc, slot>>
  Rocs,                \* the crates
  TimeWrap,            \* the trigger times are words of this many values
  CountMask,           \* the event counts of the TDCs too
  Base,                \* the true offsets of the crates and their FADCs
  StatSetups           \* ExpectedOffset, what may happen in an event, and how many there are

\* The slips are of less than a whole turn of the trigger time.
IsStatSetup(s) ==
  /\ s.Times \subseteq Int /\ s.Lags \subseteq Nat
  /\ s.Slips \subseteq {n \in Int : -TimeWrap < n /\ n < TimeWrap}
  /\ s.Missing \in BOOLEAN /\ s.MaxEvents \in Nat
  /\ \A r \in Rocs : s.Expected[r] \in Int

ASSUME StatsAssumption ==
  /\ TimeWrap \in Nat \ {0} /\ CountMask \in Nat \ {0}
  /\ Rocs \subseteq Nat /\ Rocs # {} /\ \A r \in Rocs : Base[r] \in Int
  /\ \A m \in StatFadcs \union StatTdcs : m[1] \in Rocs
  /\ \A s \in StatSetups : IsStatSetup(s)

\* The counts of the TDCs do not turn over within a file: where one does, what was
\* lost is not seen as more than two events.
CountsDoNotTurn == \A s \in StatSetups : s.MaxEvents + 2 < CountMask

VARIABLES
  statSetup,
  statLog,   \* the events analysed
  statEvent, \* the event read, or <<>>
  stats,     \* CrateStatsMap, or <<>> before the first event
  wassync,   \* fLastEventWasSync
  statPc

statVars == <<statSetup, statLog, statEvent, stats, wassync, statPc>>

fMasterRoc == CHOOSE r \in Rocs : \A s \in Rocs : r <= s

StatsInit ==
  /\ statSetup \in StatSetups
  /\ statLog = <<>> /\ statEvent = <<>> /\ stats = <<>> /\ wassync = FALSE
  /\ statPc = "read"

---------------------------------------------------------------------------
(* The events of the DAQ: time passes, an FADC may slip, and a TDC may     *)
(* lose events.  A crate may be missing.                                   *)

NewEvent ==
  /\ statPc = "read" /\ Len(statLog) < statSetup.MaxEvents
  /\ \E time \in statSetup.Times, sync \in BOOLEAN, slip \in [StatFadcs -> statSetup.Slips],
        lag \in [StatTdcs -> statSetup.Lags],
        missing \in (IF statSetup.Missing THEN {{}, Rocs \ {fMasterRoc}} ELSE {{}}) :
       /\ statLog = <<>> => \A f \in StatFadcs : slip[f] = 0
       /\ \A t \in StatTdcs : lag[t] <= Len(statLog) + 3  \* no more than there were
       /\ statEvent' = [time |-> time, sync |-> sync, slip |-> slip, lag |-> lag, rocs |-> Rocs \ missing]
  /\ statPc' = "decoded"
  /\ UNCHANGED <<statSetup, statLog, stats, wassync>>

ti_ttime(r) == (statEvent.time + Base[r]) % TimeWrap
fadcTime(f) == (statEvent.time + Base[f[1]] + statEvent.slip[f]) % TimeWrap
ti_evcount == Len(statLog) + 3
ftdcEvCount(t) == (ti_evcount - 1 - statEvent.lag[t]) % CountMask

---------------------------------------------------------------------------

\* A word less a word, as Int_t: of 32 bits.
Signed(n) == IF n % TimeWrap >= TimeWrap \div 2 THEN (n % TimeWrap) - TimeWrap ELSE n % TimeWrap

\* the crates and modules of the first event
InitStats ==
  [rocs |-> statEvent.rocs,
   tiOffset |-> [r \in statEvent.rocs |-> Signed(ti_ttime(r) - ti_ttime(fMasterRoc))],
   offset |-> [f \in {f \in StatFadcs : f[1] \in statEvent.rocs} |->
                 IF statSetup.Expected[f[1]] # 0 THEN statSetup.Expected[f[1]]
                 ELSE Signed(fadcTime(f) - ti_ttime(fMasterRoc))],
   tiEarly |-> [r \in statEvent.rocs |-> 0], tiLate |-> [r \in statEvent.rocs |-> 0],
   early |-> [f \in StatFadcs |-> 0], late |-> [f \in StatFadcs |-> 0],
   tdcOffset |-> [t \in StatTdcs |-> 1], wrong |-> [t \in StatTdcs |-> 0]]

\* a mutant: the master's time and the offset are added without losing the carry
Expected_NoWrap(offset) == ti_ttime(fMasterRoc) + offset

\* the time an offset stands for, in a word
Expected(offset) == (ti_ttime(fMasterRoc) + offset) % TimeWrap

\* the count of a TDC that is missing
CountDiff(s, t) == (ti_evcount % CountMask) - ((ftdcEvCount(t) + s.tdcOffset[t]) % CountMask)
Corrects(s, t) == wassync /\ CountDiff(s, t) > 2

One(b) == IF b THEN 1 ELSE 0

AccumulateStats(s) ==
  [s EXCEPT
     !.tiEarly = [r \in s.rocs |-> @[r] + One(ti_ttime(r) < Expected(s.tiOffset[r]))],
     !.tiLate = [r \in s.rocs |-> @[r] + One(ti_ttime(r) > Expected(s.tiOffset[r]))],
     !.early = [f \in StatFadcs |-> @[f] + One(f[1] \in s.rocs /\ fadcTime(f) < Expected(s.offset[f]))],
     !.late = [f \in StatFadcs |-> @[f] + One(f[1] \in s.rocs /\ fadcTime(f) > Expected(s.offset[f]))],
     !.wrong = [t \in StatTdcs |-> @[t] + One(t[1] \in s.rocs /\ CountDiff(s, t) # 0 /\ ~Corrects(s, t))],
     !.tdcOffset = [t \in StatTdcs |-> @[t] + IF t[1] \in s.rocs /\ Corrects(s, t) THEN CountDiff(s, t) ELSE 0]]

\* A crate of the first event that is missing now is looked up through a null pointer.
AnalyzeStats ==
  /\ statPc = "decoded"
  /\ LET s == IF stats = <<>> THEN InitStats ELSE stats
     IN  IF s.rocs \subseteq statEvent.rocs THEN stats' = AccumulateStats(s) /\ statPc' = "read"
         ELSE stats' = s /\ statPc' = "crashed"
  /\ wassync' = statEvent.sync
  /\ statLog' = Append(statLog, statEvent)
  /\ UNCHANGED <<statSetup, statEvent>>

StatsNext == NewEvent \/ AnalyzeStats

StatsSpec == StatsInit /\ [][StatsNext]_statVars

---------------------------------------------------------------------------

StatsTypeInvariant ==
  /\ wassync \in BOOLEAN /\ Len(statLog) <= statSetup.MaxEvents
  /\ stats # <<>> => \A f \in StatFadcs : stats.early[f] \in Nat /\ stats.late[f] \in Nat
  /\ statPc \in {"read", "decoded", "crashed"}

Slipped(f) == {i \in DOMAIN statLog : statLog[i].slip[f] # 0}

\* the TDC lost nothing, and then, from event n on, always the same number of events
LostAt(t, n) ==
  /\ \A i \in 1 .. n - 1 : statLog[i].lag[t] = 0
  /\ \A i \in n .. Len(statLog) : statLog[i].lag[t] = statLog[n].lag[t] /\ statLog[n].lag[t] # 0
\* the events until the one after a sync event
Uncorrected(t, n) ==
  {i \in n .. Len(statLog) : statLog[n].lag[t] <= 2 \/ \A j \in n .. i : j = 1 \/ ~statLog[j - 1].sync}

\* An FADC is counted, early or late, in the events in which it slipped and no
\* others, also when the words roll over.
FadcsAreCounted ==
  \A f \in DOMAIN stats.offset :
    statSetup.Expected[f[1]] = 0 => stats.early[f] + stats.late[f] = Cardinality(Slipped(f))

\* While the master and the other crates agree no crate is counted.
CratesAreRight == \A r \in stats.rocs : stats.tiEarly[r] = 0 /\ stats.tiLate[r] = 0

\* A TDC that loses events is wrong until the event after the next sync event if
\* they are more than two, and for good if they are fewer.
TdcsAreCounted ==
  \A t \in StatTdcs : t[1] \in stats.rocs =>
    /\ (\A i \in DOMAIN statLog : statLog[i].lag[t] = 0) => stats.wrong[t] = 0
    /\ \A n \in DOMAIN statLog : LostAt(t, n) => stats.wrong[t] = Cardinality(Uncorrected(t, n))

\* The statistics are those of the slips (AccumulateStats), in every event so far.
SlipsAreCounted ==
  statPc = "read" /\ statLog # <<>> => FadcsAreCounted /\ CratesAreRight /\ TdcsAreCounted
=============================================================================
