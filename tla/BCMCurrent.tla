----------------------------- MODULE BCMCurrent -----------------------------
(***************************************************************************)
(* The beam current of an event, from a table of the scaler reads of an    *)
(* earlier replay (THcBCMCurrent.cxx).  An event has the current of the    *)
(* read at it or, if there is none, of the next one.                       *)
(***************************************************************************)
EXTENDS Integers, Sequences, FiniteSetsExt

CONSTANTS
  BcmMonitors,   \* the five current monitors
  BcmSetups,    \* for each run the table [events, currents]; fBCMIndex and fThreshold
  MaxEvNum

VARIABLES setup, seen, event, det, pc

vars == <<setup, seen, event, det, pc>>

NoCurrent == [m \in BcmMonitors |-> 0]
Table(run) == setup.tables[run]

\* ReadDatabase adds the table of a run; std::map::insert leaves a read that is there.
Insert(info, table) ==
  [n \in DOMAIN info \union {table[i].event : i \in DOMAIN table} |->
     IF n \in DOMAIN info THEN info[n]
     ELSE table[Min({i \in DOMAIN table : table[i].event = n})].current]

Init ==
  /\ setup \in BcmSetups
  /\ seen = 1 /\ event = 0 /\ pc = "ready"
  /\ det = [BCMInfoMap |-> Insert(<<>>, Table(1)), avg |-> NoCurrent, fBCMflag |-> 0]

NextRun ==
  /\ seen < Len(setup.tables)
  /\ seen' = seen + 1 /\ event' = 0
  /\ det' = [det EXCEPT !.BCMInfoMap = Insert(@, Table(seen + 1))]
  /\ pc' = "ready"
  /\ UNCHANGED setup

GetAvgCurrent(info, n) ==
  LET reads == {m \in DOMAIN info : m >= n} IN IF reads = {} THEN NoCurrent ELSE info[Min(reads)]

WithCurrent(d, avg) ==
  [d EXCEPT !.avg = avg,
            !.fBCMflag = IF setup.fBCMIndex \in BcmMonitors /\ avg[setup.fBCMIndex] >= setup.fThreshold THEN 1 ELSE 0]

Process ==
  /\ event < MaxEvNum
  /\ event' = event + 1
  /\ det' = WithCurrent(det, GetAvgCurrent(det.BCMInfoMap, event + 1))
  /\ pc' = "processed"
  /\ UNCHANGED <<setup, seen>>

Next == NextRun \/ Process

Spec == Init /\ [][Next]_vars

---------------------------------------------------------------------------
(* Properties.                                                             *)

TypeInvariant ==
  /\ seen \in 1 .. Len(setup.tables) /\ event \in 0 .. MaxEvNum
  /\ det.fBCMflag \in {0, 1} /\ pc \in {"ready", "processed"}
  /\ \A n \in DOMAIN det.BCMInfoMap : DOMAIN det.BCMInfoMap[n] = BcmMonitors

\* In the first run an event's current is that of the first read that is not before it,
\* and there is none after the last read (THcBCMCurrent::Process, GetAvgCurrent).  In
\* later runs the reads of the earlier ones are still in the map.
CurrentIsOfNextRead ==
  pc = "processed" /\ seen = 1 =>
    LET later == {i \in DOMAIN Table(1) : Table(1)[i].event >= event}
        first(i) == \A j \in later : Table(1)[i].event <= Table(1)[j].event
    IN  IF later = {} THEN det.avg = NoCurrent
        ELSE \E i \in later : first(i) /\ det.avg = Table(1)[i].current
=============================================================================
