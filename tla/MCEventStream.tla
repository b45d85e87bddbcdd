---------------------------- MODULE MCEventStream ----------------------------
(***************************************************************************)
(* What is made of the data stream before any detector is looked at: the   *)
(* parameters, the map and the banks a run starts with, the time and the   *)
(* helicity of an event, the helicity scalers, the scalers, the corrected  *)
(* file with its statistics, and the hit list, one in each behaviour.      *)
(***************************************************************************)
EXTENDS Integers, SequencesExt, HelicityReader, HelicityScaler, ScalerEvtHandler, TimeSyncFilter,
  TimeSyncStats

CONSTANTS NoRef, NoTime, Tdc1, Tdc2  \* model values

\* the part of the program that is drawn, and its variables in their order
VARIABLES drawn, var1, var2, var3, var4, var5, var6, var7, var8

idleVars == <<var1, var2, var3, var4, var5, var6, var7, var8>>
streamVars == <<drawn, vars, hscalerVars, scalerVars, filterVars, statVars, idleVars>>

---------------------------------------------------------------------------
(* The hit list of two planes with two counters: the TDCs in slot 1, the   *)
(* ADCs in slots 2 and 3, mapped out of order and partly in reverse; one   *)
(* indexed and one own reference channel of each kind.  The events vary    *)
(* the order of the channels, the reference channels and the slips, each   *)
(* against a fixed choice of the others.                                   *)

Entry(slot, plane, lo, hi, reverse, signal, refchan, refindex) ==
  [slot |-> slot, plane |-> plane, lo |-> lo, hi |-> hi, first |-> 1, reverse |-> reverse,
   signal |-> signal, refchan |-> refchan, refindex |-> refindex]

TheMap ==
  <<Entry(1, 2, 0, 1, TRUE, "tdc", -1, 1), Entry(1, 1, 2, 3, FALSE, "tdc", 7, -1),
    Entry(2, 1, 0, 1, FALSE, "adc", -1, 2), Entry(3, 2, 0, 0, FALSE, "adc", 5, -1)>>

TheRefs == <<[slot |-> 1, chan |-> 7], [slot |-> 3, chan |-> 5]>>
TheFadcs == {2, 3}
ThePlanes == <<1, 2>>
Cut == 300

Channel(times, sampled, found) == [times |-> times, sampled |-> sampled, found |-> found]
Quiet == Channel(<<>>, FALSE, <<>>)

\* the content of the detector's channels; those of a slot not in its order are not read
Content(tdcRef, adcRef) ==
  [at \in ({1} \X (0 .. 3)) \union ({2} \X (0 .. 1)) \union {<<3, 0>>, <<1, 7>>, <<3, 5>>} |->
     CASE at = <<1, 7>> -> tdcRef
       [] at = <<3, 5>> -> adcRef
       [] at = <<2, 1>> -> Channel(<<1000, 1100>>, TRUE, <<1000>>)
       [] at = <<2, 0>> -> Channel(<<>>, TRUE, <<900>>)
       [] OTHER -> Channel(<<500 + at[2]>>, FALSE, <<>>)]

Event(orders, tdcRef, adcRef, ti, slips) ==
  [order |-> [slot \in 1 .. 3 |-> orders[slot]], data |-> Content(tdcRef, adcRef),
   ti |-> ti, slip |-> (2 :> slips[1] @@ 3 :> slips[2])]

GoodRef == Channel(<<400>>, FALSE, <<>>)
TdcRefs == {Channel(t, FALSE, <<>>) : t \in {<<>>, <<100>>, <<100, 200>>, <<100, 400, 500>>, <<300>>}}
AdcRefs == TdcRefs \union {Channel(<<>>, TRUE, t) : t \in {<<>>, <<100>>, <<200, 350>>}}

OrderEvents ==
  {Event(o, GoodRef, GoodRef, 20, <<1, 0>>) :
     o \in {<<>>, <<3>>, <<7, 0, 2>>, <<1, 0, 3, 2>>, <<2, 3, 1, 0>>} \X {<<>>, <<1, 0>>, <<1>>}
           \X {<<>>, <<5, 0>>}}

RefEvents ==
  {Event(<<<<2, 1>>, <<0, 1>>, <<0>>>>, r[1], r[2], 20, <<1, 0>>) :
     r \in (TdcRefs \X {GoodRef}) \union ({GoodRef} \X AdcRefs)}

SlipEvents ==
  {Event(<<<<0>>, <<0, 1>>, <<0>>>>, GoodRef, Channel(<<280, 400>>, FALSE, <<>>), ti, s) :
     ti \in {NoTime, 3, 7, 31}, s \in {<<1, 0>>, <<-1, 1>>, <<0, -1>>}}

TheEvents == OrderEvents \union RefEvents \union SlipEvents

H == INSTANCE HitList WITH
  pool <- var1, fNRawHits <- var2, fTrigTimeShiftMap <- var3, fNTDCRef_miss <- var4,
  fNADCRef_miss <- var5, event <- var6, quiet <- var7, decoded <- var8,
  DetMap <- TheMap, RefMaps <- TheRefs, Fadcs <- TheFadcs, Planes <- ThePlanes, Events <- TheEvents,
  SlipCorrection <- TRUE, TdcCut <- Cut, TdcBest <- FALSE, AdcCut <- Cut,
  AdcBest <- TRUE, Tick <- 64, Word <- 32, MaxHits <- 2, MaxEvents <- 2

ASSUME HitListOK == H!HitListAssumption

---------------------------------------------------------------------------
(* Parameter files of up to five lines, read for run 105 or for all runs.  *)

Numbers(ranges) == [k |-> "numbers", ranges |-> ranges]
Value(name, items) == [k |-> "values", name |-> name, items |-> items]
Int1(n) == [t |-> "int", v |-> 2 * n]
Half(n) == [t |-> "float", v |-> n]
Ref(name) == [t |-> "ref", name |-> name, v |-> 2]
Text == [k |-> "string", name |-> "b", text |-> "word"]
Inc(file) == [k |-> "include", file |-> file]

ParmLines ==
  {Value("a", <<Int1(1), Int1(2)>>), Value("b", <<Half(3)>>), Value("b", <<Ref("a"), Int1(4)>>),
   Value("", <<Half(-1), Int1(3)>>), Numbers(<<<<5, 5>>>>), Numbers(<<<<100, 110>>, <<7, 7>>>>),
   Text, Inc("b"), Inc("none")}

IncludedB == <<Value("c", <<Int1(5)>>), Numbers(<<<<1, 1>>, <<9, 4>>>>), Inc("c"), Value("", <<Half(5)>>)>>
IncludedC == <<[k |-> "blank"], Value("a", <<Half(7)>>)>>

Ask(name, type, nelem, optional) == [name |-> name, type |-> type, nelem |-> nelem, optional |-> optional]
RequestList ==
  <<Ask("c", "double", 2, TRUE), Ask("a", "int", 2, FALSE), Ask("b", "int", 0, FALSE), Ask("b", "string", 0, TRUE),
    Ask("a", "double", 1, FALSE)>>

\* A file begins with a name, and with the ranges of runs if it is read for a run.
MCParmSetups ==
  {[run |-> 0, list |-> RequestList, files |-> ("top" :> <<Value("a", <<Int1(6)>>)>> \o t @@
                                                "b" :> IncludedB @@ "c" :> IncludedC)] :
     t \in [1 .. 3 -> ParmLines]} \union
  {[run |-> 105, list |-> RequestList, files |-> ("top" :> <<Numbers(<<<<100, 104>>, <<105, 105>>>>),
                                                   Value("a", <<Int1(6)>>)>> \o t @@
                                                  "b" :> IncludedB @@ "c" :> IncludedC)] :
     t \in [1 .. 3 -> ParmLines]}

L == INSTANCE ParmList WITH
  setup <- var1, ifiles <- var2, log <- var3, rd <- var4, parms <- var5, TextList <- var6,
  got <- var7, pc <- var8, ParmSetups <- MCParmSetups

---------------------------------------------------------------------------
(* Map files: a beginning and up to four more lines, for two detectors.    *)

Sets(k, v) == [k |-> k, v |-> v, v2 |-> -1]
Chan(channel, plane, counter, signal) ==
  [k |-> "channel", channel |-> channel, plane |-> plane, counter |-> counter, signal |-> signal]
Name(name, id) == [k |-> "id", name |-> name, id |-> id]

MapStart == <<Name("hodo", 2), Name("cer", 3), Sets("roc", 1), Sets("detector", 2), Sets("slot", 5), Chan(0, 1, 1, 0)>>
MapLines ==
  {Chan(1, 1, 2, 0), Chan(2, 1, 3, 0), Chan(2, 2, 1, 1), Sets("refindex", 1), Sets("refchan", 15), Sets("detector", 3),
   Sets("roc", 2), [k |-> "slot", v |-> 6, v2 |-> 31], Sets("slot", 5), Sets("nsubadd", 96)}
LongMap ==
  MapStart \o <<Sets("refindex", 1), Chan(2, 1, 3, 0), Sets("nsubadd", 64), Sets("bsub", 16), Chan(1, 1, 2, 0), Chan(3, 1, 4, 0),
    Sets("slot", 6), Chan(4, 1, 5, 0), Sets("bsub", 17), Chan(5, 1, 6, 0), Sets("slot", 5), Chan(4, 1, 5, 0),
    Sets("detector", 3), Chan(6, 1, 1, 0)>>

MCMapSetups ==
  {[name |-> name, files |-> <<MapStart \o t>>] : name \in {"hodo", "aero"}, t \in [1 .. 3 -> MapLines]} \union
  {[name |-> name, files |-> <<LongMap>> \o more] : name \in {"hodo", "cer"},
     more \in {<<>>, <<<<Name("hodo", 2), Sets("detector", 2), Chan(0, 1, 1, 0)>>>>}}

D == INSTANCE DetectorMap WITH
  setup <- var1, at <- var2, rd <- var3, fTable <- var4, fIDMap <- var5, detmap <- var6, pc <- var7,
  MapSetups <- MCMapSetups

---------------------------------------------------------------------------
(* Configuration events: one of any two or three blocks, or two events of  *)
(* one block each, whole or cut.                                           *)

Fadc(version, v) == [k |-> "fadc", level |-> v, version |-> version, values |-> <<v, v + 1>>]
Thr(slot, v) == [k |-> "thr", slot |-> slot, values |-> <<v, 7>>]
Caen(version, v) == [k |-> "caen", version |-> version, values |-> <<v, 8, v>>]
Ti(version, p, q) ==
  [k |-> "ti", version |-> version, values |-> IF version = 2 THEN <<4, 6, 9, p, q>> ELSE <<3, p, q>>]

ConfBlocks ==
  {Fadc(3, 1), Fadc(0, 2), Thr(5, 4), Thr(6, 2), Caen(1, 3), Caen(0, 4), Ti(1, 0, 5), Ti(2, 1, -1), Ti(0, 2, 2)}
Conf(c, blocks, cut) == [roc |-> c, blocks |-> blocks, cut |-> cut]

MCConfigSetups ==
  {<<Conf(1, b, cut)>> : b \in [1 .. 3 -> ConfBlocks], cut \in 0 .. 1} \union
  {<<Conf(1, <<Fadc(3, 9), Thr(5, 8), Ti(1, 17, 2)>>, 0), Conf(c, b, cut)>> :
     c \in {1, 2}, b \in [1 .. 2 -> ConfBlocks], cut \in 0 .. 4}

G == INSTANCE ConfigEvents WITH
  setup <- var1, now <- var2, ip <- var3, fCrateInfoMap <- var4, published <- var5, ps_factors <- var6,
  pc <- var7, NTHR <- 2, NPS <- 2, NFadc <- 2, ConfigSetups <- MCConfigSetups, Checked <- FALSE

---------------------------------------------------------------------------
(* Two banks: one of any kind, and a whole one after it.                   *)

TiEvent(n) == "number" :> n @@ "type" :> 1
TiEvents ==
  {TiEvent(n) @@ t @@ o : n \in {4}, t \in {"time" :> 8},
     o \in {<<>>, "counter" :> 6, "counter" :> 9, "bits" :> 3, "counter" :> 7 @@ "bits" :> 2}}
Bank(time, events, garbage, fill, trailing, cut) ==
  [time |-> time, events |-> events, garbage |-> garbage, fill |-> fill, trailing |-> trailing, cut |-> cut]
PlainBank == Bank(FALSE, <<TiEvent(1) @@ "bits" :> 5, TiEvent(2) @@ "bits" :> 5>>, 0, 1, 0, 0)

MCBlobSetups ==
  {[hint |-> hint, banks |-> <<Bank(TRUE, e, g, fill, trailing, cut), PlainBank>>] :
     hint \in {"none", "counter", "bits"}, e \in UNION {[1 .. n -> TiEvents] : n \in 1 .. 2},
     g \in 0 .. 1, fill \in {0, 2}, trailing \in 0 .. 1, cut \in {0, 1, 3}}

I == INSTANCE TIBlob WITH
  setup <- var1, now <- var2, p <- var3, evtblk <- var4, rd <- var5, fData <- var6, got <- var7,
  pc <- var8, BlobSetups <- MCBlobSetups, Magic <- 9

---------------------------------------------------------------------------
(* Configuration texts: two of up to three lines, for one or two crates.   *)

Conf137(key, vals) == [key |-> key, vals |-> vals]
TextLines ==
  {Conf137("slot", <<4>>), Conf137("slot", <<5>>), Conf137("nsa", <<20>>), Conf137("nsa", <<40>>), Conf137("ped", <<1, 2>>)}
TextOf(c, lines) == [roc |-> c, lines |-> lines]

MCTextSetups ==
  {[fMakeParms |-> b, texts |-> <<TextOf(1, s), TextOf(c, t)>>] :
     b \in BOOLEAN, c \in {1, 2}, s, t \in [1 .. 2 -> TextLines]}

K == INSTANCE Evt137 WITH
  setup <- var1, fNDecoded <- var2, at <- var3, slot <- var4, fConfigDataMap <- var5, fCounter <- var6,
  parms <- var7, tree <- var8, TextSetups <- MCTextSetups, SlotKey <- "slot", NoSlot <- 0

ASSUME TextsOK == K!TextsAreLines

---------------------------------------------------------------------------
(* Scaler maps of four lines: two variables and scalers of two slots, one  *)
(* of a model nobody knows, lines that are cut, and two clocks.            *)

ScalerVar(slot, kind, name, words) ==
  [k |-> "variable", slot |-> slot, chan |-> 3, kind |-> kind, name |-> name, words |-> words]
ScalerLine(model, slot, header, clkchan, words) ==
  [k |-> "map", model |-> model, crate |-> 1, slot |-> slot, header |-> header, clkchan |-> clkchan,
   clkfreq |-> 1000, words |-> words]

ScalerLines ==
  {ScalerVar(1, 1, "clk", 9), ScalerVar(2, 2, "bcm", 5), ScalerVar(2, 4, "q", 4),
   ScalerLine(3801, 1, 16, 0, 9), ScalerLine(3801, 2, 17, -1, 7), ScalerLine(9250, 2, 18, 5, 9),
   ScalerLine(1190, 1, 19, 6, 9), ScalerLine(3801, 1, 20, 2, 8), ScalerLine(3801, 1, 21, 2, 6)}
MCScalerFiles ==
  {[lines |-> t, fOnlyBanks |-> FALSE] : t \in [1 .. 4 -> ScalerLines]} \union
  {[lines |-> t, fOnlyBanks |-> TRUE] : t \in [1 .. 2 -> ScalerLines]}

Z == INSTANCE ScalerMap WITH
  setup <- var1, at <- var2, scalerloc <- var3, scalers <- var4, clock <- var5, found <- var6, pc <- var7,
  ScalerFiles <- MCScalerFiles, Models <- {560, 1151, 3800, 3801, 9001, 9250}

RunStartInit ==
  \/ drawn = "parameters" /\ L!Init
  \/ drawn = "map" /\ D!Init /\ var8 = 0
  \/ drawn = "configuration" /\ G!Init /\ var8 = 0
  \/ drawn = "texts" /\ K!Init
  \/ drawn = "blocks" /\ I!Init
  \/ drawn = "scaler map" /\ Z!Init /\ var8 = 0

RunStartNext ==
  \/ drawn = "parameters" /\ L!Next
  \/ drawn = "map" /\ D!Next /\ UNCHANGED var8
  \/ drawn = "configuration" /\ G!Next /\ UNCHANGED var8
  \/ drawn = "texts" /\ K!Next
  \/ drawn = "blocks" /\ I!Next
  \/ drawn = "scaler map" /\ Z!Next /\ UNCHANGED var8

---------------------------------------------------------------------------
(* The reader, the helicity scalers, the scalers and the time              *)
(* synchronisation, in their own variables, with the constants of the cfg. The reader: two runs,     *)
(* with a time word that rolls over twice in each. The helicity scalers: a *)
(* ring of four bits; the default offset of the quartet bit is -3. The     *)
(* scalers: words of two bits, and up to two reads of the end routine. The *)
(* filter: seven events, in which noise comes twice.                       *)

Idle == var1 = 0 /\ var2 = 0 /\ var3 = 0 /\ var4 = 0 /\ var5 = 0 /\ var6 = 0 /\ var7 = 0 /\ var8 = 0

\* Reads without beam and with a dead clock, once the seed is full.
Beam(offset) ==
  [Offset |-> offset, LastWindow |-> 25, SteadyUntil |-> 17, MaxLost |-> 0, LastLoss |-> 0]

\* Up to four reads lost, and time to fill the seed anew.
Lossy(offset) ==
  [Offset |-> offset, LastWindow |-> 36, SteadyUntil |-> 60, MaxLost |-> 4, LastLoss |-> 10]

\* One read lost after the first helicities were given.
OneLost == [Offset |-> 0, LastWindow |-> 34, SteadyUntil |-> 60, MaxLost |-> 1, LastLoss |-> 30]

MCScalerSetups == {Beam(offset) : offset \in {-3, 0, 3}} \union {Lossy(0), Lossy(3), OneLost}

---------------------------------------------------------------------------
(* Statistics of up to four events with two crates.                        *)

StatSetup(times, slips, lags, missing, expected, n) ==
  [Times |-> times, Slips |-> slips, Lags |-> lags, Missing |-> missing, Expected |-> <<0, expected>>,
   MaxEvents |-> n]
MCStatSetups ==
  {StatSetup({1, 6, 7}, {-1, 0, 1}, {0}, FALSE, 0, 2), StatSetup({2}, {0}, {0, 1, 3}, FALSE, 0, 4),
   StatSetup({6}, {0, 1}, {0}, TRUE, 2, 3)}

MCStatFadcs == {<<1, 5>>, <<2, 6>>}
MCStatTdcs == {<<2, 7>>}
MCBase == <<0, 3>>

ASSUME CountsAreShort == CountsDoNotTurn

---------------------------------------------------------------------------

\* What the others start from, when one part is drawn.
ReaderIdle == Init /\ daq = [adc |-> "pedestals", coda3 |-> FALSE]
ReadsIdle ==
  HScalerInit /\ setup = Beam(0) /\ phase0 = 0 /\ beam = [i \in 1 .. MAXBIT |-> 1]
StatsIdle == StatsInit /\ statSetup = StatSetup({2}, {0}, {0, 1, 3}, FALSE, 0, 4)

MCInit ==
  /\ ScalerInit /\ FilterInit
  /\ \/ drawn = "reader" /\ Init /\ ReadsIdle /\ StatsIdle /\ Idle
     \/ drawn = "helicity scaler" /\ ReaderIdle /\ HScalerInit /\ StatsIdle /\ Idle
     \/ drawn = "statistics" /\ ReaderIdle /\ ReadsIdle /\ StatsInit /\ Idle
     \/ drawn \in {"scalers", "filter"} /\ ReaderIdle /\ ReadsIdle /\ StatsIdle /\ Idle
     \/ ReaderIdle /\ ReadsIdle /\ StatsIdle /\ ((drawn = "hit list" /\ H!Init) \/ RunStartInit)

MCNext ==
  /\ UNCHANGED drawn
  /\ \/ /\ drawn = "reader" /\ Next
        /\ UNCHANGED <<hscalerVars, scalerVars, filterVars, statVars, idleVars>>
     \/ /\ drawn = "helicity scaler" /\ HScalerNext
        /\ UNCHANGED <<vars, scalerVars, filterVars, statVars, idleVars>>
     \/ /\ drawn = "scalers" /\ ScalerNext
        /\ UNCHANGED <<vars, hscalerVars, filterVars, statVars, idleVars>>
     \/ /\ drawn = "filter" /\ FilterNext
        /\ UNCHANGED <<vars, hscalerVars, scalerVars, statVars, idleVars>>
     \/ /\ drawn = "statistics" /\ StatsNext
        /\ UNCHANGED <<vars, hscalerVars, scalerVars, filterVars, idleVars>>
     \/ /\ UNCHANGED <<vars, hscalerVars, scalerVars, filterVars, statVars>>
        /\ ((drawn = "hit list" /\ H!Next) \/ RunStartNext)

MCSpec == MCInit /\ [][MCNext]_streamVars

---------------------------------------------------------------------------
(* The properties of the part drawn, explained where they are defined.     *)

Types ==
  CASE drawn = "reader" -> TypeInvariant
    [] drawn = "helicity scaler" -> HScalerTypeInvariant
    [] drawn = "scalers" -> ScalerTypeInvariant
    [] drawn = "filter" -> FilterTypeInvariant
    [] drawn = "statistics" -> StatsTypeInvariant
    [] drawn = "hit list" -> H!TypeInvariant
    [] drawn = "parameters" -> L!TypeInvariant
    [] drawn = "map" -> D!TypeInvariant
    [] drawn = "configuration" -> G!TypeInvariant
    [] drawn = "texts" -> K!TypeInvariant
    [] drawn = "blocks" -> I!TypeInvariant
    [] drawn = "scaler map" -> Z!TypeInvariant

\* What a run starts with: the values of the parameter files reach those that ask for
\* them, every channel of the map its detector, and every variable its scaler.
SetupIsTheFiles ==
  CASE drawn = "parameters" -> L!ParametersAreTheFiles /\ L!RequestsAreServed
    [] drawn = "map" -> D!ChannelsAreMapped
    [] drawn = "scaler map" -> Z!VariablesAreMapped
    [] OTHER -> TRUE

\* What the crates have sent of their settings and triggers is what is reported.
BanksAreSent ==
  CASE drawn = "configuration" -> G!ConfigurationIsSent
    [] drawn = "texts" -> K!SettingsAreLatest
    [] drawn = "blocks" -> I!BlocksAreLoaded
    [] OTHER -> TRUE

\* The hit list: its hits in the planes that share it, and their reference times.
HitsAreTheEvent == drawn = "hit list" => H!HitsAreTheEvent /\ H!EveryHitReachesItsPlane
ReferencesAreTrue == drawn = "hit list" => H!ReferencesAreTrue
=============================================================================
