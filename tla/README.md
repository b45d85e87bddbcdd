# hcana: models, checks and proofs

hcana is the Hall C analyzer of Jefferson Lab: a ROOT program on top of the
podd analyzer that replays a data file event by event. It has one thread. What
makes it hard is not scheduling but **memory between events**: clocks and
scalers that roll over, counters of windows and quartets, bits collected over
minutes of beam, banks that slip from one event into the next, events held back
to be analysed later, hit objects used again. The events themselves come from a
data acquisition that loses, delays and reorders things. That state, and what
the input may do to it, is what this project models.

Paths below are relative to `src/` of the repository; `THcX` is
`src/THcX.cxx` there. The base classes (podd, ROOT) are not part of the
repository; they are modelled from how hcana uses them.

## 1. Inventory

### Components with state that outlives an event

| Component | State it keeps | Operations | Works with |
|---|---|---|---|
| Helicity bit ring (`THcHelicity` 650-780, `THcHelicityScaler` 1059-1074) | a seed of 30 bits | `RanBit30`, `GetSeed30` | both helicity decoders |
| Helicity event decoder (`THcHelicity`) | time of the last MPS, cycle count and guess of the first cycle, quartet phase and its problems, last four reports, two rings (reported, actual), disabled flag | `Begin`, `Decode`, `LoadHelicity`, `SetHelicityScaler`, `End` | asks the reader for the lines, the scaler handler for a seed; gives every event its helicity |
| Helicity reader (`THcHelicityReader`) | last TI time, rollovers, ADC/TI time difference, raw-samples mode | `ReadData`, `Begin`, `ReadDatabase`, `SetROCinfo` | called by `THcHelicity::Decode` |
| Helicity scaler handler (`THcHelicityScaler`) | history of reads, cycle offset and phase, seed and bit count, quartet sums, delayed event | `Analyze`, `AnalyzeBuffer`, `AnalyzeHelicityScaler`, `End` | gives its seed and "good" flag to `THcHelicity` |
| Scaler event handler (`THcScalerEvtHandler`) | previous words and rollovers of each channel and of the clock, totals, sums cut on the beam current, delayed events | `Analyze`, `AnalyzeBuffer`, `End` | parameters read by reports and by `THcBCMCurrent` |
| Time synchronisation handler (`THcTimeSyncEvtHandler`) | event held back and its bank, slip flags, output file; statistics of time differences | `Analyze`, `WriteEvent`, `AllTdcsPresent`, `InitStats`, `AccumulateStats`, `DumpStats`, `End` | reads the raw buffer; writes a new file |
| Hit list (`THcHitList`) and raw hits (`THcRawAdcHit`, `THcRawTdcHit`, `THcRaw*Hit`) | the hit objects, the time shifts of the flash ADCs, cached slot of the trigger interface, missing-reference counts, integration parameters | `InitHitList`, `DecodeToHitList`, `MissReport` | filled from the detector map; consumed by planes |
| Detector planes (`THcScintillatorPlane`, `THcDriftChamberPlane`, `THcShowerPlane`, `THcShowerArray`) | hits of the event, pedestal sums of the pedestal events | `ProcessHits`, `AccumulatePedestals`, `CalculatePedestals` | each starts in the list where the one before stopped |
| Drift chambers (`THcDC`, `THcDriftChamber`, `THcDC*`) | space points and stubs of the event, efficiency counts of the run | `FindSpacePoints`, `NewFindSpacePoints`, `SpacePointMultiWire`, `ChooseSingleHit`, `SelectSpacePoints`, `CorrectHitTimes`, `LeftRight`, `LinkStubs`, `NewLinkStubs`, `TrackFit`, `Eff` | hits from the planes, start time from the hodoscope, tracks to the spectrometer |
| Hodoscope (`THcHodoscope`, `THcHodoEff`) | times and start time of the event, histograms of times, efficiency counts | `Decode`, `EstimateFocalPlaneTime`, `CoarseProcess`, `TrackEffTest` | start time to the chambers, beta to the tracks |
| Calorimeter (`THcShower*`) | clusters of the event | `ClusterHits`, `MatchCluster` | clusters to the tracks |
| Spectrometer (`THcHallCSpectrometer`) | tracks and golden track of the event | `TrackCalc`, `SelectBestTrack*`, `BestTrackSimple` | tracks from the chambers |
| Cherenkov and aerogel (`THcCherenkov`, `THcAerogel`) | pedestal sums and limits; pulses and sums of the event | `Decode`, `ProcessHits`, `CoarseProcess`, `FineProcess` | hits from the list, start time from the hodoscope, regions of the golden track |
| Configuration events (`THcConfigEvtHandler`, `THcEvt137Handler`, `TIBlobModule`) | what each crate sent of its settings, the parameters made of it, the block of the trigger interface | `Analyze`, `MakeParms`, `LoadBank`, `LoadNextEvBuffer`, `End` | read by the hit list |
| Detector map (`THcDetectorMap`) | the channels of all detectors | `Load`, `FillMap` | the hit list asks for the ranges of its detector |
| Parameters (`THcParmList`, `THcInterface`, `THcFormula`) | the parameter database | `Load`, `LoadParmValues`, `PrintFull` | everything reads it |
| Beam (`THcRaster`, `THcBPM`, `THcBCMCurrent`) | pedestals, the last EPICS values, the table of currents | `Decode`, `Process`, `ReadDatabase` | the beam position goes to the spectrometers |
| Run control (`THcAnalyzer`, `THcPeriodicReport`, `THcRun*`) | what reports are due | `PrintReport`, `Analyze` | reads parameters and scalers |

### Components that compute from one event only

The trigger detector (`THcTrigDet`) with the coincidence and RF times, and the
kinematics (`THcPrimaryKine`, `THcSecondaryKine`), turn the hits and tracks of one
event into numbers; which numbers they take, and of which event and arm, is
modelled, the functions of reals are not. The reaction point and the extended
target are such functions and nothing else. `hc_cal_calib/`, `examples/` and
`docs/` are tools, macros and texts.

### What makes each part correct

- *Event decoder*: it may not know, but it never lies; once calibrated it
  answers each event with the helicity of its own window, and faults it is
  said to tolerate do not turn right answers into wrong ones; a calibration
  is reached again.
- *Reader*: times never go back or skip a rollover; no line is read as up that
  is down.
- *Scaler helicity*: every helicity is that of its own window; a quartet counts
  whole or not at all.
- *Scalers*: time, counts and charge are those of the hardware, whatever rolled
  over; a variable is filled from the channel its line of the map names.
- *Time synchronisation*: an event of the corrected file has its own bank; no
  event is lost; each slip is counted, and counted once.
- *Hit list*: sorted, complete, one hit for a counter, nothing of an earlier
  event; references by the rule of the cut; a plane gets its hits.
- *Start of a run*: each channel reaches its detector, each value the variable it
  is written for, each setting the crate and the slot that sent it.
- *Drift chambers*: a particle alone gives a point; a point stands on enough
  planes and on the fastest hit of each; one point's correction and sides leave those
  of the others; each match of two stubs is a track, once, or the event is given up
  whole; a line goes through the hits of its own track.
- *Counters, hodoscope, calorimeter*: the pulse that is taken is the one the rule
  names; nothing stays of an earlier event; pedestals are of all pedestal events; times
  are of ends and hits that are good; clusters are what is connected; an event counts
  for an efficiency once, where its track passes, and with the hit nearest to it.
- *Spectrometer, beam, physics*: the golden track is the one the chosen method
  promises; the beam is that of the event; the times of two arms are compared in the
  same order; energy and momentum are conserved.

## 2. Modules

Data stream and helicity:

| Module | Models | State | Actions |
|---|---|---|---|
| `HelicityRing` | `RanBit30`, `GetSeed30` for a ring of `MAXBIT` bits and any `Taps` | - | operators of the two helicity decoders |
| `HelicityOracle` | abstract: what the decoder promises | `sign settling locked answer` | `Search`, `Answer` |
| `HelicityDecoder` | `THcHelicity::Decode`, `LoadHelicity` | `dec` (members); `setup win tick phase0 beam faults` (accelerator and DAQ) | one for each way through `Decode`: `DecodeInTime`, `DecodeMissedEvents`, `DecodeDisabled`, `DecodeFirst`, `DecodeMPS`, `DecodeBeforeMPS`, `DecodeSameCycle`, `DecodeNewCycle` |
| `HelicityReader` | `THcHelicityReader` | `rd`; `run clock daq line lossless` | `BeginRun`, `ReadData` |
| `HelicityScaler` | `THcHelicityScaler` | `hs`; `setup win phase0 beam lost final finished` | `AnalyzeRead` (a turn of `AnalyzeBuffer`), `LoseRead` (DAQ), `SaveFinalRead` (the delayed event in `Analyze`), `EndReads` |
| `ScalerEvtHandler` | `THcScalerEvtHandler`, the reads | `sc`; `now seen unmeasured delayed ended` | `Analyze`, `SaveDelayed`, `EndDelayed`, `End` |
| `TimeSyncFilter` | `THcTimeSyncEvtHandler`, the filter | `h out`; `read prev slip noisy closed` | `AnalyzeEvent`, `PassThrough`, `CloseFile` |
| `TimeSyncStats` | its statistics | `stats wassync`; `statSetup statLog statEvent statPc` | `NewEvent` (DAQ), `AnalyzeStats` |
| `HitList` | `THcHitList`, `Clear` of the raw hits, the loop over the planes | `pool fNRawHits fTrigTimeShiftMap` and the counts; `event quiet` | `Decode` |
| `NatLemmas`, `HelicityRingProofs`, `HelicityDecoderProofs`, `HelicityReaderProofs`, `HelicityScalerProofs`, `ScalerEvtHandlerProofs`, `TimeSyncProofs` | the proofs (section 4); those of the decoder and of the helicity scalers extend `HelicityRingProofs` | | |

Start of a run:

| Module | Models | Actions |
|---|---|---|
| `ParmList` | `THcParmList::Load`, `LoadParmValues` | one for each kind of line (`Include`, `RunRanges`, `Skip`, `AddString`, `AddValues`, `EndOfFile`), `LoadParmValues` |
| `DetectorMap` | `THcDetectorMap::Load`, `FillMap` | `NewId`, `Setting`, `NewChannel`, `NextFile`, `FillMap` |
| `ScalerMap` | `THcScalerEvtHandler::Init` | `Variable`, `Map`, `TooShort`, `LoadNormScaler`, `LinkVariables` |
| `ConfigEvents` | `THcConfigEvtHandler` | `Analyze`, one for each kind of block, `MakeParms` |
| `Evt137` | `THcEvt137Handler` | `AnalyzeLine`, `MakeParms`, `SaveConfigData` |
| `TIBlob` | `TIBlobModule` | `LoadBank` and the scan that follows (`ScanEvent`, `TooFewEvents`, `TrailerOutside`, `Trailer`), `LoadNextEvBuffer` |

Drift chambers:

| Module | Models | Actions |
|---|---|---|
| `DriftHits` | planes, chambers, look-up of the distance, the wires of the best track | `Decode`, `CoarseTrack`, `SetFocalPlaneBestTrack` |
| `SpacePoints` | `THcDriftChamber`, from `ProcessHits` to `CorrectHitTimes` | one for each routine, in the order of the calls |
| `LinkStubs` | `THcDC::LinkStubs`, `NewLinkStubs` | one for each way through a turn of the loops |
| `DriftFit` | `LeftRight`, the linking of what has a stub, `TrackFit` | `LeftRight` (a point), `LinkStubs`, `TrackFit` (a turn), `DoubleResiduals` |

Detectors, beam and physics:

| Module | Models | Actions |
|---|---|---|
| `Waveform` | `THcRawAdcHit::SetSampIntTimePedestalPeak` | `Begin`, `TakePedestal`, `AwaitBelow`, `FindPulse`, `NoPulse`, `End` |
| `PulseList` | what the lists of pulses and the pedestals have in common | - |
| `Cherenkov`, `Aerogel` | `THcCherenkov`, `THcAerogel` | `Decode`, `CoarseProcess`, `FineProcess` |
| `ScintillatorPlane` | `THcScintillatorPlane` | `Decode` |
| `Hodoscope` | `THcHodoscope` | `Decode`, `CoarseProcess`, `Fine`; `Determine` (the search for the time peak alone) |
| `HodoEff` | `THcHodoEff` | `Analyze` |
| `ShowerPlane`, `ShowerArray` | `THcShowerPlane`, `THcShowerArray` | operators of `Shower` |
| `Shower` | `THcShower` | `Decode`, `CoarseProcess`, `FineProcess` |
| `BestTrack` | `THcHallCSpectrometer` | `FindVertices`, `TrackCalc` |
| `Coincidence` | `THcTrigDet`, `THcCoinTime`, `THcRFTime` | `Decode`, `CoinTime`, `RFTime`, `EndEvent`, `LoadEpics`, `NextRun` |
| `Raster`, `BPM` | `THcRaster`, `THcBPM` | `Decode`, `Process` |
| `BCMCurrent` | `THcBCMCurrent` | `NextRun`, `Process` |
| `Kinematics` | `THcPrimaryKine`, `THcSecondaryKine` | `Clear`, `Primary`, `Secondary` |

Conventions: members keep their names in the source; the members of a class are
one record (`dec`, `sc`, `rd`, `h`, `det`) so that the stages of a handler are
functions from record to record in the order of the code, and one step is one
call of the handler. Variables beside the record describe the truth: the
accelerator, the clocks, the file, the event. Properties compare the two. A
definition named `X_Something` in front of `X` is a mistake a change of `X` could
make, kept to show that a property would notice it; nothing uses it.

Most modules have a variable `setup` that the initial state draws from a set of
setups and no step changes: what the database configures, what the DAQ records, and
what may go wrong in the run, with its bounds. One run thus covers several
experiments. `pc` is the stage of the event or the file that comes next.

### How modules are put together

The parts of hcana hand results on within an event but share little state, so a run
takes one part in each behaviour, with every input the parts before it could give:
`MCTracking` draws one of the four modules of the drift chambers, `MCEventStream` one
of twelve before any detector, `MCDetectors` one of fourteen. A variable `drawn` says which;
the variables `var1` to `var8` are those of the module drawn, substituted in its INSTANCE.
`MCEventStream` EXTENDS `HelicityReader`, `HelicityScaler`, `ScalerEvtHandler`, `TimeSyncFilter`
and `TimeSyncStats`: their variables
are its own (initial where another part is drawn) and their constants are in its cfg, so that
the run checks the very formulas that the proofs state.
A property of such a run is the conjunction of what the parts say of one matter:
`NothingStale`, `PedestalsAreCurrent`, `PulsesAreChosen` are about eight detectors.

Where parts share objects they are one module. The scintillator, drift chamber and
shower planes share the hit list (`HitList`); the layers and the array of the
calorimeter are instances in `Shower`; the trigger detector and both time modules are
`Coincidence`; both kinematics modules, in either order, are `Kinematics`; the
space points, the hits they share and the tracks that copy them are `DriftFit`.

### The event decoder

The beam helicity is drawn from a 30 bit ring, one bit for each quartet of
windows (`+--+` or `-++-`), and reported eight windows late. `Decode` sees
events, any number in a window or none, with the reported sign, the MPS flag at
the start of a window and the QRT flag in the first window of a quartet. An
event's time tells how many windows passed (`PeriodsMissed`, `SkipMissed`,
THcHelicity:393-435), the QRT flag (`TrackQRT`, 463-492) or the pattern of the
last four reports (`TrackWithoutQRT`, 495-540) tells the phase, and each first
window of a quartet gives a bit (`LoadHelicity`, 640-728), or the scaler
handler gives all of them (`AdoptSeed`). With all bits the decoder advances two
rings, one for the report, one eight windows ahead, and compares.

`Next` lets the next event come in any window up to `setup.MaxGap` on, at any tick
of `EventTicks`, with a wrong QRT flag or an unknown report at most
`setup.MaxFaults` times; `SteadyNext` is the same at a rate that gives every window an event in
its MPS and one after it.

### The other modules

`HelicityReader` follows the time word through rollovers and events without a
TI time. `HelicityScaler` puts one read for each window into banks; one bank of
the end routine may stand before physics events, and reads may be lost.
`ScalerEvtHandler` has a clock and one channel (its count, its charge, and their
sums cut on the current). `TimeSyncFilter` has banks as sets of the events whose
data they hold. `HitList` gives an event as channels in the order of the
readout, with true times; a flash ADC reports them shifted by its slip.

### The start of a run

A file is a sequence of lines, each a record of what the line says, of which any
combination of a few kinds is drawn; comments, quotes and white space are left out.
`ParmList` has included files, the ranges of runs of the first file, values that go on in
the next line, expressions, and the growth of an array and its change to doubles; its
reference definition says what value each place of each variable should have.
`DetectorMap` has the settings that hold for the lines behind them, and the grouping
of channels to ranges. `ConfigEvents`, `Evt137` and `TIBlob` have banks whole and cut.

### The drift chambers

`DriftHits` takes the times of the wires of three planes to distances. `SpacePoints` is one
chamber and one event. The wires have integer positions and two planes are parallel or
span a unit square, so that all crossings are integers, and places are kept in units of
1/`Grain` so that means of up to six hits are exact; the code's tests on squared
distances then mean what they mean with reals. Times are integers, and the time a signal
takes along its wire is a linear function of the place. `FindHardSpacePoints` looks at
pairs of pairs of hits; it and the cloning are folds in the order of the loops, since
which point takes a combination depends on it. `LinkStubs` is given the stubs and which
of them agree (`matches`). Its loop is a step for each pair of points, because what a
pair does depends on the tracks the seed has made so far.

In `DriftFit` the least squares are an input: for each plane an event says on which side
the particle passed, how much a wrong side costs and how far the true place is from a
line. `LeftRight` tries the sides in the order of the code's loop, with those known from
neighbouring planes, and keeps the best in each of the three ways. `TrackFit` fits a line
to the coordinates a track has, which depend on `fFixLR` and `fFixPropagationCorrection`:
a hit in two points has a side and a distance in each, and one of its own. A line is
what it was fitted to, so a residual says from which line it is.

### The detectors

Amplitudes, times and places are small integers and calibration constants are chosen so
that no half is rounded. What is exact is the choice: of a pulse among those of a
channel, of an end of a paddle, of the peak of the times, of a cluster for a track, of
a track; the order in which pedestal events, their evaluation and other events come;
and what `Clear` and the start of each stage empty. `NothingStale` compares a detector with
one that has seen no event before. The counts of a scintillator plane (`fNScinHits` and the
totals) are not cleared but set to zero in `ProcessHits`: there the property says that a
pedestal event, which does not reach it, leaves them as they are of an event before.

`PulsesAreChosen` names the pulse and its time: in the calorimeter all but those from
waveforms of the negative side have the offset. `BestTrackIsBest` says of the
pruning what its twelve loops come to: a track is kept if and only if no other passes the first
test that tells the two apart. `EfficienciesAreTrue` is about steps: for the hodoscope, the ends
counted are of the first hit nearest to the track's paddle, at most two away; for the
calorimeter, a block is counted in a layer the track passes between its edges, and its
hit if it is in a cluster.

## 3. Runs

`tlc -config X.cfg M` for each row. All runs but the six marked *violation* pass.

| Run (module, cfg) | Shows |
|---|---|
| `decoder_qrt` (MCHelicityDecoder, DecoderQRT) | QRT flag, scaler seed, gaps: types, rings in step, nothing premature, **implements `HelicityOracle`** |
| `decoder_faults` (MCHelicityDecoder, DecoderFaults) | a wrong flag or an unknown report anywhere, an event kept from `Decode`, gaps without the QRT flag, and in-time mode: right never turns into wrong, a disabled decoder stays silent, no event in the MPS gets a helicity |
| `decoder_recovery` (MCHelicityDecoder, DecoderRecovery) | one quartet per bit to calibrate; from a fault early in the run, a false first QRT flag included, the decoder recovers; without the flag the search ends right, and a false lock needs equal bits |
| `event_stream` (MCEventStream, EventStream) | the start of a run and its events: files, maps and banks are read as they are written; time and lines true; helicities of the scaler reads true and, after a loss, right again, quartets whole; totals true over rollovers, skipped and delayed reads; the corrected file and the statistics of its slips; hit list sorted, complete, references by the cut, planes served |
| `tracking` (MCTracking, Tracking) | the hits of the wires; five chambers (HMS and SOS style, poor points removed, new search, own corrections or none) and four ways to link: points strong and apart, combinations covered, clones all choices, corrections not mixed; matches are tracks, events given up only when full; stubs the best of all sides, lines through the track's own hits, residuals from the right line |
| `detectors` (MCDetectors, Detectors) | the detectors, the golden track, the beam and the physics: nothing stale, pedestals current, pulses, times, clusters, tracks and arms as the rule names them; what an event adds to an efficiency is of its own track and hits |
| `scaler_mixed_quartet` (MCEventStream, ScalerMixed) | *violation*: finding 1 |
| `tracking_no_point` (MCTracking, TrackingAssert) | *violation*: finding 2 |
| `tracking_copies` (MCTracking, TrackingCopies) | *violation*: finding 3 |
| `tracking_event_counts` (MCTracking, TrackingCounts) | *violation*: finding 4 |
| `best_track_golden` (MCDetectors, DetectorsGolden) | *violation*: finding 5 |
| `hodoscope_three_planes` (MCDetectors, DetectorsThreePlanes) | *violation*: finding 6 |

### Bounds, and why they are enough

- Rings of 2 to 4 bits for 30. The code uses the length only as the number of
  bits to collect; the taps must hold the oldest bit, and both signs must occur.
  The proofs are for every length. In `HelicityScaler` the taps `{3, 4}` of 4
  leave the three bits after a full seed independent of it.
- 10-32 windows: with `MAXBIT` 2 calibration takes two to three quartets, so each
  setup reaches it and goes on; the setups of `decoder_recovery` have the windows
  for a fault, the giving up of the phase and a new calibration (the in-time mode
  keeps no state, eight windows show it). A gap of 3 passes over
  most of a quartet, so that a gap skips a QRT flag, a bit, or both.
- `Period` 4 with events at ticks 0 and 3: in the MPS, and late enough for the
  rounding of the window count to matter. `MaxQRTProblems` 1 for 10.
- Reader: the word rolls over twice in `MaxClock` 13 with `Wrap` 6; gaps are
  shorter than `Wrap`, as the code needs (at 250 MHz its word lasts 17 s).
- `HelicityScaler`: history and banks of two reads let the copy of the history
  wrap; `SteadyUntil` keeps the reads before calibration free of conditions that
  no helicity depends on yet.
- Scalers: `Turn` 4 with steps up to 3: every combination of clock and channel
  rolling over together, alone or not. Two delayed reads can be out of order.
- Filter: seven events hold two slips with the sync event between them. Statistics:
  up to four events, with a slip before, at and after the sync event, words that roll over
  within the run.
- Hit list: two events, as nothing but the pool, the shifts and the counts
  goes from one to the next, and the second event meets every first one.
- Files of three or four free lines behind a fixed beginning, of nine or ten kinds: each
  kind before and after each other, and twice. One longer map groups ranges over several
  slots. Banks of up to three blocks or two texts, cut at every place of the last block.
- Tracking: at most two hits in a plane: the cloning, the choice of a hit and
  the tests for the easy case ask no more than whether there are several. Up to
  twelve hits exceed `MaxHits` 9, 3 points for 100 and 30 pairs for 1000 let the lists be
  cut off; clones up to 20 points as in the code. Four tracks for 100 and lists of 2 and
  4 points for 50 and 100 are all exceeded. Fits: four planes, lines of two parameters for
  four, so that a track of one or two points can be fitted, have its worst hit removed,
  be fitted again and run out of hits.
- Detectors: two tubes, paddles or blocks a side, three rows of blocks where a cluster
  can be parted; up to three pulses of a channel where the first, the last and the largest
  differ; two events in a row, three or more where pedestal events come between, as
  the pedestals are evaluated once a minimum is reached. Three tracks: more than two are
  needed for a choice that is neither the first nor the last. Each of the twelve tests of the
  pruning tells some tracks apart. Blocks have pulses from waveforms on both sides; tracks pass
  inside and outside the edges of a layer. Four paddles for `HodoEff`, so that two of them
  away is neither a neighbour nor the end.

Where a run stops at its bound (`CHECK_DEADLOCK FALSE`) the file or the event has ended. The
decoder's runs check deadlock: at the last window events may still come. The assumptions on
the constants of the modules that are extended are checked as they stand, those of the
instances by an ASSUME of `MCEventStream` (`HitListOK`, `StreamOK`) and, for
the boards of the wires, of `MCTracking` (`BoardsAreMirrored`).

### Fairness

`SteadySpec` has `WF_vars(SteadyNext)`: the analyzer's event loop goes on calling
`Decode` as long as there are events, and a run has them. It is used with
`MaxWindow` far enough that a decoder which has not recovered is caught; at the
last window events repeat for ever, so "ends up calibrated and right" is
decided by what the decoder says there. No other liveness is claimed.

### Findings

1. `THcHelicityScaler:952`: "Reset fHaveCycle at the start of each quartet" is
   done only if the helicity is known. After a lost read a quartet can enter
   the asymmetries with one read of an old quartet.
2. `THcDriftChamber:614` removes the poor space points, perhaps all, and goes on to
   `SpacePointMultiWire`, which asserts that there is one (1106): the program
   aborts (built with assertions) on an event with points but no good one.
3. `THcDC:868-871` wants one copy of a track for a further point of the same
   chamber; the loop at 984 copies the copies as well, so the n-th match of a
   seed makes 2^(n-2) equal tracks. Eight matches of one seed exceed the room for
   100 tracks, and an HMS-style event then loses all of them.
4. `THcDC:1653`: the events with hits in a plane or a chamber are counted in `Decode`,
   when the planes have emptied their hits and not yet filled them: the counts stay zero.
5. `THcHallCSpectrometer:770`: the track that `BestTrackUsingScin` selects gets no index,
   and `TrackCalc` takes the track with index 0, or the first one, in its place.
6. `THcHodoscope:1977`: "Check if two Y planes hit" sets the test for X. An event with
   three planes counts as one that should have a track although they do not match.

More places where code and comment part, or where the code does what nobody can want,
seen while modelling; the models have them, the properties are stated around them.

Data stream: with the constructor's offset -3 the first bit of the scaler's
seed is taken in the second window of a quartet, whose sign is the opposite
(`THcHelicityScaler:584`; the comment above it holds for offset 3). The first event with
noise is written with the next event's bank, noise as well, where the head of
`THcTimeSyncEvtHandler` (36-38) asks for an empty one, so `OwnData` leaves that
event out. `THcHitList:634`: with the best-hit cut, a reference channel with samples in
which no pulse is found sets the reference time 0 and is not counted missing, where
the comment has "take the last hit". `THcScalerEvtHandler:783`: the header of a scaler whose
model is not known goes to the scaler before it; without any scaler the loop at 865 has
no end.

Chambers: `DestroyPoorSpacePoints` moves a
point without its number of combinations, so `SelectSpacePoints` rejects a moved
point if any are asked for; the comment of `SpacePointMultiWire` speaks of six
planes, the test of four; with `fFixPropagationCorrection` 0 the distances kept with a
point stay zero; two points can end with the same hits; `fProjectToChamber`
indexes the chambers by their numbers, which begin at 1; tracks of single stubs do not
set the numbers of their points. `TrackFit`: the residuals "in first chamber from second
chamber track" (`THcDC:1501`) are taken from the first track, which was fitted to them; the
hit that is farthest after the second fit is removed as well, and the line keeps it; a
track that has no more hits than a line has parameters keeps the line of the fit before, or
none.

Detectors: `THcAerogel:952` says that the last hit in the window is the good one, while the
sum of photoelectrons adds all of them. `THcHodoEff:394` moves a track through the last
paddle to the one before: the hit of the paddle itself, compared with the track's own at 353, is
then too far away to be recorded (407). `THcShowerArray:763` keeps the
size of the cluster it looks at last, described at `THcShower:575` as that of the matching
one. `THcShowerPlane:867` and `880`: the time of a pulse from a waveform of the negative side has
no `fAdcTdcOffset`, as in the scintillators; that of any other has. `THcShowerPlane:1232`
takes the first track for the best one, which need not be the golden track.
`THcScintillatorPlane:889`: after a pedestal event the hits are gone and their number is
not. `THcHodoscope:1945`: of several clusters in a plane the last pair decides.

### What is assumed of the outside

- The scaler's seed is one quartet behind the event stream (`ScalerLags` `{1}`).
  The code assumes exactly that (THcHelicity:681-685); the comparison for other
  lags is under `#if 0`.
- The decoder is configured with the true period and a delay of whole quartets;
  its advice on the frequency (`fRecommendedFreq`, `End`) is left out.
- Reader: the first event of the run has a TI time (`FirstTimeMayMiss = FALSE`):
  the difference of the clocks is taken from it.
- Scalers: a read holds all modules (`PartialReads = FALSE`): a missing word reads
  zero and counts as a rollover. With `TRUE`, `TotalsAreTrue` fails.
- Filter: noise does not begin in a sync event (`NoiseAtSync = FALSE`): it would
  start a correction that nothing needs. With `TRUE`, `OwnData` fails.
- Hit list: flash ADCs in one crate (the code says so), and no event within 7
  ticks of a rollover of the trigger time, of which the code warns.
- Parameter files: an expression refers to variables that have been read; the formulas are
  ROOT's. A file does not include itself.
- Configuration events: the program is built without assertions (`Checked = FALSE`); with
  them a block of the trigger interface that is cut ends the program.
- Fits: which side is right, how much a wrong one costs and how far a hit is from a line do not
  depend on the other hits. So a fit cannot be drawn to a bad hit, and the second fit has the
  residuals of the first.
- Detectors: what podd and ROOT compute (the track projection, the rotation to the target)
  is an input.

## 4. Proofs

The theorems are checked by TLAPS. Those of the decoder hold for every ring length, taps,
delay, period, set of event times, gap, scaler lag and fault bound the assumptions allow;
those of the reader for every width of the time word, offset of the clocks, level and
threshold, those of the helicity scalers for every ring, offset of the quartet bit, bank size and
number of reads and losses, those of the scalers for every width of a word, threshold and number
of reads, those of the filter for every set of TDCs, length of the file and number of slips, those
of the statistics for every set of modules, width of the words, offset and slip. TLC
evaluates the assumptions (`RingAssumption`, `DecoderAssumption`, `ReaderAssumption`,
`HScalerAssumption`, `ScalerAssumption`, `FilterAssumption`, `StatsAssumption`) in the runs of their modules; the
hypotheses a theorem adds are named below.

| Module | Theorem | States |
|---|---|---|
| `HelicityRingProofs` | `PrevUndoesRan`, `RanUndoesPrev`, `RetreatUndoesAdvance`, `AdvanceUndoesRetreat`, `AdvanceCommutes` | the step back of `GetSeed30` and `RanBit30` invert each other if the oldest bit is a tap; so do n steps, and they commute |
| `HelicityDecoderProofs` | `TypeCorrect`, `RingsStayInStep`, `NeverPremature` | `TypeInvariant`, `SeedsInStep`, `NoPrematureHelicity` |
| `HelicityDecoderProofs` | `RightDecoderIsTrue` | `RightIsTrue` |
| `HelicityDecoderProofs` | `RightDecoderStaysRight` | `RightIsKept` |
| `HelicityDecoderProofs` | `SettledDecoderStaysSettled` | `SettledIsKept` |
| `HelicityDecoderProofs` | `DecoderImplementsOracle` | `ImplementsOracle`: the refinement of `HelicityOracle` |
| `HelicityDecoderProofs` | `SteadyDecoderCalibrates` | `SteadyCalibration` |
| `HelicityDecoderProofs` | `FalseLocksHaveEqualBits` | `FalseLockNeedsEqualBits` |
| `HelicityReaderProofs` | `ReaderTypes`, `ReaderTimes`, `ReaderLines` | types, `TimeIsTrue`, `LinesAreTrue` |
| `HelicityScalerProofs` | `HScalerTypes`, `HelicitiesAreTrue`, `QuartetsAreWhole` | types, `HelicityIsTrue`, `QuartetIsWholeUnlessLost` |
| `ScalerEvtHandlerProofs` | `ScalerTypes`, `ScalerTotals` | types, `TotalsAreTrue` |
| `TimeSyncProofs` | `FilterTypes`, `CorrectedFile`, `NothingIsLost` | types, `FileIsCorrected`, its half `NoneLost` without hypotheses |
| `TimeSyncProofs` | `StatsTypes`, `StatisticsAreTrue`, `TimeSlipsAreCounted` | types, `SlipsAreCounted`, its half on times for files of any length |
| `Evt137` | `SettingsAreTheLatest` | `SettingsAreLatest`, a part of `BanksAreSent`, for all texts |

### The ring

`AdvanceDefined` and `RetreatDefined` give the iterates their defining equations (from
`NatLemmas!IterationDefined`, as the library's recursion theorems cannot be instantiated).

### The decoder keeps its types and its rings in step

None of the three is inductive alone: a ring in step needs both rings to be
seeds and the bit count to mean what it says, and the type of the phase needs
that the guess of the first cycle is not ahead of the cycle count. The
inductive invariant is

    IndInv == BeamTypes /\ Safe(dec) /\ UntouchedGuess

`Safe(d)` holds types, rings in step, no helicity before calibration, and
the guess behind the count; `UntouchedGuess` says that the guess is not positive before
the first event, which resets the cycle count but not the guess. `DecodeFirst`
is the only step that needs it. The proof has one lemma for each stage
(`CountCycleSound`, `TrackQRTSound`, `CollectBitSound`, ...), each from a sound
record to a sound record, composed in `NewCycleSound`; then one for each action
(`DecodeMPSSafe`, ...), and `StepKeepsInvariant`. Where a stage moves both rings,
`AdvanceCommutes` keeps them in step: the actual ring is the delay ahead of the
reported one, whatever number of steps both make.

### A right decoder tells the truth

`TruthInv` adds `TellsTruth` to `IndInv`: the decoder's clock stands in the MPS of a window,
and an answer was computed from the ring for the phase of its cycle count, in the window of
the event. `RightIsTrue` follows: if phase and bits are right in the window the decoder
counted last, the ring holds the sign of that window (`TruthIsEnough`), which is the window of
the event. The clock is what is hard. `PeriodsAreCounted` says that `\div` counts the
windows to an event behind its MPS, `PeriodsAreRounded` that `Nint` counts them to an event in
its MPS, and `MiddleOfMPS` that the mean of the old and the new time is again in the MPS.
Hypotheses: `DelayIsWhole`, the delay is a number of quartets (the code divides it by
four), and `MPSIsShort`, the MPS lasts at most half a window, without which
rounding could not tell two windows apart.

### It stays right

`KeptInv` adds `Counted`: no cycle is counted before the MPS was found, or twice for one
window; and of a phase that is right, each problem counted was a wrong flag. So the phase is
not given up before more flags were wrong than are tolerated.
`DecodeOutcomes` sorts the ways through `Decode` into three: nothing was counted yet, all
stands, or a later window is counted. Only the last moves the ring, and `NewCycleRight` follows
it through the stages: windows missed, flag, bit or prediction. Hypotheses: `MPSIsShort`;
`FaultsAreTolerated`, no more faults in a run than `MaxQRTProblems` (more than that many wrong
flags make the code believe them, as it is meant to); `SeedIsOneBehind`, the scaler's seed is that of the
quartet before (which the code relies on, THcHelicity:681-685).

### It stays settled without the flag

Without the QRT flag each end of a quartet is tested on the last four reports, and one test
that fails gives the quartets up. `UnflaggedInv` adds to `KeptInv`, for a run without flag and
without fault so far: of a quartet found in phase the reports up to now are right
(`ReportsAre`), or there is a hole that makes the test at its end fail, so that the quartet is
given up and not mistaken. `TestTellsReports`: a test that passes in phase makes all four
reports right, as only one sign pattern sums to four. `MadeUpAreReports`: what `SkipMissed`
writes for windows without events is what the accelerator reported in them, as the ring that
predicts is right; it is where the test would fail if the ring were one step off. Hypothesis:
`MPSIsShort`.

### It implements its abstract specification

The initial states of `HelicityDecoder` are initial states of `HelicityOracle`
(`InitialOracle`), and every step is a step of it or a stutter (`StepIsOracle`), from

    HealthyInv == KeptInv /\ ~dec.fDisabled /\ IF dec.fHaveQRT THEN Right ELSE LostAt(...)

From the first flag on the decoder is right; before it, `LostAt` says that it has found no
quartet and collected no bit. That needs an argument: until the flag comes `Decode` looks for
a quartet in the last four reports, and one found out of phase would make it collect
wrong bits. `NoQuartetYet` is why none is found: a window of phase 0 would have had the flag, so
at most three windows in a row are known, and the report before them is zero, or the one that
`SkipMissed` makes up in the place of a hole, with a zero behind it. Hypotheses: `HealthyRuns`
(delayed mode with the QRT flag, no fault, no event kept from `Decode`, the seed one quartet
behind), `DelayIsWhole`, `MPSIsShort`. The setups of `decoder_qrt` satisfy them.

### It calibrates in time

`SteadyInv` adds to `KeptInv`, for a run with the QRT flag, a delayed report and no fault so far,
that the decoder is `OnTime` and its calibration `InPace`. The clock is what makes it hard: it
moves only at an event behind the MPS of a window, so an event in the MPS leaves it a window
behind, or unset. `OnTime`: it is unset in the first window only, and from then on at most one
window behind the event, as each window has an event behind its MPS or was just entered. `InPace` counts by the window of the clock, not of the event: the first
flag is found by window 5 at the latest (until then `LostAt`, as above), the bit of that
quartet is collected, and each quartet that begins later gives one more bit, so that in window w
there are `QuartetsTo(w) - QuartetsTo(5) + 1` or all of them. With `Right` no flag is
mistaken and no bit is dropped. `SteadyIsEnough`: window `4 * (MAXBIT + 1)`, of which the clock may
be one short, has seen enough quartets wherever in one the run began. Hypotheses: `MPSIsShort`,
`SeedIsOneBehind`.

### A false lock needs bits that are alike

Without the QRT flag the quartets are looked for in the last four reports. `SearchInv` adds to
`KeptInv` that the decoder is `OnTime` and what it has collected, with the clock in window w.
`ReportsOf`: of the last four reports each is unknown or the accelerator's, those of the quartet
before with the sign of that quartet. `TestOutOfPhase` is arithmetic on these: at any place but
the end of a quartet the test passes only two windows off, and only if this quartet has
the sign of the one before. So a decoder that found its quartets is in phase or two windows out of
it, and the quartets it took bits of out of phase are alike. `BitsAlike` says which they are, by
the window of the accelerator's quartet: in the second the test compares this quartet with the
one before, and in the third, where the decoder's quartet begins, its bit is taken; in between
one quartet more is known to be alike than bits were taken. `NewCycleSteps` shows what a window adds (a bit when
a quartet begins, none elsewhere, one when a quartet is found, all lost when a test fails) and
`StepsCollect` carries the invariant over it; the last bit, too, comes behind its test.
Hypotheses: `MPSIsShort`; `UnflaggedRuns`, a run without the flag has no other fault and the
scaler offers no seed (a seed it offers is adopted at any number of bits, in phase or out of it).
The property is one of `SteadySpec`: a window without events leaves two reports unknown or made up.

### The reader

`ClockInv`: the offset of the clocks, once taken, is the true one, and the rollovers
times `Wrap` plus the last word are the clock of the last event with a time. `ReaderTimes`
needs `ClockIsReadable`: the first event of a run has a TI time, and no gap is longer than the
word (section 3). `ModeIsTrue` says that the threshold in use belongs to the mode the lines
are read in; `ReaderLines` needs `ThresholdsFit`, that it lies between the two levels in each
mode the setup can reach.

### The helicity scalers

`AnalysisIs` follows a read through the stages of `AnalyzeHelicityScaler` and says what became of
it: the first quartet bit was found, or is still looked for, or was missed so that all is given
up, or a bit was taken, or the read is inside a quartet. The invariant `IndInv` has four parts.
`HandlerInv` holds whatever is read: a helicity is the one its seed gives for the phase counted
from the first cycle; and while a negative offset puts that cycle ahead of the read, there is at
most one bit. `InStep`, while nothing is lost: the phase is that of the accelerator, and the bits are
the ring's, but for the first if the quartet bit is read in an inner window, where the reported
helicity is the opposite of the bit. `Joined`: the reads that have joined a quartet are its first
ones, without a gap, each with its own number. `Recovering`, for the offsets whose quartet bit is
checked: n windows after the last loss either the phase is wrong, and n is at most the windows
until the check, or the quartets are looked for, and n at most those and the next quartet bit, or
the phase is right, and there is a right bit for every quartet since. So nothing wrong outlives
`MAXBIT + 2` quartets, whether the loss was noticed or not.

`FullSeedStays` is where they meet: a full seed in step finds its quartet bit, is not given up,
and so a quartet under way goes on. Hypothesis of `HelicitiesAreTrue`: `FirstBitIsForgotten`, the
ring has more than one bit and, for the offsets read in an inner window, no tap at 1 or 2. There
the oldest bit of the first full seed may be wrong, and so is the bit one turn on; the helicities
are taken two and three turns on, which it does not reach (`OldestIsForgotten`). The taps of the
source, 7, 28, 29 and 30, keep the hypothesis for every offset. `QuartetsAreWhole` needs
`MAXBIT > 1` alone, `HScalerTypes` nothing.

### The scalers

`ScalerTotals` needs more than the totals: `RolloversAreCounted` says that the last words and
the rollovers are the remainder and the quotient of what the scalers held at the last read, for
the clock, for the count and for the previous word the charge keeps beside it; and
`FileInOrder` that each read, also of the end routine, is behind those before it and none a
turn of a word ahead of the last one analysed. `RollsOverOnce` is the arithmetic: of two values
less than a turn apart the word gets smaller exactly if the quotient grows, and `Diff` is what
lies between. An event that is skipped moves the clock of the file and not what was `seen`; the
bound on a turn is therefore one on the reads that are analysed. Hypothesis of `ScalerTotals`:
no read lacks a module (`PartialReads = FALSE`, section 3). `ScalerTypes` has none:
a word that is missing reads as a rollover, so that even then no time or sum goes back.

### The corrected file

`SlipIsKnown` is the heart: unless the program has ended on a missing bank, the handler is
correcting exactly while the banks are late, it then holds the last physics event, in which the
noise began if the TDCs are still noisy, and its mask has all TDCs from the first bank on. So the
bank that comes next is the one of the event held, and a sync event closes the correction
together with the slip. `OwnData` needs all of it, `NoneLost` only the types: whatever the banks
are, each way through `WriteEvent` (`WritesAre`: passed on, held back, exchanged, written with a
sync event, or the null pointer) keeps the number of the events and the set of them that are
written or held. Hypothesis of `CorrectedFile`: `SyncRestores`, the handler ends a correction at
a sync event, and noise does not begin in one (section 3).

### The statistics of the slips

Three invariants. `StatsInv` holds the types, and that `wassync` is what the last event of
the file says. `TimesInv`: the offsets kept from the first event are the true ones modulo the word
(`OffsetIsTrue`: `Signed` takes the difference of two words back to a representative of the
difference of what they are remainders of, whichever of them had rolled over), so the time
expected is the crate's (`ExpectedIs`), an FADC's word differs from it exactly if it slipped, as
a slip is less than a turn (`SlipIsSeen`), and each event adds one to early or late or to
neither. `CountsInv` follows a TDC through a loss: its offset is one until the event after a sync
event, where a difference of more than two is taken, and from there on the count is in step
again (`CountDiffIs`). The set `UncorrectedIn` grows by the event that is counted and by no other,
and stops for good at the correction. `StatisticsAreTrue` has the hypothesis `CountsDoNotTurn`
for that last part: the code compares the 22 bits of the two counts without allowing for a carry,
so in the events between the turn of the crate's count and that of the TDC's the difference is
negative and a loss is not taken as an offset; `TimeSlipsAreCounted` does without.

### The settings of the texts

`Evt137`, theorem `SettingsAreTheLatest`, from `TextsAreLines` alone: texts and lines are
finite, which `MCEventStream` has TLC check of its own. `SettingsAreLatest` is not inductive:
that a stored line is filed under its slot needs `AtLine` (the member `slot` is the slot
named last before the line, and none at the start of a text), and that the vectors of the
tree suffice needs `AllCounted` (the branches are settings, and there are no more settings
than lines counted). `ReadIs` says in numbers which lines were read; from it a stored line is
later than all that are filed under the same key, and the end of a text reads none.

### Only model-checked

Of the decoder `EventuallyCalibrated`; the properties of all other modules, and of `BanksAreSent`
the banks and the blocks. Liveness under fairness, and induction over data, are outside what the provers
do here. The second is what keeps the hit list, the drift chambers and most detectors with TLC:
what they promise is about the result of a fold or of a recursive function over hits,
and the theorems on those take an operator as a parameter.

## 5. Not modelled, and why

- The least squares of stubs and lines and `NewTrackFit` (its residual loop runs over hits
  and indexes planes), the reconstruction at the target, the reaction point, the extended
  target, angles and quantities in the centre of mass: arithmetic with reals.
- Asymmetry sums and errors of `THcHelicityScaler::End`: arithmetic over the
  quartets, whose choice is modelled.
- `THcHodoscope::OriginalTrackEffTest`: nothing calls it.
- `ReadDatabase` and `DefineVariables` of the detectors: lists of names with what the
  parameter database, which is modelled, gives for each.
- ROOT trees, histograms, global variables, reports: output. `THcInterface`,
  `THcFormula`, `THcAnalyzer`, `THcRun*` fill in hooks of ROOT and podd, which call them and are
  not in the repository; `THcPeriodicReport` prints.
- `SetUseFirstEvent(kFALSE)` of the scaler handler reads past a vector: undefined
  behaviour of an option that is off.
- `hc_cal_calib/`, `examples/`: stand-alone fits, macros and generated ROOT classes.

## 6. Plan

Proofs: the modules whose state outlives an event: the
sums of the pedestals (`BPM`, `Cherenkov`), `BeamIsTrue`, `EfficienciesAreTrue`, and
`LinkStubs`.

Models: event decoder and scaler helicity on one accelerator, with the lag between scaler
reads and events free, so that the lag becomes a consequence of the file's order (it
takes the place of the seed `ScalerOffers` makes up); `THcPeriodicReport`.
