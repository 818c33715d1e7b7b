# A TLA+ model of libgeoda

libgeoda is a C++ library for spatial data analysis: it holds a data set of
geometries and columns, makes spatial weights (who is a neighbour of whom) from
it, runs *local indicators of spatial association* (LISA) by conditional
permutation tests on several threads, and clusters regions (SKATER). This
directory holds TLA+ modules of its own code, TLC configurations that check
them on small instances, and proofs that TLAPS checks for every instance.

Paths below are relative to the repository. `src/foo` stands for its directory
`src`, as in the file names of the build (`src/AbstractLocalSA.cpp`, ...).

## 1. The system

| component | code | state | operations | interacts with |
|---|---|---|---|---|
| Local statistics object | `src/AbstractLocalSA.*`, `src/UniLisa.*` | parameters (threads, permutations, seed and its reuse, row standardization), display (filter, cutoff; user cutoff, BO, FDR), results (`sig_local_vec`, `sig_cat_vec`, `cluster_vec`) | constructor (which runs once), setters, `Run()`, getters | calls the weights; starts worker threads that write the results |
| Division of work | `CalcPseudoP_threaded` | none | from `num_obs` and `nCPUs` to one closed interval per thread | decides who writes what |
| Worker thread | `CalcPseudoP_range`, `LargerPermLocalSA` | loop counters, a seed, a `GeoDaSet` | draws samples by rejection, counts, records | reads parameters and weights, writes one element of two shared vectors per observation |
| GeoDa data set | `src/libgeoda.*` | in-memory OGR data source, feature list, field map, `numObs` | three constructors, column and undefined getters, centroids | OGR; weights; LISA; SKATER |
| `GeoDaTable`, columns | `src/libgeoda.h` | columns with values and undefined flags | `AddIntColumn` ... | read by the data set's constructor; filled by the bindings |
| Weights entry points | `CreateContiguityWeights`, `CreateDistanceWeights` | none | choose an algorithm by map type | external weights classes |
| SKATER entry points | `SKATER` (3), `fullRaggedMatrix` | none | check input, build a distance matrix, label regions | external clustering |
| OGR utilities | `src/ogr/*` | handles of data sources and features | open, read, save, measure | OGR |
| Bindings by hand | `swig/libgeoda.i`, `swig/R/*.R`, `swig/python/pygeoda/*.py` | none | convert data frames and results | all of the above |

The weights classes, the hash `ThomasWangHashDouble`, `GeoDaSet`, Voronoi
neighbours and the clustering itself are in the submodule `src/geoda`, whose
directory is empty at this commit: they are modelled from their uses, or not.

What is hard about it:

* **Threads without locks.** The workers of a run write two shared vectors. The
  only protection is arithmetic: their intervals must not overlap.
* **Random streams.** A worker's stream starts at the seed plus its first
  observation and runs on from observation to observation. Results must not
  depend on scheduling; they do depend on the number of threads.
* **Reuse.** The result vectors are resized and never cleared, so anything a run
  fails to write is from an earlier run. Parameters may change between runs, and
  the display parameters apply to old results at once.
* **Rejection sampling** ends only if there is enough to draw.
* **Boundaries.** Fewer observations than CPUs; p-values equal to a cutoff;
  counts at 0 and at the number of permutations; values and lags of exactly 0.
* **Partial failure.** The data set's constructors go on after `CreateField`,
  `CreateFeature` or opening has failed, with indices that no longer align.

`PROJECT.json` lists each hazard at its line with the properties that cover it.

What makes each component correct:

* division: an exact cover, no empty interval, even load;
* worker: samples are sound, the test of an observation depends on nothing but
  its place in the stream, the loop ends;
* object: every observation tested once per run, results are those of the latest
  run's parameters, `Run()` returns, categories, cutoffs and clusters agree;
* data set: field, feature and observation indices align or are known not to;
* SKATER: every observation has exactly one label, and region labels are apart
  from the label of the rest;
* bindings: what goes in comes out, undefined values included.

## 2. Modules

| module | what it is |
|---|---|
| `WorkPartition` | intervals of the threads as operators, and what they have to satisfy |
| `PseudoPValue` | p-value from a count, category, and the thresholds in the three places where the code has them |
| `PermutationTest` | the test of an observation as two functions of the stream (`CountLarger`, `SeedAfter`), and from them what a run's result must be (`IsResult`) |
| `ReproducibleRun` | abstract specification: an object whose results its parameters determine |
| `LocalSA` | detailed specification: `AbstractLocalSA` with `UniLisa`, the caller and the worker threads |
| `LocalSAProperties` | properties, refinement mapping, inductive invariant |
| `LocalSAProofs` | proofs of them and of those of `WorkPartition` |
| `LocalSAFaults` | `LocalSA` with threads that cannot be created and a CPU count that is not known |
| `LocalSAFaultsProofs` | proofs of its safety properties |
| `PermutationRange` | one worker thread, draw by draw |
| `PermutationRangeProofs` | proofs that its samples are sound, that a test is one step, and when it can end |
| `DataSet` | abstract specification: a data set whose answers its data determine |
| `GeoDaDataset` | `GeoDa`: construction with partial failures, files, and all calls |
| `GeoDaDatasetProperties` | which answers stay right after which failure, refinement mapping |
| `FrameRoundTrip` | the bindings around the data set: data frame to `GeoDa` and back |
| `GeoDaDatasetProofs` | proofs about the data set, alone and between the bindings: rows, columns, refinement |
| `FrameRoundTripProofs` | proofs about the calls of the data set, and about the bindings |
| `RegionLabels` | labels of SKATER's regions, their properties and inductive invariant |
| `Skater` | SKATER over vectors: matrices, memory, the clustering's call |
| `SkaterProofs` | proofs of them and of those of `RegionLabels` |
| `ShapeUtils` | lengths, areas, outlines, and the vector of features narrowed down |
| `ShapeUtilsProofs` | proofs of their properties |
| `LayerAccess` | the five functions that open a data source of their own |
| `LayerAccessProofs` | proofs of their properties |
| `MC*` | instances for TLC |

How they are composed:

* `LocalSA` extends `PermutationTest`, which extends `WorkPartition` and
  `PseudoPValue`. `LocalSAProperties` maps `LocalSA` to `ReproducibleRun`.
  `LocalSAFaults` adds steps to `LocalSA` and keeps all of its own.
  `PermutationRange` is the inside of one atomic step of `LocalSA`.
* `GeoDaDatasetProperties` maps `GeoDaDataset` to `DataSet`. `FrameRoundTrip` puts
  its own steps before, between and after those of `GeoDaDataset`; in its stage
  `direct` there is no frame, and its behaviours are those of `GeoDaDataset`.
* `GeoDaDataset` ends where `LISA`, `SKATER` and the weights are handed their input.
  `Skater` extends `RegionLabels`, which begins where the clustering has returned.

### LocalSA and the code

* `Init` is the two constructors up to `Run()` in the body of `UniLisa`'s;
  `phase = "constructed"` until that run begins. `fdr` and `bo` are left
  uninitialized by the code: any value.
* Each setter is an action. The caller is one thread, so that setters happen
  only between runs (`BetweenRuns`). `SetSignificanceFilter` handles -1, the four
  cutoffs, and every other number, which it ignores.
* `Run(clock)` is everything from the call to the loop that creates threads:
  the three `resize`s, `ComputeLoalSA`, the replacement of a thread count below 1
  and of the seed, whose value without reuse is the clock.
* `SpawnWorker` is one turn of that loop, `SkipIsolate` and `TestObservation` are
  one turn of `CalcPseudoP_range`'s, `JoinAll` is `join_all()` and the return.
* A turn of the worker's loop is one step. During a run nobody changes what it
  reads, and nobody reads what it writes before `join_all`. That it is a function
  of the observation, the seed and the parameters is `ObservationIsAtomic`,
  which `PermutationRange` checks.
* `ran` and `seedUsed` are auxiliary: which parameters the latest run had, and
  where in the stream each observation was tested. No action reads them.
* `kept` stands for `user_sig_cutoff`, `bo` and `fdr`, which are stored and never
  used.
* Data values and lags are integers: the code uses only their signs.
  `weights->SpatialLag` is external and the lag of an isolate is 0.
* P-values are fractions, compared exactly. The doubles of the code are quotients
  of integers up to 10^5: two of them, or one and a cutoff, are equal as doubles
  whenever they are as fractions and ordered alike when they are not.

### LocalSAFaults and the code

* `SpawnFails`: `boost::thread` throws in `CreateThread`; the exception leaves
  `CalcPseudoP_threaded` without `join_all`, and the destructor of the group detaches
  the threads it holds. They become `strays`. When this happens in the constructor
  the object is never finished and its memory is freed (`phase = "gone"`).
* `RunWithoutThreads`: `wxThread::GetCPUCount` may answer -1, which the code takes
  for a number of CPUs: no thread is made, nothing is tested, and `Run` returns.
* `StrayTests`: a stray reads parameters that are being changed and vectors that are
  being resized or written, a data race. Its p-value is any of `StrayValues`; of its
  two writes and those of a worker, any may be last, independently.
* `joined`, `before` and `exposed` are auxiliary.

### PermutationRange and the code

One action per branch of the loops: `Isolate` (the `continue`), `Draw` (hash the
seed, advance it, accept or reject), `Compare` (`LargerPermLocalSA` and the
`Pop`s), `Record` (p-value and category). The weights are any directed graph, an
observation may be its own neighbour, and `Candidate` is any hash onto the
observations. `seedAt` is auxiliary.

### GeoDaDataset and the code

* A layer is a sequence of fields and a sequence of features; OGR itself is
  external. It may refuse a field, a feature or a whole layer, and may make
  nothing of a geometry's bytes, at any time: each outcome is a disjunct, because
  the code checks each return value and then goes on.
* A field that is created may be called otherwise than its column: the Shapefile
  driver cuts names to ten characters and numbers those that are taken.
  `NamesInFile` holds, for each name, what the driver tries in its order, and
  `CallsField` picks the first that no field has. What it picks may be the name of
  another column, before or after. `fieldNames` and `fieldNameIdx` keep the column's
  name all the same. OGR looks names up without regard to case (`Alike`), while
  `fieldNameIdx`, a `std::map`, does not.
* A field holds what its type and width allow (`InField`): 20 characters for an
  integer, 254 for a string, 35 with 15 decimals for a real number. A value is
  `whole`, `cut` or, a string, `empty`, which is stored as no value; and one that is
  set in a field of another type, by a name that leads there, is converted.
* `CreateLayer`, `CreateField`, `CreateFeature` are the turns of the loops of the
  building constructors, `Open` is the constructor from a path, `ReadAllFeatures`
  ends both. `ReadBeyondColumn` is the turn in which a column is too short. The
  Python constructor only delegates.
* A value is the pair of its column and observation, with the column negative if the
  field could not hold it as it was; a geometry is the number of its observation.
  What the properties ask is whose value is returned, and whether it was changed,
  not which it is. A getter of another type than the field's converts once more;
  that is not modelled.
* The points that Voronoi neighbours are computed from are pairs of coordinates, each
  with the observation and the axis it is taken from. Both are x (`Coordinates`),
  as in `src/libgeoda.cpp:235`.
* `SetField(name, ...)`, `GetFieldAs...(name)` go by name, `IsFieldNull` and SKATER by
  the index in `fieldNameIdx`. `fieldNameIdx` counts from 0 as in the code.
* `reading` is the position of the layer's only reader. Each function that loops
  over `GetNextFeature` resets it, and leaves it at the end.
* `phase = "undefined"` stands for the use of a null pointer or of an element out
  of bounds. Nothing is claimed of what follows, and no call is modelled there.
* An uninitialized `mapType` is any map type, an uninitialized `numCols` one of
  `SomeInts`. An external answer to an index that is no field is 0.
* `failed`, `kept` and `answer` are auxiliary: what did not work, which
  observation each feature in the layer is of, and the latest question with its
  answer.

### FrameRoundTrip and the code

* A frame is taken apart column by column (`AddColumn`, by kind of values;
  `ColumnRaises` where a name is no string or a list has no C++ type) and geometry by
  geometry (`AddGeometry`, `GeometryRaises`: `geoms[i]` of pandas goes by label).
  `geopandas_to_geoda`, `sf_to_geoda` and `sp_to_geoda` go through the same steps,
  and the guards tell them apart.
* `CallGeoDa` chooses the map type as each binding does, and `BuildDataset` is the
  steps of `GeoDaDataset` that build from a table, with a driver that stores only
  geometries of that type. In `GeoDaFails` the constructor has no driver, data
  source or layer, and ends in a null `poLayer` (stage `lost`).
* `GeodaToGeopandas`, `GeodaToSp`, `ReadColumn`, `ReadGeometries` are
  the way back; R counts columns with `1:n`, which counts down for n = 0
  (`CountsDown`). `ListCollected` is `swig/libgeoda.i:46`: the list of raw vectors is
  not protected from R's collector. What happens to a collected list that is used
  is not told (stage `collected`); there is no such step for a data set without
  observations, whose list is not filled.
* Exceptions of Python and R end a conversion (`raised`); they are of the model
  because the properties say when there is none.

### Skater, RegionLabels and the code

* `Call` allocates mask and matrix, `FillColumn` is the loop over columns,
  `DistanceMatrix` the external function and the allocation of column weights and of
  the full matrix, `CopyDistance` one turn of the inner loop
  of `fullRaggedMatrix`, `RaggedFreed` the release of its input. `FreeMemory` is the
  end of the function; `MismatchedFree` is the same where `free` of what `new[]`
  has allocated does not go well.
* The memory is a set of blocks, named by call, array and row.
* `RegionLabels`: `Partition` is the external clustering up to the sorted
  `cluster_ids`, in whatever order, `LabelRegion` one turn of the outer loop,
  `LabelRest` the last loop. Weights that are not `gal_type` return an empty vector.

### ShapeUtils, LayerAccess and the code

* `ShapeUtils`: `GetMeasures` begins `GetLengths` or `GetAreas`, `MeasureFeature` is
  a turn of its loop; `GetFeaturesWithin` has `NarrowFeature`, `GetMapOutline` has
  `OutlineFeature`. A caller goes on with the vector that was returned and passes the
  same vector of undefined flags each time.
* `LayerAccess`: `Open`, `OpenFails`, `LayerRefused`, `LayerPicked` are what the
  functions have in common, down to which of them check which result; then each
  has its own steps. `open` counts data sources, `memory` features. `GetExtent` reads
  the envelope of `GetBBoxShape` after the geometry it belongs to is gone.

The operators of the form `UnshiftedStart`, `NotResized`, `SameSeed` and the like,
marked *Mutant*, are plausible bugs. No definition uses them; each property is
known to fail when one of them takes the place of the definition it follows.

## 3. Runs

| run | instance | shows |
|---|---|---|
| `run` | 5 observations (one island, one undefined, one at the mean), 8, 2, 3 and unset CPUs, 9 and 999 permutations, 4 seeds | worker interleavings and repeated runs: `Invariant`, `WorkDivided`, `WorkersApart`, `TestedOnce`, `CategoriesMatch`, `ResultsOfLatestRun`, `FirstChunkIsSerial`, `ImplementsService`, `RunReturns` |
| `shown` | 2 observations, 5 seeds, filters -1 .. 5, cutoff 1/20000, 9, 999 and 9999 permutations | every order of setters and runs: `FilterMatchesCategory`, `NoSignificanceBelowResolution`, `UndefinedAlwaysShown` |
| `faults` | 3 observations, the middle one an island, 8, 2 and unknown CPUs, at most 1 failing run | `DamageConfined`, `OldOrNew`, `RunsAndStraysEnd` |
| `range` | 4 observations, all 64 symmetric graphs and 81 directed ones with self-neighbours among them, one undefined observation, 3 permutations, 7 seeds, every interval, both `row_standardize` | `SampleSound`, `ObservationIsAtomic`, `RangeEnds` |
| `dataset` | four tables: `population2010 population b`, `ID id b` with a value that is cut, `b ID b`, and `b ID` with an empty string and a short `ID`; 3 geometries, every combination of refused fields, failed geometries and features, every map type; 4 data sources (two layers, a missing geometry, an unsupported type, none); names of which some are only in the file or nowhere; 37 frames of 3 rows | every sequence of calls: `TypeOK`, `RowsCoherent`, `ValuesAreTheColumn`, `FlagsMatchValues`, `SkaterSeesTheColumns`, `PointsInPlace`, `UndefinedOnlyAfterFailure`, `ImplementsDataSet`; every frame: `RoundTrip`, `SupportedFramesReturn` |
| `skater` | 4 observations, 2 calls with no column, two, or one that is too short; every sequence of up to 3 disjoint regions, empty ones included | `LabelsTellRegions`, `ClustersTheData`, `MemoryKept` |
| `shapes` | 3 features, each with one of 7 kinds of geometry, none included; 3 contours | every sequence of calls: `EachFeatureInOnePlace`, `UndefinedOnlyByGeometry`, `MeasuresInPlace`, `FlagsMeanMissing`, `OutlineCovers` |
| `access` | 3 data sources (two layers, one empty layer, none), layers -1 .. 2, 2 vectors to save | every way of giving up, call after call: `NothingLeftBehind`, `AllOrNothing`, `SaveTellsTheTruth`, `UndefinedOnlyUnchecked` |
| `indicators`, `usercutoff` | the instances of `run` and of `shown` | findings, see 6 |
| `area`, `frameindex` | the instances of `shapes` and of `dataset` | findings, see 6 |

What the properties say, beyond their comments in the modules:

* The object: whatever the scheduling and whatever came before, results are a
  function of the parameters of the latest run (`ResultsOfLatestRun`,
  `ImplementsService`), although the vectors are never cleared. Every run visits
  every observation, so no old value can survive it. The first chunk's results are
  those of a serial run (`FirstChunkIsSerial`); those of other chunks are not, so
  results depend on the number of threads.
* The faults: an exception leaves a mixture of old and new results (`OldOrNew`), and
  the threads it detaches may spoil later runs, but only observations that
  were still ahead of them (`DamageConfined`).
* The worker: samples never hold the observation, an island or a repetition. If
  there are permutations to draw, the loop ends exactly if each tested observation has
  no more neighbours than there are others that have neighbours (`RangeEnds`):
  always under symmetric weights, and not always under those a caller may bring.
* The data set: under a name are the values of the last column so called, case aside,
  and zeros only if the driver has refused or renamed every field of the name
  (`ValuesAreTheColumn`). That is not always the column that was meant: `ID`
  returns the values of a later `id`; and of `population2010` and `population` the first
  gets the field `population`, where the values of the second then go, while its own
  name finds nothing. Values go by name, flags and SKATER by place, and the two
  agree for the columns that are in place (`InPlace`), for which no earlier name may
  be the same but for case (`FlagsMatchValues`, `SkaterSeesTheColumns`). The points
  of neighbour candidate i are of observation i (`PointsInPlace`), which says nothing
  of where they lie. No question changes the answer to another
  (`ImplementsDataSet`), although they share the reader of the layer.
* The bindings: a frame whose labels are its row numbers comes back with its rows
  in order and, under each column's name, what the data set returns for it
  (`RoundTrip`); `frameindex` shows what happens otherwise. A frame with geometries of one
  supported kind ends badly in four cases only (`SupportedFramesReturn`), of which one,
  the list that R may collect, has nothing to do with the frame.

Why the bounds are enough. Interval arithmetic depends on quotient and
remainder, and is proved. In `run`, 5 observations on 2
CPUs give chunks of 3 and 2, on 3 CPUs chunks of 2, 2 and 1, on 8 CPUs (the
default) one thread per observation: every branch of the division, and an island
within a chunk, at its end and alone in it. Four seeds let the addition of
the seed wrap around. What one observation tests is a fixed
deterministic function (`MCCountLarger`, `MCSeedAfter`) that differs for each
seed, number of permutations and standardization, so that a wrong place in the
stream shows in the result. In `shown`, permutations and places in the stream
are chosen so that p-values reach exactly 0.001 and 0.0001, and the categories
0, 2, 3 and 4 occur. Category 1, and equality with 0.05 and 0.01, are left to
the proofs.
In `faults`, `MaxFailures` = 1 bounds failing runs, since strays of two do not meet
otherwise than strays of one and workers; `StrayValues` has one p-value that no test
of the instance has, so that a stray's write is told from every other.
In `dataset`, three columns and three geometries have one before, one at and one
after a failure, and two failures at once; the geometries differ in length, so
that a wrong offset does not fall on the right bytes. The names collide in each way
that names can: cut to another column's name, alike but for case, the same twice. The frames have one thing
each that a binding may stumble over: labels out of order, with gaps or none, a
name that is no string, a name twice, names that collide, values that are cut or
empty, a column of objects, a missing geometry, mixed kinds, no columns.
In `skater`, the second call (`MaxCalls` = 2) finds what the first has left.
In `range`, the hash repeats values, hits the observation itself and islands,
and reaches everybody within one period.

**Fairness.** `LocalSA` assumes weak fairness of `SpawnWorker`, of `JoinAll` and of
every worker: the operating system runs every thread, and `join_all` waits for
all. Nothing makes the caller call again, so that no setter and no `Run` is fair.
`RunReturns` is stated from the moment a run has begun. `LocalSAFaults` assumes the
same, and of each detached thread that it is scheduled like the others.
`PermutationRange` has one thread, and assumes that it is scheduled. The other
modules are of a single caller and claim no progress.

Deadlock is checked in all runs. A state in which the modelled program has come
to its end, or is undefined, has a step of its own that changes nothing.

## 4. Proofs

Every invariant that a passing run checks, both refinements and the action property
`ObservationIsAtomic` are theorems: the runs show them on an instance, the proofs for
every value of the constants.

`LocalSAProofs` first proves of the operators of `WorkPartition`, for every number of
observations and every positive number of CPUs, that the intervals are an exact cover
(`PartitionExactCover`), that none is empty (`PartitionNoEmptyChunk`) and that they are
even (`PartitionBalanced`). The arithmetic is nonlinear: lemmas introduce quotient and
remainder with `n = c * q + r` and do the products by hand. Then it proves theorems of
`LocalSA!Spec`, without its fairness:

* `AlwaysInvariant`: `[]Invariant`, which is types and `RunInvariant`, and that is
  `Progress` and `Rightness`. They say for each
  worker that it has tested what is before its cursor and nothing else in its
  chunk, and that its stream stands where the next test is due; and of each tested
  observation that it was tested at the right place, with the right p-value and
  category. None of the properties is inductive without it: whether two workers may
  meet depends on their cursors being within chunks, and whether a result is right
  on the seed handed on from the observation before.
* From it: `WorkIsDivided`, `WorkersAlwaysApart`, `EachTestedOnce`,
  `ResultsAreDetermined`, `CategoriesAgree`, `FilterAgrees`, `ResolutionRespected`,
  `UndefinedIsShown`.
* `Reproducible`: `Spec => ImplementsService`. `Init` maps to `Init`, `Run` to
  `BeginRun`, `JoinAll` to `EndRun`, the setters of parameters to `SetParams`, all
  else to no step.
* `FirstChunkAlwaysSerial`: the stream of a run with one thread, which no state holds,
  is constructed: for each number there is a sequence of seeds up to it that
  obeys the recursion, else there were a least number without one.

`LocalSAFaultsProofs` proves `DamageIsConfined` (`DamageConfined`) and `AlwaysOldOrNew`
(`OldOrNew`) of `FaultSpec`. `Invariant` does not survive a thread that cannot be created.
`FaultInvariant` keeps of it what does (`Progress`) and adds in which part of its chunk
each stray still is (`StraysKept`), that every result no stray can reach is right for
this run or is left from before it (`RightOrOld`), and, between runs, that whatever
has been tested was tested in the order of its chunk.

`PermutationRangeProofs` proves for every stream of candidates and every graph:

* `SamplesSound` (`SampleSound`).
* `TestIsOneStep` (`ObservationIsAtomic`): what the loop does to an observation, draw by
  draw, is what `CountLarger` and `SeedAfter` are defined to be without a loop. The
  invariant (`TestInvariant`) has a witness: where each permutation so far began, and
  how many seeds the sample at hand has used. That two sequences of beginnings which
  obey the same recursion are equal is shown with the least place where they differ.
* `AcceptableComes`: while a sample is not full, a candidate it can take comes within
  one period of the seeds, provided that there are enough. This bounds what
  rejection sampling waits for; that the thread is scheduled until then is fairness.
* `StarvedRunsForever`: with too few candidates and at least one permutation it never
  ends; the second half of `RangeEnds`.
* `SymmetricWeightsSuffice`: symmetric weights without self-neighbours leave each
  observation as many candidates as it has neighbours, the premise of the first half.
* `TestsAreAsAssumed`: `LocalSA` takes `CountLarger` and `SeedAfter` as constants with an
  assumption (`TestAssumption`). The functions defined here satisfy it for each
  observation that has enough candidates.

`SkaterProofs` proves `LabelsInvariant` (`[]LabelInvariant`) and `RegionsTold`
(`[]LabelsTellRegions`) of `RegionLabels`, for every number of observations and every
set of disjoint regions. The invariant is needed because 0 means "unlabelled" while
regions are being labelled: a label says which of the regions so far the
observation is in. It proves the same of `SkaterSpec`, whose calls follow each other
(`SkaterIsInvariant`, `SkaterTellsRegions`), and `DataClustered` (`ClustersTheData`)
and `MemoryIsKept` (`MemoryKept`). The invariant has one part per stage: which
columns are filled, which pairs of the distances are copied in both
directions when the loops stand at `i` and `j`, and which blocks are allocated.

`LayerAccessProofs` proves all four properties of `LayerAccess` (`NothingIsLeft`,
`AllOrNone`, `SaveTruthful`, `UndefinedIsUnchecked`) for all data sources, layers
and transformations. The invariant counts at each stage what is open and
allocated, and relates results and file to the beginning of the layer or the
vector that has been dealt with.

`GeoDaDatasetProofs` proves of `FrameSpec`, which is the data set alone and
between the bindings, for all tables, data sources and frames:

* `DataSetIsInvariant`: an invariant that ties `features` and `centroids` to the rows
  of the layer, the offset into the geometries to the observation that is next, and
  each row of the layer to its observation (`Coherent`). `RowsStayTogether`
  (`RowsCoherent`) follows. The offset is needed because values and geometry of a
  row come by different ways.
* `NamesFindTheirColumn` (`ValuesAreTheColumn`). It needs `ColumnsKept`: no two
  fields have names that differ in case alone, a column that was neither refused nor
  renamed has a field of its name, each row has the values that the last `SetField` of
  each field gave it (`CellsOf`), and as many
  rows as observations mean that all are in place. Nothing is assumed of the names that the
  driver makes up.
* `AnswersAreDetermined`: `FrameSpec => ImplementsDataSet`. Building the data set maps
  to no step until it is ready, every answered call to `Ask`, going undefined to
  `Lose`, and the steps of the bindings to none or to that of the data set within.

`FrameRoundTripProofs` goes on from there, for the same specification:

* `AlwaysCallsInvariant`: `CallsInvariant` says which field, feature and centroid belongs
  to which column and observation after any combination of refused fields, failed
  geometries and features: up to the first field refused the fields are in
  the places of their columns and called like them unless renamed (`FieldsRight`),
  `fieldNameIdx` has the last place of each name (`IndexRight`), and the rows kept are those that were stored, in their order
  (`KeptInOrder`, `RowsInPlace`).
  `FlagsAlwaysMatchValues`, `SkaterAlwaysSeesTheColumns`, `PointsAlwaysInPlace` and
  `OnlyFailureIsUndefined` follow from it and from `DataSetInvariant`. That
  `GetCentroids` skips what has no geometry is a count of the places before a place
  (`Nth`), so that nothing has to be said about sequences by recursion.
* `DataSetTypes` (`TypeOK`), by an inductive `TypeInvariant`: the types of the answers
  follow from those of the layer, and these from what the tables and files hold.
* `FramesStayInOrder`: `OnItsWay` says for each stage of a conversion what has been taken
  out of the frame (`ColumnsTaken`, `GeometriesTaken`), what the data set was handed
  (`HandedIn`) and what has been read back (`ReadBack`). `FramesComeBack` (`RoundTrip`) follows.
* `SupportedFramesAlwaysReturn` (`SupportedFramesReturn`): of a frame with geometries of
  one kind that is supported every row is stored, unless the driver refuses one
  (`EveryRowIsStored`). A second invariant (`EndsWell`) says that such a conversion ends
  with an exception, or by what is undefined, only in four cases: the constructor had
  no layer, the driver has refused a row, an R frame has no columns, where `1:0`
  counts down (`CountsDown`), or R has collected the list of geometries. The last
  is a fault of the binding that no frame is safe from.

`ShapeUtilsProofs` proves all five properties of `ShapeUtils` for every finite set of
features, all geometries and every sequence of calls. `ShapeInvariant` says where each
feature is while a loop stands at an index (`EachInPlace`), and what the features
before that index have contributed: their amounts, flags, and parts of the outline.
`EachFeatureInOnePlace` alone is not inductive: in the middle of `GetFeaturesWithin` a
feature that was passed on is in two vectors.

Assumptions on the constants are the named `ASSUME`s of the modules: numbers are
numbers, `Isolates` and `Undefs` are observations, what a caller may pass is typed
(permutations not negative), `CountLarger` is between 0 and the number of
permutations, `Candidate` is an observation, the regions of a clustering are
disjoint, `Folded` and `NamesInFile` are functions of names (`NamesAssumption`, which says
nothing of their values), `Starts` are the sums of `BytesLen` (`StartsAssumption`), and tables,
data sources, frames and geometries are of their types, and there are finitely many
features (`FeaturesAssumption`). TLC evaluates them on every run.

Only model-checked:

* `RunReturns`, `RunsAndStraysEnd`, and that the loop of `RangeEnds` does end: liveness
  under fairness is beyond the prover. `AcceptableComes` is the part of the last that is
  not.
* The four disagreements of section 6: a counterexample is enough.

## 5. Not modelled

Of the code written by hand, about 2,000 lines, two thirds are modelled. The rest
is mostly declarations, includes, getters of a plain member, messages and comments.
As a share of all lines the model is small, because 88,748 of 90,540 lines are three
wrapper files that SWIG has generated.

* Generated SWIG wrappers: conversions around a call, no state. What they do to
  exceptions of C++ is not considered. Of the type maps in `swig/libgeoda.i` only
  the list of geometries for R is modelled.
* Vendored code under `deps/`, and the submodule `src/geoda`, which is absent: the
  algorithms behind weights, Voronoi neighbours, clustering, and the hash.
* Weights: `CreateDistanceWeights` returns 0; `CreateContiguityWeights` is modelled up
  to the coordinates or geometries that it hands over. The Voronoi call gets x for y
  (`src/libgeoda.cpp:236`): it is modelled so, and what neighbours come of it shows only
  in the absent code. An unknown column
  has no flags, and its zeros are taken for values (`src/libgeoda.cpp:356`).
* SKATER: `StandardizeData` overwrites the vectors of the caller, and `isSqrt` is
  overwritten (`src/libgeoda.cpp:499`): distances are not compared by value.
* Bindings: the reference system, which is dropped on the way back;
  an sf column of geometries that is not called "geometry", and classes of length 2;
  geometries missing in R, which are stored empty. `utils.py` (labels), `read_geoda.R`
  and `geoda_to_sf` (empty functions) have no behaviour.
* Memory of the OGR utilities other than features and data sources: `poCT`, which is
  never freed, and the ring that `GetBBoxShape` allocates, of which `addRing` keeps a copy
  and which is never deleted (`src/ogr/OGRShapeUtils.cpp:69`). `NothingLeftBehind` does not
  count either.
* Negative permutations (endless for all practical
  purposes); the width of doubles; `SetData`, which nobody calls.

## 6. Findings

| run | the code | a document says |
|---|---|---|
| `indicators` | an island with a value is shown as a significant high-high cluster, since its p-value stays 0 (`src/UniLisa.cpp:95`); 5 is undefined, 6 neighborless | "5 (neighborless/island), 6 (undefined)" (`swig/R/wn1_rgeoda_sp.Rmd:82`) |
| `usercutoff` | filter -1 leaves the cutoff in force (`src/AbstractLocalSA.cpp:43`) | "user input cutoff" (`src/AbstractLocalSA.cpp:42`) |
| `area` | the area of a multipolygon is 0 (`src/ogr/OGRShapeUtils.cpp:154`) | "Compute area of a shape (Polygon or MultiPolygon)" (`src/ogr/OGRShapeUtils.h:31`) |
| `frameindex` | geometries of a sorted or filtered frame are taken by label, its columns by place (`swig/python/pygeoda/geopds.py:52`) | either list of values may be used (`swig/python/doc_esda.ipynb:282`) |

Met on the way, without a run of their own:

* A value or a lag exactly at the mean is high-high (`src/UniLisa.cpp:55`).
* 999 permutations are the default; "99 will be default" (`src/AbstractLocalSA.h:88`).
* A data source that cannot be opened leaves a null layer; `GeoDa gda("memory")` and
  then `GetNumObs()` is in `test/testgtest.cpp:15`. The model goes to `"undefined"`.
* Arc lengths are taken in degrees (`src/ogr/OGRShapeUtils.cpp:127`, `:181`).
* A transformed bounding box is that of two transformed corners (`:46`), and
  `GetBBoxShape` makes a ring of two points from a freed envelope (`:70`).
* SKATER leaks its mask and the first row of the distances, and gives `free` what
  `new[]` has allocated (`src/libgeoda.cpp:436`). `MemoryKept` says exactly this much.

## 7. Plan

Done: the local statistics object with its division of work, its worker and
its faults; the data set with its abstract specification and the bindings around
it; SKATER over vectors; both OGR utilities; proofs of every safety property that a
run checks and of both refinements.

Left, in this order:

1. That every step of a run, of a stray and of the loops brings its end nearer: a
   measure for each, the part of the liveness properties that can be proved.
2. The type maps of `swig/libgeoda.i` for vectors and exceptions.
3. The weights, Voronoi neighbours and the clustering, once their sources are there;
   then `RangeEnds` for the weights that the entry points make.
