# libaudioDB in TLA+

libaudioDB stores feature vectors of tracks in one file per database, shared
between processes under a lock, and answers nearest-sequence queries over them.
This directory specifies it in TLA+: modules that follow the source, TLC
configurations that check them on small instances, and TLAPS proofs of what holds
for every instance. `PROJECT.json` maps every definition to the source lines it
models and lists the runs, the mutants that show each property can fail, the
findings, the hazards and the theorems.

## The system

| Part | State | Operations | Where |
|---|---|---|---|
| File lock | per-process record lock on the header bytes | acquire, divest, loss on close or exit | `lock.cpp` |
| Database file | header (numFiles, dim, length, flags), key, track, data, power, times and norm tables | everything below writes it | `create.cpp`, `insert.cpp` |
| Handle `adb_t` | lock mode, cached header, keys, keymap, track_lengths, track_offsets, cached index, random generator | create, open, close | `open.cpp`, `close.cpp` |
| Insert and flags | the handle and the file | insert_datum, insert_reference, insert, batchinsert, power, l2norm | `insert.cpp`, `power.cpp`, `l2norm.cpp` |
| Retrieve, status, listing | none of their own | read the handle and the tables | `retrieve.cpp`, `query.cpp`, `status.cpp`, `liszt.cpp` |
| Query | per-query state: allowed keys, accumulator, sliding matrices | query_spec, with and without results so far | `query.cpp` |
| Accumulators | bounded queues of results | add_point, threshold, get_points | `*accumulator.h` |
| Index | one LSH file per radius and sequence length, tables in core, cached in the handle | build, retrieve, exact re-evaluation | `index-utils.cpp`, `query-indexed.cpp`, `lshlib.cpp` |
| Multi-probe | heap of perturbation sets | generate | `multiprobe.cpp` |
| Sampling | random generator | sample_spec | `sample.cpp` |
| Dump | a directory of text and binary files | dump, and a restore script | `dump.cpp` |

All parts meet in the handle: `audiodb_open` takes the lock, reads the header and
fills the caches once; every later call trusts them and seeks through the one file
descriptor. Calls are synchronous and single-threaded per handle. Concurrency is
between processes, which share the file and the kernel's locks, and between the
handles of one process, which share the process's lock.

What is hard, and where a test would hardly look:

* a process dies, a write comes up short or the header sync fails between two
  writes of an insert;
* handles of one process under per-process locks; lock conversion; EDEADLK;
* caches filled once and used for the handle's life;
* tables whose sizes were computed from other assumptions than the data meet;
* norms computed by two different calls; tracks without vectors;
* queries that prune by a moving threshold and read by a moving file position;
* encodings with skip bits, tokens and capacities in the index.

What makes each component correct: the lock never admits a writer beside anyone;
a committed track is whole, never lost and never duplicated; a handle's caches
equal the file as long as it holds its lock; retrieval returns the vectors that
were inserted under the key; norms are current; every write stays in its table; a
query's answer is the true best k among the allowed windows; an index returns
what was put in and what an exhaustive search would confirm.

## Modules

* `FileLock`: the POSIX record lock. A lock belongs to a process; a request
  conflicts only with other processes and converts what the process holds;
  closing any descriptor (`Divest`) drops it. The retries of `acquire_lock` on
  EINTR and EAGAIN repeat the same request and are stuttering.
* `Offsets`: how `audiodb_collect_track_lengths` accumulates track starts, and the numbers by which
  an index names vectors (`audiodb_index_to_track_id` and its relatives).
* `Store` (extends both): the file and any number of handles in any number of
  processes. One action per system call that something else can come between:
  create the file, write its header, take the lock, read the header, collect the
  keys, collect the lengths, each write of an insert, the commit. `pc[h]` says
  where the call in progress on handle `h` stands; `hdr`, `keys`, `keymap`,
  `lengths`, `offsets` are the fields of `adb_t`; `header` and the tables are the
  file. The contents of a table are what was written there: a data cell holds
  `<<key, j>>`, the j-th double of the datum inserted under that key, and a norm is
  represented by the vector it was computed from, so a lost, shifted or mixed
  value is visible and an equal one is not a coincidence. A call that is refused
  without changing anything is stuttering. `Faults` selects what may fail:
  `"write"` (a write of an insert, of audiodb_l2norm or of audiodb_create fails, or
  writes only part of the vectors), `"sync"` (audiodb_sync_header returns an error,
  the header written or not), `"crash"` (a process dies between any two steps; the
  kernel keeps what it wrote).
* `Catalogue`: what the file promises: a list of tracks, each whole, of one
  dimension, with the same features and under a new key, that only grows at its
  end. `StoreCatalogue` maps the committed part of `Store`'s file to it.
* `Layout`: the geometry `audiodb_create` computes for both kinds of database, the
  space checks, and the extents each insert and audiodb_l2norm write, in bytes;
  `RestoredGeometry` is the file that the sizes in `restore.sh` lead to.
  `Word` is the modulus of the unsigned product in the size of the key table.
* `Doubles`: the floating-point numbers as far as the properties tell them apart:
  integers for finite values, -infinity (the power of silence) and NaN. Rounding is
  not modelled. `SequenceSum` is `audiodb_sequence_sum`, which turns a buffer into the sums
  of its windows in place, by sliding, and starts afresh after a value that is not finite.
* `Accumulator`: `DBAccumulator`, `PerTrackAccumulator` and `NearestAccumulator` as one
  module: they differ in what they group points by (`GroupOf`) and in how many a group
  may hold. `offered` is the history of points that were added; `queues`, `thresholds`
  and the variables of `get_points` are sets of positions in it, so that equal points
  stay apart. What a `priority_queue` does with ties, and the order in which the map of
  tracks is walked, are left open.
* `Query` (extends `Accumulator`): one call of `audiodb_query_spec_given_sofar` without an
  index. `AllowKeys`, `AddSoFar` and `SetUp` (or `Refuse`) come first; then `NextTrack` is
  the head of the track loop, which reads the track from wherever the file stands, `Window`
  one pass of the innermost loop, `LastTrack` and `Collect` the end. `filepos`, `buffer`,
  `dd`, `thresh`, `j` and `k` are the variables of the code. Norms are kept as squares and
  averages as sums; the tolerance of 1e-6 is 0, as distances are integers. `AnswerIsBest`
  compares the result with `Hits`, which is defined from the tables and the query alone,
  with no loop, window sum, threshold, pointer or file position in it: each track has the
  duration of its own times (`TrueDuration`), and a divergence is the sum over its window. The code
  does not keep to that in three cases, which the property names and leaves out: `DurationsAreOwn`,
  `MeasuresWindows` and `NothingTwice` (see below).
* `IndexedQuery` (extends `Query`): any number of queries on one handle, each of which looks
  whether an index file exists for its radius and sequence length (`Dispatch`), loads it or takes
  the one cached in the handle (`LoadIndex`), makes its shingles, and has the index report points
  (`Report`), which are added at once (approximate) or put on a queue whose top is evaluated
  until it is empty (`LoadTrack`, `Evaluate`: `audiodb_query_queue_loop`). `Build` stands for the
  other programs that build, rebuild and remove index files at any time, from a database with
  fewer or more tracks than the handle knows. An index reports any windows it covers, in any
  order and repeatedly; which ones it ought to report is the matter of `LshIndex`. Without an
  index the steps are those of `Query`.
* `LshRows`: one row of an LSH table in each of its forms: the sorted lists insertion builds, and
  the array of keys, points and skip bits a query loads, with insertion, retrieval and the hash
  keys. The four tokens at the end of the 32-bit words are kept at the end of a smaller `Word`.
* `LshFormat`: the two file formats: the cells of FORMAT1, to which rows are merged in place, and
  the stream of tokens of FORMAT2 with the state machine that reads it word by word.
* `LshIndex` (extends both): processes that make an index, open one to add to it or query it,
  and serialise. Every opening, locking, writing and closing of `G::serialize` is a step, because
  the file is opened three times and unlocked in between. A process dies when a check fails, as
  `error()` is `exit(1)`, and may be killed anywhere; then the stream of a FORMAT2 file is on
  disk up to some buffer of `Chunk` words. What a vector hashes to is a table, `funs.g`; how the
  keys are computed from it is in `ProductModPrime`. The lock is the process's (`Grants`): it never
  waits for its own.
* `MultiProbe`: the heap of perturbation sets and the loop of `G::retrieve_point` that takes them
  from it. Sets are sets of positions in the sorted distances, which are sorted as the code does, by
  distance and among equals in some order that is left open; `heap` elements carry a ghost number.
* `Sample` (extends `Query`, for its data, distances and accumulator): `audiodb_sample_spec`; what
  the random generator returns is any value it can return.
* `Dump`: `audiodb_dump` in several threads of one process. Files are written into the working
  directory of the process; lines of the lists stay in the streams' buffers until these are
  closed. `Restored` is what `audiodb_insert` makes of the files.
* `MCStore`, `MCLayout`, `MCQuery`, `MCIndexed`, `MCLsh`, `MCMultiProbe`,
  `MCSample`, `MCDump`: instances for TLC.
* `OffsetsProofs`: lemmas the other proofs share: induction over sets of naturals and over
  subsets, accumulated offsets, sums over finite sets, folds over sequences.
* `AccumulationProofs` is about an accumulator by itself, given any points in any order (`AccSpec`), and
  its lemmas serve `QueryProofs`.
* `StoreProofs` (locks, types, what the file and the caches hold, and the refinement), `LayoutProofs`, `QueryProofs` (`Query`, `IndexedQuery`
  and `Sample`), `MultiProbeProofs`, `LshProofs`, `DumpProofs`: the proofs about the modules they are named for.

How they compose: `Store` and `Layout` describe the file from two sides, its contents and its
bytes. `Query` takes a database as `Store` promises it; `IndexedQuery` and `Sample` share its
variables, its `Offsets` and its `Accumulator`. `IndexedQuery` and `LshIndex` meet at the set of points
an index reports. `Dump` ends with the inserts `Store` models, and `Layout` says whether they fit.

Operators marked "Mutant" are small, plausible mistakes in the definition after
them; no specification uses them. `PROJECT.json` names the property each refutes.

## Runs

| Run | Instance | Shows |
|---|---|---|
| `store` | 2 processes, 1 handle each, 2 keys, 5 datums, 2 track slots, 5 doubles, failing writes, crashes | type invariant, `WriterExclusion`, `RetrievalIntact`, `CacheCoherent`, `NormsCurrent`; acknowledged tracks stay through later inserts, torn writes and crashes (`AckedDurable`); the file implements `Catalogue` |
| `store_locks` | 2 processes, 2 handles each, no inserts, symmetric | no lock is left without a handle, through conversion, loss and EDEADLK |
| `store_live` | 3 processes, 2 datums, room for one track, failing syncs, crashes | a waiting reader is served |
| `layout` | 16-byte pages, 8-byte key entries, all small sizes, both kinds of database | every write stays in its table; the restored file has room |
| `query` | 1780 pairs of a database (4 or 2 tracks) and a query: all accumulations and distances, every refinement, by memory or by key, exhaustive or at a position, with and without results so far | tracks are compared with their own vectors and windows have their own sums; the best of each group are kept, thresholds are right and tighten, the best tracks are returned and the array is exactly filled; the answer is the best of all hits; every step goes on, so every call ends |
| `indexed` | 3 databases, 7 queries (exact, approximate, by position, by key, with refinements, and with the three distances), indexes over 2 to 4 tracks, 2 calls, 2 changes of index files, 2 reports per window | points are evaluated once; the exact indexed query agrees with the exhaustive one about what the index found; only newer indexes lead astray |
| `lsh` | 2 processes, 3 jobs, 5 points in rows of 3, sets of points that overlap, 2 tables of 2 rows, both formats, 2 draws of hash functions | points acknowledged under the file's functions stay findable; the file can be loaded; arrays, lists, cells and tokens agree; the functions of a file are fixed; serialising ends |
| `multiprobe` | 2 or 3 hash functions with all distances up to 5, T up to 6; the code's own distances for 1 to 3 functions | each set once, the best first, the default probe below in the first function, and the search ends |
| `multiprobe_probes` | as `multiprobe` | expects the second violation below |
| `sample` | 4 databases of 1 to 3 tracks, 12 queries, by datum and by pairs | windows inside tracks, full answers, and an end whenever there is something to measure |
| `dump` | 2 threads, 8 databases, failing calls, a crash | a good dump restores; the working directory comes back; nothing but the known leaks is left |
| `lsh_array` | as `lsh` | expects the first violation below |

The bounds are the smallest in which the interesting cases occur: two processes
suffice for every conflict over a lock that only compares pairs; two tracks are
the first for which an offset, an index and an earlier track to overwrite exist,
and `MaxTracks = 2` makes the table fill up; five doubles take two two-dimensional
tracks, or one of two vectors, and refuse the next (the space check is strict, insert.cpp:14). `Mixed` has two-dimensional tracks
with every feature, so that confusing doubles with vectors shows. The layout run uses sizes
at which tables fill exactly, entries wrap (`Word = 64`) and both kinds of
database arise; proofs cover all other sizes. `ImplementsCatalogue` and `CacheCoherent`
are not checked with failing syncs: after one, a handle is ahead of the file and its
next commit may publish two tracks at once (see below). That acknowledged tracks stay even then is the
theorem `AckedInsertsStay`, for any failures.

In `query` queues get a point too many, and there is a track more than wanted. The databases of `query` have a track shorter than the query, zero
vectors, silence, vectors equal but for their sign and two-dimensional data, so that
short tracks, undefined distances, thresholds that prune, gaps between allowed tracks
and a unit mistaken for another all occur. The times of the larger database are such that every track's duration is the one
the code computes, and the duration filter excludes one; those of the smaller are not, a query has its own hit among
the results so far, and one asks for a divergence, so that each of the three conditions of `AnswerIsBest` is met
and not met: without any one of them the run finds it violated.

In `indexed`, the handle's database is smaller than some indexes and larger than others, one track is
shorter than the longer queries, and two calls with two changes of the files are the least in which
a cached index outlives its file. In `lsh`, three points share a bucket and four a row of three, so that
rows overflow at insertion, at merging and at loading; two jobs race to create the file and a
third merges or queries; two sets have a point in common, which two indexers may both add; `SkipBase = 2` makes a block of the array end after four points. In `multiprobe`
ties and every order of distances occur. In `sample` one track is too short, one has a value
that is not finite, and one database has nothing else. In `dump` the databases have an empty
track, only empty tracks, none, times that overlap, and names relative to another directory.

Deadlock is checked in the store runs and in `multiprobe`. `Layout` really stops when a database is
full and has its norms; a query, a sampling and a dump stop when they are done,
and `indexed` and `lsh` at their bounds on calls and jobs.

Fairness (`FairSpec`): a call in progress goes on (weak fairness of its next step:
nothing in the code waits for anything but the lock); the kernel grants a request
that is grantable again and again (strong fairness: F_SETLKW queues the request,
and the EAGAIN retry repeats it for ever); a client closes a handle it is done with
(strong fairness of `Close`: `Close` is possible only between calls). No fairness is assumed
of opening, inserting, failing or crashing. Writers are not promised anything:
readers that overlap can starve them, in the code as in the model. A query is a computation
of one thread; that it ends needs no fairness to state: `GoesOn` says that every step takes it
further in a bounded lexicographic order.

`LshIndex` assumes of an indexer that it goes on when it can, the lock being free counting as "can":
jobs are bounded, so that no lock is taken away for ever. `Fairness` is weak fairness written out without
ENABLED. `MultiProbe` has weak fairness of the one thread that runs. `SampleFairness` adds to that what
the random generator promises: a pair of windows that can be measured, if it can be drawn again and again, is
drawn at last. Nothing is assumed of the programs that build indexes.

### What the code does otherwise than it says

Two runs expect a violation. `lsh_array`: the search of a row loaded as an array passes over a bucket
of several points by one word too many (lshlib.cpp:1677-1679), so that a query misses points or
reports wrong ones. The passing run `lsh` checks with `QueryExactBehindSingles` that retrieval is right where no
such bucket is passed over, and with `ArraysFaithful` that the array itself is right.

`multiprobe_probes`: lshlib.h:114 documents LSH_MULTI_PROBE_COUNT as "How many adjacent hash-buckets to probe in LSH
retrieval" (`ProbesAsMany`). The loop of `G::retrieve_point` takes a set off the heap in its body and compares its counter
with the number of sets left (lshlib.cpp:579-586), so that of T sets it looks up half, rounded up. With the count of 1 that is
compiled in the number is right; `DefaultBelow` adds that this one probe is the same for all queries, as the distances the code
computes are always 0 and 1.

More disagreements showed while modelling and have no run of their own:

* insert.cpp:70-72 says that nothing recognises a datum before the header is updated on disk. Step 8 has
  changed the handle before step 9 fails, and nothing undoes it; a retry through `audiodb_insert` then
  takes the key for one already inserted and returns 0. `AckedInsertsStay` shows what remains right.
* A database whose tracks all have no vectors is reopened with empty caches, because the collectors
  test `length`, not `numFiles` (open.cpp:28, 53); the check for duplicate keys then passes, and dumps
  read tables that are not there.
* Data of fewer dimensions than given at creation overflow the power, times and norm tables: only the
  data table's space is checked (insert.cpp:14, create.cpp:71). `layout` uses data of at least that dimension.
* The mean durations of all tracks are computed from the first entries of the times table, whose
  pointer is never advanced (query.cpp:430), against audioDB-internals.h:65-66 ("an array of mean durations for each
  track"); and the exhaustive loop has no case for the Kullback-Leibler divergence (query.cpp:623), so that all its
  hits tie at 0. `AnswerIsBest` says nothing of queries by divergence, nor of those by duration over a
  database in which a track's duration is not the one so computed.
* Two handles of one process are both granted the write lock, and the second insert overwrites the first
  (`ProcOf <- SharedProcess` and `INVARIANT AckedDurable` in `store.cfg` show it), although docs/TODO.txt:107 believes the
  locking to be good enough.
* A hit among the results so far that the query finds again, or that is there twice, is kept twice and may push another out,
  which query.txt:91-93 wants the accumulator to defend against: `AnswerIsBest` leaves such queries out (`NothingTwice`); and `audiodb_sequence_sum` replaces one element more than its comment
  says (audioDB-internals.h:306-307).
* The queue loop has no case for the dot product: an exact indexed query by it finds nothing, while one by
  Kullback-Leibler uses the symmetric divergence, and hops and the duration filter are not looked at.
  `ExhaustiveOnFound` leaves these queries out. The power of a window is read before its position is tested
  (query.cpp:495-496), and through a null pointer on a database without power: `SoundUnlessNewer` says when.
* `serial_can_merge` tests `!that->flags & 2`, which is never true (lshlib.cpp:799), and compares
  neither the row length nor the hash functions: an index merged into a file another process made is
  stored under functions that are not the file's. An indexer that opens the file between its creation and its
  filling (749-768) reads functions of zeros, and the creator then writes over what it merges; its `serialize()` returns all
  the same. `AckedFindable` is about points that were taken in under the functions the file has.
* Rows of a FORMAT1 file that were never written are zeros instead of unused cells; nothing can be merged into
  them and a load reads bogus points of number 0 from them: `AckedFindable` leaves out rows of zeros. A full row has its end mark written one past
  its last cell (lshlib.cpp:1006). A file whose highest point is 0 accepts that point again (551).
* Sampling never draws the last window of a datum searched exhaustively, aborts when that is the only one
  (sample.cpp:213), and never ends on pairs of one track (228-232): `SampleEnds` says when it ends.
* `audiodb_dump` changes the working directory of the process, as its FIXME says (dump.cpp:63); its error path
  closes one list twice and another never (256; the model's second close fails, although another thread may have got the number); `restore.sh` stands before the lists are closed, so that a process that dies leaves it with lists cut short; a track without
  vectors among tracks with times cannot be restored (insert.cpp:381), and of the times of a track only the
  starts and the last end are kept. With pages of 64 KiB a database of the default size is restored as one of references.

## Theorems

Checked by TLAPS for all values of the constants, from the assumptions the modules state on them
(`ASSUME`, each evaluated by TLC in a run) and the hypotheses named here.

### The store

* `LocksCompatible`: no process ever holds a lock beside another's write lock.
  `LockCompatible` is inductive together with the type of `lock`: only `Acquire` and
  `Divest` change it.
* `NoLockLeftBehind`: a process without an open handle holds no lock (`LocksOwned`). Every
  step in which a handle stops holding, failed opens and deaths among them, also drops its
  process's lock.
* `WritersAlone`: with at most one handle per process (`OneHandlePerProcess`), a
  handle open for writing is alone. The exclusion of handles is not inductive by
  itself: it follows from compatible locks and from `Backed`, that every handle past
  acquire_lock holds, through its process, the lock its mode asks for. `Backed` is what
  fails with two handles in a process: the paragraph on two handles above is the consequence.
* `TypeCorrect`: the type invariant. It needs `Pending`, that a call between steps 6
  and 8 was admitted when `numFiles` was below capacity and still has its datum;
  otherwise the commit could leave the range. The offsets need `StartsAccumulate`,
  proved in `OffsetsProofs` from the recursive definition, by induction over a set of naturals.
* `AckedInsertsStay`, `RetrievalStaysIntact`, `NormsStayCurrent`: every acknowledged insert stays in the
  file, retrieval returns what was inserted, and norms are those of the vectors. All three
  come from one inductive invariant, `ContentInv`. About the file: every track the header counts is whole, its
  key in its place and its data in the cells that the lengths before it lead to
  (`Stored`), and every acknowledged insert is one of these tracks. About a handle under a
  lock: its caches agree with the tables as far as its own copy of the header goes, and a call between steps
  6 and 8 has written exactly the cells behind the committed ones. The writes of an
  insert go behind everything that is committed because `length` is the sum of the committed lengths
  (`LengthCounts`); that a write leaves all earlier tracks as they are is `StoredKept`, that the commit makes
  one track more of what was written `OneMoreTrack`.
* `CachesStayCoherent`: a handle's caches are those of the header on disk. Without failing syncs
  (`"sync"` not in `Faults`): after one a handle is ahead of the file, as described above.
* `StoreImplementsCatalogue`: every step of `Store` is an atomic insert, an atomic change of a flag, or a
  stutter of `Catalogue`, under the mapping of `StoreCatalogue`; again without failing syncs. Only the step
  that syncs the header changes the mapped list.

These five need `OneHandlePerProcess`, because closing any handle drops the process's lock, and
`WithVectors`, that no datum is without vectors: the tests of `length` for an empty database
(open.cpp:28, 53) take a database of null tracks for an empty one, and what is claimed is then false. The runs of the
store satisfy both.

* `LayoutSound`: with no datum of fewer dimensions than the file was made for, and keys and
  names within their entries (`Sized`), every write stays in its table.
  The inductive invariant adds `Shaped` (the tables are in order, the data table is exactly
  as long as the data asked for, the others as long as that many vectors need; proved of
  `Geometry` from page alignment) and `WholeVectors` (what is stored is a whole number
  of vectors of one dimension and fits the data table).
* `LayoutTypes`: the types of `Layout`, with numFiles within the key table, from the same invariant.
* `RoomToRestore`: the file that restore.sh creates has tables no smaller than those dumped
  (`RestoredHasRoom`). Every file is one `Geometry` makes (`Made`); `TracksRecovered` and `DimensionRecovered`
  say that counting entries in whole pages never loses one, and never reaches a database of references.

* `LittleLeaks`: when a dump returns 0 its descriptors are closed, when it fails at most one stays open, however
  threads, directories and failures collide. The invariant (`Descriptors`) says which descriptors a thread holds at each
  point: of each list it has opened exactly one, and a file of a track only on its way to the error path.
* `DirectoryRestored`: without overlap the working directory is back when no dump is under way (`CwdRestored`). At most
  one thread is between its first step and its return, and it is in the directory it made exactly when its
  error path will leave it (`Whereabouts`).
* `DumpRestores`: a dump that returned 0, without overlap and with its lists written, restores to the tracks
  dumped (`RoundTrip`), for all databases. `Places` says that each dump has a directory of its own, also beside failed
  ones with the same argument, and that its streams and descriptors are of that directory; `Contents` that at each
  point of the loop every list has one line per track done, naming a file that holds that track's data. What the
  insertion makes of such a directory is `Restores`, for which `GoodTracks` finds the first track without vectors. A crash and
  later dumps leave it as it is.

### Queries

* `BestKept`: an accumulator holds exactly the best of every group of the points it was
  given. `KeepsBest` is inductive with the types (`IInv`); the heart is `PopKeepsBest`: a set that
  was the best of a group, with one point more and then its worst removed, is the best
  of the larger group, because not being better is transitive on numbers. NaN never
  enters a queue, and that is what the transitivity needs.
* `ThresholdsRight` and `ThresholdsTighten`: a queue has a threshold exactly when it is full, the
  distance of its worst point, and no step relaxes it (`NewTop`). With `TInv` (only queues have
  thresholds). `WorstExists`, that a queue has a worst point, is by induction over a set of
  naturals. Together with `BestKept`: a point the query loop skips because it is beyond the
  threshold would not be kept later either.
* `BestTracksReturned` and `ArrayIsFilled`: `get_points` returns the best tracks by average distance, and
  the array it allocates has the size of what it copies. `RInv` follows the ranking: the tracks taken out of
  the map are those ranked and those dropped, the dropped ones are no better than any ranked one, and `size` counts the
  points of the ranked ones. Averages are compared by multiplying out; that `Lead`, a sum over
  pairs, is the difference of these products is `LeadIsSum`, from the sums of `OffsetsProofs`.
  These proofs are about any step that adds points as `AddPoint` does or works the accumulator otherwise
  (`AccumulatorStep`), so that `Query` and `Sample` use the same lemmas.
* `BestAnswer`: the exhaustive loop returns the best of all hits and results so far, none of them twice (`AnswerIsBest`), for all
  databases and queries, where `DurationsAreOwn`, `MeasuresWindows` and `NothingTwice` hold. What the loop is to find, with the durations
  the pointers have, is `LoopHits`; that it is `Hits` under these conditions is `LoopHitsAre`.
  The invariant is `BestInv`. `HitsAdded` carries the argument: of the windows passed so far (`Passed`, which
  orders tracks, windows of the track and windows of the query as the loops do) every hit was added once or is `Beaten`
  by points already kept, and every point added is a hit at its distance. That a hit skipped for the threshold is
  beaten needs `ThreshKnown` (the threshold of a track is a radius or that of the accumulator, which only tightens) and
  `BestKept`; that an addition is a hit needs the windows' own sums (`Sound`: norms, powers, durations and the matrix
  `dd` are those of the windows compared). `EarlierAdded` accounts for results so far, each offered (`EarlierOnce`: once, if they are distinct), `ResultsGot` and `RInv`
  for what is returned; `GroupOfPoints` puts hits and results so far of a group together. Hypothesis `FiniteDoubles`, as for `SumsOfOwnCells`; the instances of `query` satisfy it.
* `SampleIsFull`: a sample that ends has as many results as asked for, each at the distance of the windows it names
  (`SampledInFull`). `SampledInv`: draws and points are counted alike (`SamplesCounted`), each point has the distance of its
  windows as looked up by key (`SamplesMeasured`, for which keys are distinct), and a queue as long as the
  sample loses none of it (`SamplesGot`, from `BestKept`).
* `WindowsStayInTrack` and `QueryGoesOn`: the windows matched are inside the query and the track, the buffer
  is that track although the loop seeks only after gaps, and every step goes on. `LoopInv` says that in the
  track loop the file stands at the beginning of the next track; `CallInv` bounds the parts of `Stage`.
* `SumsOfOwnCells`: after `audiodb_query_init_counts` and its relatives every window has the sum of its own cells
  (`WindowsSummed`), although `audiodb_sequence_sum` works in place, subtracts and adds, and starts afresh
  after a value that is not finite. `SequencesSummed` proves it of the function (`SumSlides`: taking off the first cell
  and adding the next is the sum of the next window), `TracksSummed` that each track's part is windowed by itself.
  Hypothesis `FiniteDoubles`: data are integers, which stand for the finite doubles, and powers integers, -infinity or
  NaN; the model gives no meaning to products of values that are not finite.
* `SamplesInside`: sampled windows are inside allowed tracks and inside the query, for all hops (`OnHopsBelow`:
  rounding the number of draws up to hops never leads past the last window).
* `EachPointOnce`: an indexed query adds each point once (`AddedOnce`), however often the index reports it. The
  invariant counts, per call, the points added at once and those still queued.
* `ExactSound`: the exact evaluation of an indexed query reads inside the tracks unless the index is newer than the
  handle (`SoundUnlessNewer`). `SoundInv`: every index file covers a prefix of the database or the reverse, what is
  on the queue lies inside a track, and the powers of the track at its top are those loaded; `ReportedInside` leads
  the numbers an index reports back to tracks.
* `ExactAsExhaustive`: what an exact indexed query adds is what the exhaustive one would add of the windows its index
  reported (`ExhaustiveOnFound`), also with an index older or newer than the handle. `FoundInv` holds `AddInv` and `SoundInv`
  and says more: the queue holds only places reported (`QueueReported`), the track at its top is loaded whole
  with its own sums (`TrackLoaded`), every point added is a reported hit, and every reported hit is added or waits
  (`FoundEvaluated`). A pair passes the tests of the queue loop exactly when its windows are a hit (`EvaluatedIsHit`): the
  norms of a track loaded alone are those of the whole table, and powers behind a track are never those of a hit.
  That the set drops no hit needs `OnePlace`: two places under one triple are the same, as keys are distinct. Hypotheses
  `FiniteDoubles` and `TracksThere`: the handle knows a track. Without one the number of any point leads to
  `keys[(uint32_t) -1]` (audioDB-internals.h:372), for which the model has no value; the dimension of such a handle is 0
  and refuses every query, unless a failed insertion has set it (insert.cpp:103). The databases of `indexed` satisfy both.
* `IndexRoundTrip`: the number an index has for a vector leads back to its track and position, past any
  tracks without vectors; from the monotony of `Starts`.

`Query`'s assumptions on databases say what `Store` proves of them: a handle's caches have an entry for each
track, keys are distinct, the offsets are the accumulated sizes, and the data table holds as many doubles as these add up to.
Those on queries are what a caller must see to, and the code does not check: a datum has the doubles and the powers its
size announces, a radius is a number where one is asked for, and results so far have distances.

### The index

`LshFormat` and `LshIndex` assume of their constants what the code sees to: a row holds at most 10^6 points
(O2_SERIAL_MAX_COLS, lshlib.cpp:1176), so that an element count is no token; the sets indexed are of points below 2^30; and
the words hashed are multiplied with numbers from `randr()` of at most MAX_HASH_RND (lshlib.h:54).

* `FunctionsStay`: the hash functions of an index file are never replaced. The invariant: at most one process is
  making the file (`Making`), between O_EXCL and the writing of the functions, and while it is the file has none.
* `DiskMatchesCore`: searching a row of a FORMAT1 file answers as searching its loaded copy does, for any cells
  whatever. Loading inserts one cell after another into lists of buckets, which `RowHolds` follows by
  induction over the cells used (`InsertionFound`: an insertion adds its point under its key and nothing else).
* `IndexLoads`: an index that nobody is creating and that no writer died in can be loaded (`LoadableWhenFree`): the many
  `exit(1)` of the reading state machine are for damaged and unfinished files. The invariant is `LInv`: `Created` says that
  one process at most creates the file, that a file without a header has such a process, and that what a FORMAT2 file holds
  once it is filled begins with the words of some well-formed tables (`Written`); `Whole` says that the tables every indexer
  is about to write are well-formed, those it read and merged included; `FileWhole` keeps the functions such that
  keys are below the prime (`KeyInRange`, of the folding in `ProductModPrime`). Well-formed rows (`ListRows`) have buckets in
  ascending order, none empty, and count their points; insertion keeps them so (`PointInserted`). The heart is
  `TablesRead`: such tables, written as words and read word by word, are read to the end, as lists onto tables that
  are there already or as arrays (`RowRead`, `TableRead`, by induction over points, buckets, rows and tables); words behind
  the last token, which an earlier and longer file left, are not looked at. No element count and no point
  looks like a token: that is what `2 * C < PointLimit` is for.
* `ArraysHoldPoints`: the arrays a query loads hold the points of the lists a merge would load, and fit what was
  allocated from the element count (`ArraysFaithful`), from the same invariant. `ArrayDumped` walks through an array block by
  block (`BlockSpelt`: the number of points behind the first is what was put in the top bits), `ArrayFits` counts the words.
* `QueriesExact`: behind buckets of single points a query reports exactly the points stored (`QueryExactBehindSingles`).
  `QInv` adds to `LInv` that every row a querier holds is a list or the array of a well-formed row; `BucketsFound` follows
  the search of such an array: it passes over blocks of one point rightly and stops at the first higher key. The attempt
  to prove it showed the precondition to have been too weak: asking for a single *point* in the buckets passed over is not
  enough, as two indexers may add the same point to one bucket, whose block then has it twice; the property now asks
  for blocks of one point, and the run has sets that overlap.
* `SetsOnce`: for any number of hash functions, no perturbation set is reached twice. The invariant (`Traced`)
  says that of every set in the heap the set it came from has been taken out; `OnePath`, that a set
  comes from one other by one of shift and expand.
* `FoundInOrder`: no valid set is passed over for one with a higher score, and the sets found are inside the
  distances, for positive distances or a single set (T at most 1). `SearchInv` keeps that every allowed set not yet
  taken out has in the heap a set from which it will be reached, of no higher score (`BestIsNext`); with distances of 0, which the code's
  own can be, and more than one set, a set with the position behind distFuns can tie with a valid one.
* `DefaultIsBelow`: with the code's own distances, 0 and 1, and T = 1 the one extra probe is the bucket below in the first
  hash function, whatever the query (`DefaultBelow`, from `DefaultProbe`).

### Only model-checked

* `AckedFindable`: it needs, beside `LInv`, what a FORMAT1 file keeps when cells are merged into its rows, for every point
  acknowledged so far.
* Liveness (`ReadersServed`, `SerializeEnds`, `SearchEnds`, `SampleEnds`): fairness and ENABLED are out of the prover's reach.

## Plan

1. Done: `FileLock`, `Offsets`, `Store`, `Catalogue`, `Layout`, and their theorems.
2. Done: `Accumulator`, `Query`, and the theorems on accumulators.
3. Done: `IndexedQuery`, `LshRows`, `LshFormat`, `LshIndex`, `MultiProbe`, `Sample`, `Dump`.
4. `Durability`: the page cache and power failure between a write and its sync.
5. Done: the contents of the store and its refinement of `Catalogue`; ranking of tracks; windows, sums, samples and
   indexed additions of `Query`; the order of perturbation sets; rows on disk.
6. Done: dumps: descriptors, the working directory, and what is restored.
7. Done: the best answer of a query, full samples, and what an indexed query evaluates.
8. Done: FORMAT2 files are read as they were written, as lists and as arrays, and searched rightly behind single points.

## Not modelled

Data tables of 4 GiB and more: the query loop computes the place to seek to in an `unsigned` (query.cpp:560, 596-600), so that
after a gap between allowed tracks it would read elsewhere; in the models positions are numbers without a bound.
Allocation failures, failing reads and seeks; the Win32 locking; the parsing of feature
files beyond the numbers of vectors and times; power failures; `status` and `liszt` (they print the cached
header) and `xthresh` (floating-point statistics). A crash is that of a process: what the
kernel accepted stays. Of queries: rounding, the order in which results are returned, npoints = 0 and
the wrap-around of sequence_start + sequence_length (undefined behaviour in the code),
queries by features the query's datum does not have, databases of references, and a database that is
deleted and made anew under an old index. Of the LSH library: the projections and random
numbers behind a hash value, insertion into rows that were loaded as arrays, point numbers of 2^30 and
above (whose high bits are lost), and the printing functions. Of sampling: a datum whose tracks offer
nothing to draw from an empty table.
