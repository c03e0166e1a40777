# A TLA+ model of RedFS

RedFS reads the `.archive` files of a RED Engine game: it mounts archives into a
*depot*, resolves 64-bit path hashes to files, decodes their segments, and adds
helpers for CR2W documents, meshes, textures and audio on top. This directory
models the parts of it that keep state, share it between threads, or do
arithmetic on untrusted numbers.

Paths below are relative to the repository; `api.cpp` is `src/api.cpp` there.

## The system

| Component | State | Operations | Hard because |
|---|---|---|---|
| Asynchronous reads (`class Worker`, api.cpp) | queue, one lazily started thread, busy flag and depot, running/quiescing, abort flag | `redfs_read_async`, `redfs_drain`, `redfs_shutdown`, `redfs_depot_close`, the worker loop | threads, two condition variables, callbacks that call back in, raw depot pointers in jobs |
| Part reads (archive.cpp, api.cpp) | the mapped index, blobs, resource handles | `redfs_part_size`, `redfs_read_into`, `redfs_read`, `redfs_open`, `redfs_resource_buffer`, `redfs_close` | the index is a shared mapping that may change between two passes; 32-bit arithmetic on unvalidated numbers |
| Depot (api.cpp, archive.cpp) | archives in mount order, sorted hash table | open, open_empty, mount, mount_dir, close, locate | override order, stable sort and in-place compaction |
| Mesh cache (cache.cpp) | enabled, owner, fingerprint, dirty, entries, the file | open, flush, close, invalidate, `redfs_mesh_open` | concurrent fills, staleness, crash during replacement |
| Path dictionary (paths.cpp) | arena, sorted and pending runs | add, load, learn imports, look-up, find | pointers handed out for good, callbacks outside the lock |
| Path cache (paths.cpp) | harvested archives, what was last written, the file | open, flush, close, pending, mark | adds concurrent with a flush, cut files, partial failures |
| Archive opening (archive.cpp) | the mapped window of the index, counts, table addresses | `Archive::open` | counts and offsets come from the file |
| Path normalisation (archive.cpp, api.cpp, paths.cpp) | – | `sanitize_path`, `redfs_hash_n`, the pattern of `redfs_find`, the lines of `redfs_path_load` | three ways in must agree on what a text names |
| Oodle binding (oodle.cpp) | entry point, scratch size, load lock, free list of scratch blocks | load, decompress, acquire, release, free_scratch | published to readers without the lock; a shared pool that shutdown frees |
| CR2W documents (cr2w.cpp) | the parsed tables, a walk's position | parse, find, walk, walk_array, decode | every size, count and type name comes from the file |
| Mesh decoding (mesh.cpp, formats.cpp) | – | `redfs_mesh_open` (build), `redfs_mesh_desc_of` | sweeps over untrusted offsets, two bounds on names |
| Textures and audio (formats.cpp) | – | describe, read raw, read DDS; probe, info, walk chunks | multiplied extents, declared sizes |
| Log sink, host callbacks (all files) | six mutexes | every call that locks, reports or calls back | host code runs inside RedFS and may call it again |
| C ABI accessors, C++ facade, tools | – | – | clients or getters; only redfs_verify's arithmetic is modelled |

Interaction: every helper reads through the depot and `read_part`; a parsed CR2W
teaches the dictionary its imports; mounting tells the mesh cache to invalidate;
`redfs_shutdown` stops the worker, then closes the mesh cache and the path
cache; `redfs_depot_close` cancels the worker's jobs on that depot, then deletes
it. Host code runs inside RedFS as read callbacks, find callbacks and the log
sink.

The header's contract (redfs.h:10-17) is part of every model: reads, meshes and
dictionary calls may run concurrently; mounting, closing, shutdown and the
`redfs_cache_*` calls only when nothing else does. The `redfs_path_cache_*`
calls are likewise not concurrent with one another (redfs.h, path cache
section), but reads go on beside them.

What makes each component correct:

- *Worker*: an accepted read's callback fires exactly once, a refused one's
  never; no job touches a freed depot; shutdown leaves no thread; waits are
  bounded by one segment and never on oneself; every call returns.
- *Part reads*: never past the destination, never another file's segment, blobs
  balanced, whatever the index does.
- *Depot*: the last mount wins; a scan overrides as documented.
- *Mesh cache*: never stale geometry, one object per hash, a good file is never
  replaced by a bad one, a clean cache is a saved one.
- *Dictionary*: pointers stay valid, look-up finds the first path of each hash,
  a search delivers what matched when it ran.
- *Path cache*: coverage is backed by paths, a skipped flush loses nothing, no
  saved name is forgotten.
- *Archive, CR2W, audio, meshes, textures*: nothing outside the file is read or
  described, whatever the file claims; what was written whole comes back whole;
  two entry points that report the same fact agree.
- *Paths*: every spelling of a path leads to the same file.
- *Oodle*: a scratch block has one owner; no decode makes Oodle allocate.
- *Locks*: no call, made from wherever the host may make it, waits for itself or
  in a circle.

## Modules

Definitions whose name has a suffix (`Joined_Detached`, `Fits_Trusted`, ...) are
deliberately wrong variants of the definition below them; no specification uses
them. Each shows that some property fails when the code has that mistake, and
`PROJECT.json` pairs them.

**Worker** (api.cpp, `class Worker`). One variable per member, plus each
thread's position and locals. A critical section on `m_` is one action; a
blocking wait, a notification after the unlock, a store to `abort_` outside the
lock and every segment of a read are actions of their own. Condition variables
are positions: a waiter sits at `...Wait` until a notification or a spurious
wake-up sends it back to its predicate. Jobs are numbered by the call that made
them, so the queue is a set whose front is its minimum. Host threads and
callbacks may call anything the contract allows. `ChainIntoClose` says whether a
callback may post onto a depot whose close is in progress.

**AsyncReads** is what redfs.h promises of that component, without threads:
reads are accepted or refused, each accepted one completes once, and a depot is
freed only when no accepted read on it is outstanding. `Worker` implements it
with the identity mapping on the variables the host sees.

**WorkerInv**, **WorkerProofs**: the inductive invariant and the proofs.

**ReadPart** (archive.cpp `resolve_part`, `read_part`, `read_segment`; api.cpp
`redfs_read` and its relatives). `Top` stands for 2^32. The entry's two fields
and every segment size are read one at a time, and `Rewrite` may change any of
them in between. `stable` remembers that nobody rewrote the index during the
call.

**Ordering**: `std::sort`, `std::stable_sort` and filtering a list, without
recursion: an element's place is the number of elements before it; and adding a
list up (`Total`). Depot, Dictionary, MeshBuild, Texture and PathText extend it.

**Depot** (api.cpp scans, mounts and `reindex`; `redfs_depot::locate`). An
archive file is a record of its set and the ranks of its names; its index is a
sequence of hashes; every assignment of indexes is an initial state.

**MeshCache** (cache.cpp). A mesh is known by the archive its geometry came
from. `redfs_mesh_open` is split at the points where other readers can run;
a flush is split into write, commit and rename, each of which may fail. The
environment kills the process, cuts power (what was not committed may be lost),
repacks unmounted archives and damages the file. There is one cache file, and a
rename that has returned survives a power loss. `ReuseAddress` says whether
the allocator may hand out the address the cache remembers.

**PathCache** (paths.cpp). The dictionary is a set; a cache file is its digests,
the number of records its header declares and the records that can be read, in
hash order. One path-cache call runs at a time; reads add to the dictionary
between any two of its steps. Harvesting follows the loop redfs.h documents.
A restore may fail to read the file (`OpenUnreadable`) or run out of memory
half-way (`OpenThrows`); the history variable `fault` remembers which, and the
properties say what each one costs. Files with duplicated records, which RedFS does not
write, are left out.

**Dictionary** (paths.cpp) opens up that set: arena blocks byte by byte, the
sorted and pending runs, `merge_pending`, and `paths_find` with its callbacks.
The sort of the pending run and the in-place merge behind the sorted one are one
stable sort by hash: a new entry comes after an old one.
Its `NoDuplicates` is what lets PathCache treat sizes as set sizes.

**Glob** (paths.cpp `glob_match`): the loop, one action per turn, against a
recursive definition of the pattern language.

**Archive** (archive.cpp `Archive::open`): the header, the window mapped around
the index, the tables that must fit in it. Files are records of their fields;
numbers have `Word` values where the code has 2^32, and a mapping succeeds only
inside the file.

**Cr2w** (cr2w.cpp). Documents are sequences of bytes; a byte has `Base` values,
so a count or a size is `Base^4` wide and still wraps. Names and types are
indexes into a name table; a type is the sequence of its parts
(`array:`, `Uint8`). `cr2w_walk_array` is a loop of one action per element, with
the host's choice to stop; the measuring functions, `cr2w_decode` and the
property walker are operators over the bytes. `cr2w_parse` is modelled by its
bounds checks alone. A number is its bytes; a text is where it lies and how long
it is.

**Texture**, **MeshBuild** (formats.cpp, mesh.cpp) start where Cr2w ends: an
input is the chunks of a document, each with the values its property paths lead
to, and the attached buffers. Extents have `ExtentBits` bits, so shifts, block
rounding and products wrap. In a mesh a number beyond `MaxFloat` stands for what
is not finite. Texture also carries redfs_verify's own table and arithmetic,
which its properties compare the library with; `Sizable` says for which
surfaces the library's own arithmetic does not wrap.

**Audio** (formats.cpp): a RIFF file is its declared sizes and its chunks; the
walk is one action per chunk.

**PathText** (archive.cpp `sanitize_path`, api.cpp `redfs_hash_n`, paths.cpp): the
texts of the three ways to name a file, character by character, since which
characters are trimmed, in which order, is what the property is about. The hash
of a text is the sanitized text itself. What a text *names* (`Components`) is
defined without the loop of `sanitize_path`: the runs of characters between the
separators that lie inside the trimmed ends.

**Oodle** (oodle.cpp): one action per critical section, per access to the entry
point and the scratch size, and per call of the library. `Libraries` says where
the DLL is and what it exports.

**Locks**: every call as the set of sequences of lock, unlock, sink and callback
steps it may make, for the six mutexes; a callback or a sink may begin another
call on the same thread. The waits of the worker's condition variables are left
to Worker.

Two modules compose: **FileReaders** instances Cr2w, Texture, Audio, MeshBuild,
Archive, Depot and Oodle side by side, each on its own files, and **Search**
Dictionary, Glob, PathText and Locks. A chooser variable, set in the initial
state, says which of them runs; the others keep their initial values, so the
states are those of the parts added up. They do not share state in the program
either: each takes the result of the one below it as its input, and the inputs
enumerated are those results and damaged forms of them.

Each `MC...` module defines the values its `.cfg` file gives to the constants of
the module it is named after (MCFiles: FileReaders), and each `...Proofs` module
holds the theorems about the module it is named after.

AsyncReads is refined with `Abstract == INSTANCE AsyncReads WITH ...` in Worker.

## Runs

| Run | Result | Shows |
|---|---|---|
| WorkerSafety | holds, 0.35 M states | the worker's safety properties, and that it implements AsyncReads |
| WorkerLiveness | holds, 0.11 M states | every accepted read completes, every call returns |
| WorkerStaleAbort | violated | `cancel_for` can cancel a read on another depot |
| WorkerChainIntoClose | violated | a chained read can name a freed depot |
| MeshCacheSessions | holds, 1.5 M states | freshness, labelling, crash safety, dirty flag over several sessions |
| MeshCacheRaces | holds, 0.27 M states | two readers, two depots: one object per hash, no cross-depot answer |
| MeshCacheAddressReuse | violated | an address reused by a new depot is served stale geometry |
| PathCache | holds, 3.4 M states | honest coverage, correct skip, nothing forgotten, and exactly which failed restores break the first and the last |
| ReadPart | holds, 4.7 M states | bounds, own segments, blobs |
| Files | holds, 0.18 M states | documents, textures, sounds, meshes, archives, depots, decoding: exact on what was written whole, inside the file on anything, the override order, one owner per scratch block |
| Search | holds, 1.1 M states | the dictionary's pointers, order and snapshots; the matcher is correct and ends; spellings agree; no call waits for itself or in a circle |
| LocksSink | violated | the log sink runs with the dictionary's mutex held |

Several conditions are one invariant where they say one thing of one state:
`CacheInv` of MeshCache joins `FileSound`, `NeverTorn` and `CleanMeansSaved`, that
of PathCache `CoverageHonest` and `CleanMeansCurrent`, both with the parts that
make them inductive; `StableInv` says that a read under a stable index fills its
destination, and why; `DictionaryInv` joins `LookupExact` and `NoDuplicates`,
`DepotInv` the table's form and `LastMountWins`, `GlobCorrect` the loop's form
and `Correct`.

The violated ones state what a comment or the header says; `PROJECT.json`
quotes the line.

### Bounds, and why they are enough

- *Worker*: two hosts (one closes or shuts down while the other drains or
  posts), two worker identities (a thread started after a shutdown beside the
  one joined), two depots (the one closed and a bystander), three jobs (running,
  queued on the same depot, queued on the other), two segments (the smallest
  part where an abort between segments differs from one at the start). Host
  threads and worker identities are symmetric. The proofs remove these bounds.
- *ReadPart*: `Top = 5` leaves three plain part numbers besides the two
  sentinels, and three segments leave room for a file in the middle of the
  table; sums still wrap. The proofs remove these bounds.
- *MeshCache*: two archives with two versions each give overriding, repacking
  and reordering; one mesh suffices since entries do not interact. Races need
  two readers and two depots but only one version.
- *PathCache*: two usable paths and one over-long one, two archives sharing an
  import, two files so that opening the second takes over from the first. The
  files are symmetric, and at most one of them is damaged at a time.
- *Dictionary*: two pairs of colliding paths, an oversized path, an over-long
  one, blocks that two paths nearly fill, merges at three pending entries.
- *Glob*: all patterns and texts up to length four over two letters and both
  wildcards; three stars and a backtrack across two of them occur.
- *Depot*: three archives of all four sets, with two REDmod folders.
- *Cr2w*: arrays of up to three elements of every layout, in the three
  spellings, texts of both widths, arrays of arrays, structs in structs; each
  also cut at every length and with every byte replaced by the values where
  something changes (zero, one, the sign and continuation bits, the largest);
  the one size for which a 32-bit advance is zero; headers with two tables
  displaced at once; paths with names that are missing or empty, an array type
  whose bracket is never closed.
- *Texture*: extents of eight bits, up to one that wraps when it is counted in
  blocks, every shift that reconciles, cubes, volumes and arrays, block and plain
  formats. The proofs remove these bounds. *Audio*: up to three chunks, odd sizes,
  declared lengths too short and too long. *MeshBuild*: two chunks,
  three appearances by any three handles, null and shared ones included, a budget
  of three names, five-bit integers.
  *Archive*: counts that wrap in eight bits, indexes off the granularity.
- *PathText*: every text of up to five characters over a letter in both cases,
  both separators, a space and a quote, hashed and as the line of a list; every
  pattern of that length over two letters, both separators, space and tab,
  against files above, at and below what it names; list files that are missing,
  cut short while they are read, damaged or declare more than they decode to. The proofs remove the bounds on
  texts, patterns, lines and depots.
- *Oodle*: three threads and three blocks, six calls: two decodes beside a
  shutdown, and two loads beside a decode. Threads and blocks are symmetric.
- *Locks*: two threads; six further steps of calls made from callbacks, enough
  for a call that takes two locks inside another that reports. In Search a sink
  calls back only where redfs.h has it called, without a lock; LocksSink checks
  that premise, and refutes it.

### Fairness

`Worker!Fairness` is weak fairness of each thread's own steps: mutexes are held
for bounded work, a runnable thread is eventually scheduled, and host callbacks
return. Nothing obliges the host to call anything, and spurious wake-ups get no
fairness. Under it no notification is lost. `Glob` needs only that the loop
keeps running. Safety runs use no fairness.

## Proofs

`WorkerProofs` (for any number of threads, depots, jobs and segments, from
`ConstantAssumption` only):

- `TypeCorrect`, `Invariance`: `TypeOK` and `IndInv` hold always.
- `ExactlyOnce`, `StopJoins`, `NoSelfWait`, `BoundedAbort`: the worker's safety
  properties.
- `DrainIsComplete`: whoever returns from a drain leaves no read behind that was
  asked before it. `LeavesDrain` is the lemma about that one step.
- `NoDangling`, `Refinement`: no freed depot is named, and Worker implements
  AsyncReads, assuming no callback chains onto a depot being closed. The run
  WorkerChainIntoClose shows the assumption is needed.

`IndInv` is layered. *ThreadInv* says which threads exist: one worker, owned by
`thread_` or by the shutdown that moved it out; quiescing exactly between a
shutdown's two critical sections; busy exactly inside the loop body. *JobInv*
says who owes a job its callback: queue, cancelled lists and running slot are
disjoint, and a job is in one of them exactly while it is owed. *AbortInv* ties
the abort flag to the call that set it. *DepotInv* says a job being read names
an open depot or one whose close is still waiting for it. Exactly-once, for
example, is not inductive by itself: without ownership of the worker thread a
second worker could dequeue while the first reports.

`ReadPartProofs` (any `Top`, table and sizes): `CallInvariance`, from which
`ReadInBounds`, `ReadsOwnSegments` and `BlobsBalanced` follow. The invariant
relates each loop's position to the range resolved *when it was read*, not to
the index, which is why it survives `Rewrite`. `BlobsFilled` is about calls
during which nobody rewrote: both passes then add up the same segments, so the
copying pass ends at the size the first one announced.

`MeshCacheProofs` (any archives, versions, hashes, depots and readers, from
`MeshCacheAssumption`, whose one strong clause is that the CRC of an index tells
the versions of an archive apart, as cache.cpp takes it to).

- `Durable`, `OneObjectPerHash`, `FileIsKept` hold whatever the allocator does.
  `FlushInv` ties a flush in progress, which runs alone, to the memory it wrote
  from; `CallInv` ties a reader to the entries it looked up in; `HandleInv` says
  a held object is the entry of its hash unless the entries were dropped since.
  Without `HandleInv` two readers could hold two objects that were both, at
  different times, the right one.
- `LabelsTrue` and `NeverStale` assume `~ReuseAddress`. `LabelInv` says that the
  fingerprint is that of the owner while the owner is open and usable; with a
  reused address it is not, which is what MeshCacheAddressReuse shows.

`PathCacheProofs` (any paths, archives, files, restores and damage):
`CacheHonest`, `NothingForgotten`. `OpenInv` gives the positions of the one call
in progress, `FileInv` that a file in place holds no more than it declares, `ImageInv` that
what a flush is about to put there is complete, and `WrittenInv` what the remembered counts are counts *of*: sets that memory
still includes. So equal sizes mean equal sets (`SizesSuffice`). Comparing sizes
is right only because neither set ever shrinks while the cache is open.

`OrderingProofs` (any finite set and any relation that puts it in one line):
`Ordered`, every rank is taken exactly once, by the pigeonhole principle;
`Keeping` and `Sorting`, what a filtered and a stably sorted list contain, and
in which order; `KeptGrows`, how a filtered list grows with the places kept. They
do what an induction over the list would. Where a loop has to be followed turn by
turn, `Counting` is induction over the turns, stated of a set, and `Looping` gives
a recursive function of the turns its existence.

`DepotProofs` (any archives, folders and entry tables, from `FilesAssumption`):

- `LastMountedIsFound`. `MountedInv` says that the table is the one for the
  mounted list: sorted, of entries that exist, one per hash, and for each hash
  the last of its entries (`IsTable`). `Reindexed` shows that collecting, stable
  sorting and keeping the last of each run makes such a table from any list,
  and `LookupFinds` that the binary search of `locate` finds what it holds.
- `ScanOverridesAsDocumented`. The list of a scan ascends in the order redfs.h
  documents; dropping the archives that do not open keeps it so. A list made of
  a folder's lists comes from a fold of the community modules; `Flattened`
  reasons about it by the least prefix for which it would be wrong.

`FileReadersProofs`:

- `OneOwnerPerBlock`, `BoundWithItsSize` (any threads and scratch blocks):
  `DecoderInv` says of every block allocated that it is pooled, held by one
  decode or on one shutdown's list, and of the entry point that it is published
  after its scratch size. One lemma per critical section.
- `AdmittedIsMapped` (any granularity and files of numbers, from
  `ArchiveAssumption`): the tables an open admits end inside the window it
  mapped: their sizes are added without wrapping, and the window, rounded down,
  reaches to the end of the index.

- `ChunksAreTheFiles` (any sounds, from `SoundsAssumption`, which says what an
  intact file is: as a RIFF writer leaves it). `SoundInv` ties the position of the
  walk to the end of the last chunk delivered and, of an intact file, to the
  chunk the writer put there.
- `MeshBoxesHold`, `MaterialsAreBounded`, `DescAgreesWithMesh` (any documents
  whose values have the types `cr2w_find` gives them, any integer width, float
  range and budget, from `MeshAssumption`). A span that fits the buffer puts
  every vertex in it (`InSpan`); the extremes are finite only if every vertex is
  (`BoxOf`); names copied and budget left add up to the budget at every step of
  the loop over appearances (`BudgetKept`).
- `ValuesStayInside` (any bytes, lengths, types, paths and table sizes, from
  `Cr2wAssumption` and `InputsAssumption`; `Base` = 256 is the program): the memory
  safety of the CR2W reader. Each way of finding an end has a lemma: a length
  prefix stops at the limit or when its weight leaves 32 bits (`Prefix`), the scan
  of a struct moves 8 bytes a turn and so cannot outlast the document
  (`StructEnds`), an array ends inside if the arrays in it do (`LevelEnds`,
  `ArrayEnds`). `Delivering` says that the values lie one behind another up to the
  place of the walk; whatever a path reaches lies inside its root (`Reached`).
- `DescriptorsAreHonest`, `LoadersReadThePayload` (any textures, whatever their
  headers say, from `TexturesAssumption`; `ExtentBits` = 32 is the program). The
  library counts blocks and bytes with shifts in words and longs, redfs_verify with
  divisions that do not wrap; on a `Sizable` surface they agree level by level
  (`LevelAgrees`) and in sum (`ChainAgrees`), since halving an extent commutes
  with the shift (`Halving`) and no power of two needed wraps (`Doubling`).
  `Reconciling` shows that the search for a shift ends at the header or at a power
  that fits, `HeaderCounts` that a loader multiplies the cubes of a DDS header back
  to the faces of the texture.

`SearchProofs` (any paths, hashes, lengths, block size and pending limit, from
`DictionaryAssumption`): `PointersNeverMove`, `FirstPathIsFound`,
`SearchIsASnapshot`, from `DictInv`: the block being filled has its full size and
the bytes beyond `used` are nobody's (`ArenaInv`); the sorted run rises, no hash
is in both runs, and what they hold is the first path of each hash (`RunsInv`);
everything somebody may read, entries, hits and pointers handed out, is whole
and before `used` (`UseInv`); hits have distinct hashes (`HitsInv`), without
which delivering one could satisfy two. `Merging` shows that a merge of two such
runs loses and doubles nothing.

`LastStarSuffices` (from `GlobAssumption`, patterns and texts of any length):
`LoopInv` says that, behind the first star, the pattern between the last star and
the pointer has no other star, so whatever matches from the last star's anchor on
also matches at the pointer: giving up the earlier stars loses no match. The
recursive definition it is compared with exists by a least counterexample.

`NoCircle` (from `LocksAssumption`, any threads, nesting of callbacks and number
of steps): each call is labelled with the locks held at each of its steps
(`Leads`, `Balanced`). Only the path cache's lock is held while another, the
dictionary's, is taken, so the waits of a circle would have to ascend for ever.

`EverySpellingAgrees` (from `TextsAssumption`: texts, patterns, lines and stored
paths of any length over any characters; patterns have no wildcards, as in the
property, and stored paths are sanitized). `NamesGrow` says what one more
character does to the names of a text: a separator nothing, a character behind a
separator begins a name, any other lengthens the last. `JoinGrows` and
`JoinLonger` say the same of their text. So after every turn of `sanitize_path`'s
loop the output is the text of the names met so far, with at most one separator
behind it (`Tells`), and in the end it is the text of all of them and has the same
names (`Sanitizing`): two sanitized texts with the same names are one text.
`Beneath` is what the search for a folder rests on: a text and a separator begin
a path exactly where the text's names are the first, but not all, of the path's.

The invariants are proved as the runs check them: each theorem names the
property of the run.

Only model-checked: liveness (`EveryJobCompletes`, `EveryCallReturns`,
`GlobTerminates`: the prover does not do fairness), and `DocumentExact`: it is
about a document of any depth put together by a writer, arrays in arrays and
structs in structs, and needs an induction over the way it was written.

## Findings

Four disagreements have a run that shows them; `PROJECT.json` quotes the lines:
the stale abort flag (api.cpp:403), the read chained into a close (api.cpp:704),
the depot recognised by its address (cache.cpp:457), and the log sink under a
lock (paths.cpp:146; also paths.cpp:902 and 927 under the path cache's lock and
oodle.cpp:130, 138 and 154 under the load lock).

The models also contain these, without a run of their own:

- `OpenUnreadable` (paths.cpp:626): after a short read the cache stays enabled
  with zero written counts, and the next flush replaces the good file. redfs.h:225
  says of the file "IT IS NEVER DISCARDED", and the comment above (paths.cpp:624)
  names this outcome as the one to avoid. `NeverForgotten` therefore excepts a
  session whose restore failed; without the exception TLC finds the loss.
- `OpenThrows` (paths.cpp:648): all digests are inserted before the first path,
  so an allocation failure between two paths leaves "full coverage over a partial
  dictionary" (paths.cpp:731). `CoverageHonest` excepts it, also in later
  sessions: the state can be flushed and restored.
- `StopCb` and `CloseCb` (api.cpp:354): cancellation callbacks run on the thread
  that called shutdown or close, where redfs.h:404 says "never on the caller's
  thread".
- `Drained` (api.cpp:302): jobs a concurrent close has taken out of the queue and
  not yet reported are in neither the queue nor the running slot, so drain returns
  before them; redfs.h:427 says "every queued read has completed".
- `Finish` (api.cpp:890): if the mapped index shrinks between `redfs_read`'s two
  passes the end of the blob is uninitialised, which archive-format.md:228 rules
  out. `StableInv` is the part that holds.
- `CacheInvalidate` (cache.cpp:505): a mount after `redfs_cache_open` drops the
  entries and does not load a file that carries the new label; redfs.h:797 says
  every later call is a look-up.

- `Classify` (cr2w.cpp:274): a struct array whose bytes divide evenly into
  elements of at most eight is read as an array of fixed-width values. The
  comment calls the bound tight "so a struct array that happens to divide evenly
  is not mistaken for a uniform one", but three structs of 3, 3 and 12 bytes (two
  empty, one with a Bool) give a stride of 6. Such arrays are left out of the
  documents `DocumentExact` is about (`Even` in MCCr2w); the bounds of
  `DocumentInside` hold for them.
- `Reconciled` (formats.cpp:346) adds the shift to the mip count after the check
  that it is at most 32 (formats.cpp:307), so a descriptor can carry up to 36
  levels. `LoaderReadsPayload` is therefore about textures with the levels a
  cooker writes (`Cooked`).
- `Blocks` and `LevelBytes` (formats.cpp:118): `(mw + 3) / 4` wraps for extents
  above 2^32 - 4, and width * height * bits for 2^64 bits; `mip_chain_bytes` then
  takes the wrong payload for the right one. `DescriptorHonest` and
  `LoaderReadsPayload` compare with arithmetic that does not wrap and except
  exactly these surfaces (`Sizable`); the run holds surfaces that wrap in the first
  way.
- `Count` and `GatherAppearances` (formats.cpp:611, mesh.cpp:149): on a mesh whose
  arrays hold something else than structs and non-null handles, or past the
  material budget, `redfs_mesh_desc_of` counts what `redfs_mesh_open` skips; the
  comment at formats.cpp:567 says the two "must not disagree".

Seen while reading and not modelled: redfs.h:420 still says closing a depot from
a callback does not cancel, which `cancel_for` now does; `redfs_mesh_open`
allocates its handle outside the try block (api.cpp:1253); `fail` hands the sink
the thread's own message buffer (api.cpp:71), so a sink that calls an entry
point clears or overwrites the reason that redfs_last_error() is to report
(redfs.h:857).

## Plan

1. Proofs: `DocumentExact` for arrays of a fixed width.
2. An abstract store that the mesh cache refines: a look-up answers with what the
   depot holds now.
3. The last-error slot, with the sink's nested calls.

Not to be modelled: the C++ facade (RAII over the C ABI), the accessors, the
command-line tool and the example (clients), the text and pitch fields of DDS
headers, rounding of floating-point vertices, the cache of decoded strings on a
CR2W handle (single-threaded by contract), and the hash function itself.
