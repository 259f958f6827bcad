# A verification project for lasrs-cpp

lasrs-cpp gives C++20 programs the LAS/LAZ/COPC readers and writers of the Rust
crates `las` and `laz`. This directory models its own logic in TLA+: the stream
adapters and the buffer above them, the checks on untrusted sizes, the batched
point reads, the life of a writer, the ownership rules, the reporting of errors,
and the values that cross between C++ and Rust: points, headers and builders,
point data, octree keys and entries, coordinate systems. TLC checks the models on
small instances; TLAPS proves for every value of the constants whatever the runs
check except the three liveness properties, and the steps of those three that can
be proved (section 4).

Paths below are relative to the repository (`src/` in PROJECT.json).

## 1. The system

```
 C++ program
   |  las::Reader, Writer, CopcReader, Header, Builder, PointData (include/lasrs/*.hpp)
   |  exceptions, moves, std::istream / std::ostream
   v
 C ABI (include/lasrs/lasrs.h, generated): status codes, opaque handles,
   |  callbacks {context, read, seek, write, flush}
   v
 Rust shim (rust/src/*.rs): guard catches panics, sizes are checked, handles are boxed
   |                                    ^ callbacks: InputStream / OutputStream
   v                                    |
 las-rs, laz-rs (external crates) ------+
```

| component | state | operations | correct when |
|---|---|---|---|
| Input adapter (`stream.hpp`, `rust/src/stream.rs`) | buffer's get position, `start_`, `past_end_` | read, seek | it is a `Read + Seek` file, past the end too, whatever the buffer does |
| Output adapter (same files) | content and put position of the buffer, `start_` | write, seek, flush | it is a `Write + Seek` file, gaps are zeros, nothing before `start_` changes |
| Declared-size limits (`rust/src/limits.rs`) | stream position, EVLR walk | check on open, batches | las-rs never allocates more than the data can hold, the stream is put back, good files are accepted, opening ends |
| Reader (`reader.hpp`, `rust/src/reader.rs`) | las-rs index and stream, header view | open, read_points, read_all, fill_points, seek | points come in order and without gaps, memory follows the data |
| Writer (`writer.hpp`, `rust/src/writer.rs`) | las-rs header and count, BufWriter, phase | construct, write_point(s), close, header, destroy | no point is lost unless something failed, closed is final |
| COPC reader (`copc.hpp`, `rust/src/copc.rs`) | hierarchy, handle, adapter | open, entries, read_entry, query | las-rs is given only entries of the reader's own file, selections keep their meaning, keys are arithmetically sound |
| Handles and ownership (`reader.hpp`, `writer.hpp`, `copc.hpp`, `header.hpp`, `error.hpp`) | unique_ptrs and borrowed views | construct, move, assign, destroy | no handle outlives its adapter, nothing leaks or is freed twice |
| Error reporting (`error.hpp`, `rust/src/error.rs`) | thread-local last error | guard, check | the error thrown is that of the call that failed |
| Header, Builder (`header.hpp`, `rust/src/header.rs`, `rust/src/builder.rs`) | Rust header owned or borrowed; C++ fields over a shared base | copy, move, mutate, build | they are values: copies are independent, views die only with what they show, a builder loses no field, hidden ones included |
| Point data (`point_data.hpp`, `rust/src/point_data.rs`) | raw bytes and format | build from points or bytes, resize, points, columns | points are refused for a cause or come back, unchanged where a record can hold them, no size wraps, a span covers whole records |
| Value types (`types.hpp`, `rust/src/types.rs`) | none | VoxelKey, Bounds, versions, formats, conversions | keys name cells, bounds are smallest boxes, the version tables agree with one another |
| CRS, GeoTIFF (`crs.hpp`, `header.hpp`, `rust/src/geotiff.rs`) | VLRs of the header, handle on a list of keys | classify, set, remove, copy keys | C++ and las-rs mean the same records, every key arrives with its value, the handle is freed (setting and removing a system is all las-rs') |

What is hard here, and hard to test: a `std::streambuf` moves when it is asked
where its end is, fails or throws half way, and cannot stand past its end, while
las-rs wants a file; a BufWriter reports errors later than the call they belong
to; sizes come from an untrusted file and are read twice, by the check and by
las-rs; a point read is many batches, any of which may come short or fail; a
destructor of Rust calls back into a C++ object that is itself being destroyed
or assigned, and may fail there, on top of the error under way; a copyable C++
class is a pointer into Rust, with spans that outlive the call that made them; an
optional or a variant crosses as a flag and zeros that are values too; the same
question (which format a version supports, which record is a CRS) is answered
twice, in C++ and in las-rs. The library's
own code starts no threads and persists nothing, so there is no recovery to model
and threads meet only at the thread-local error. PROJECT.json lists each hazard at its line.

## 2. The modules

| module | models |
|---|---|
| `StreamSeek` | `seek_target`, and the ideal arithmetic it should agree with |
| `StreamCalls` | the calls and answers at the interface of the input adapter |
| `SeekableFile` | abstract: what las-rs may assume of an input |
| `InputStream` | the input adapter; refines `SeekableFile` |
| `InputStreamProofs` | theorems about `InputStream` and `BufferedInput` |
| `OutputCalls` | the output adapter's callbacks, each as a set of outcomes |
| `WritableFile` | abstract: what las-rs may assume of an output |
| `OutputStream` | the output adapter under arbitrary calls; refines `WritableFile` |
| `WriterSession` | composition: `las::Writer` + las-rs writer + BufWriter + `OutputCalls` |
| `WriterProofs` | theorems about `WriterSession` and `OutputStream` |
| `Limits` | `check_declared_sizes`, then the allocations of las-rs |
| `LimitsProofs` | theorems about `Limits` |
| `PointSource` | abstract: point reads as single steps |
| `PointReader` | the batched reads of a reader; refines `PointSource` |
| `PointReaderProofs` | theorems about `PointReader` |
| `ErrorReporting` | guard, LAST_ERROR, check and the exception, on several threads with nested calls |
| `Ownership` | readers, COPC readers and writers with their adapters, handles and headers |
| `BoundaryProofs` | theorems about `Ownership` and `ErrorReporting` |
| `RecoverableFile` | abstract: what is left of a file when a call below a buffer has failed |
| `BufferedInput` | composition: the BufReader over `InputStream`; refines `RecoverableFile` |
| `Values` | abstract: variables that hold values, and a view of one of them |
| `ValueHandles` | Header, PointData and CopcHierarchyVlr over handles; refines `Values` |
| `ValueHandlesProofs` | theorems about `ValueHandles` |
| `PointExchange` | points to Rust and back: fields, optional fields, extra bytes |
| `PointDataSlab` | sizes of the byte slab, with overflow |
| `Versions` | the tables of versions, formats and features |
| `VersionTables` | a caller choosing a version and a format |
| `HeaderValues` | headers, and what las-rs accepts as one |
| `LasBuilder` | abstract: the las-rs builder |
| `HeaderBuilder` | the C++ Builder over a Rust base; refines `LasBuilder` |
| `BoundsGrowth` | Bounds that grow by points |
| `VoxelKeys` | VoxelKey: child, children, parent, bounds |
| `CopcSession` | entries, read_entry, query, hierarchy pages |
| `CrsRecords` | the CRS records among the VLRs of a header |
| `GeoKeys` | get_geotiff_crs and the getters on its result |
| `HeaderSession` | one caller of `HeaderBuilder`, `VersionTables`, `CrsRecords` or `GeoKeys` |
| `HeaderProofs` | theorems about these four in `HeaderSession` |
| `PointSession` | one caller of `PointExchange`, `PointDataSlab`, `BoundsGrowth`, `VoxelKeys` or `CopcSession` |
| `PointSessionProofs` | theorems about these five in `PointSession` |

The `MC` modules (`MCOutputStream`, `MCOwnership`, `MCErrorReporting`,
`MCValueHandles`) give constants the values, and TLC the symmetries, that a cfg
cannot write. A definition `X_Variant` just before `X` is `X` with a plausible mistake.
No specification uses it; it is what `X` is replaced by to show that a property
notices (`mutants` in PROJECT.json).

### State and actions

**InputStream.** `getPos` is the get position of `buffer_`, absolute; `past_end`
is `past_end_`; `Start` is `start_`. One action per path through `read` and
`seek` (stream.hpp) including the refusal of unrepresentable offsets in Rust
(`seek_with`). The two queries of `seek` leave the buffer at its end, so each
path that does not end in `pubseekpos` leaves it there. A throwing `sgetn` keeps
what it consumed.

**OutputCalls / OutputStream / WriterSession.** The device is a record of
content, put position and room. `WriteCall`, `SeekCall` and `FlushCall` give all
outcomes of a callback, so that `WriterSession` can run them inside the steps of
the BufWriter: `AndThen` continues where the outcome so far is a success, which
is Rust's `?`. The writer's `New`, `WritePoint`, `Close` and `Free` are the
functions of `rust/src/writer.rs` together with las-rs and the BufWriter below
them (both external); `RoomFreed` is the environment.

**Limits.** One action per step of `check_declared_sizes`; a field of the file
gets its value when it is first read and keeps it, so that all files are covered
without enumerating their bytes, and what the check did not look at is arbitrary
when las-rs (external) comes to it.

**PointReader.** One action per turn of the loop of `limits::read_points`, so
errors fall between batches. `index` and `cursor` are las-rs's count and the
place of its stream, which an error may take apart; `known` records that none
did. u64 subtraction wraps at `MaxU64 + 1`.

**Ownership.** A move assignment or a destruction is one step per member, in the
order the code gives: `handle_` before `input_`/`output_` in `operator=`, the
reverse of the declarations in the destructor. `Reader` and `CopcReader` have
the same members and functions and share the variables `Readers`.

**ErrorReporting.** A thread has a stack of calls: C++ calls Rust, Rust calls
back into a stream, and its C++ code or a destructor calls Rust again. `Fails`
is the failing arms of `guard`, `Throw` is `check` with `throw_last_error`, and
`Catch` the end of the unwinding. A call of kind "free" is that of a `Deleter`,
whose status no one reads although it overwrites LAST_ERROR.

**BufferedInput.** It extends `InputStream`, whose actions are conjuncts of the
ones here, and adds the buffer: a read is
`FromBuffer`, `Bypass` or `Fill`; a relative seek counts from the unread byte, in
two steps when the adjusted offset is no i64. `from` and `rem` are the unread
part of the buffer. `lost` is a history variable: a call has failed since the
last absolute seek.

**ValueHandles.** A variable is its two members, the handle it owns and `ptr_`.
One action per special member function; an assignment clones, then frees what
was there. `view` is the address a span shows and dies when that memory is
written or freed, so that `ImplementsValues` says when a span must still be good.

**PointExchange.** `HandOver` is the C++ loop that fills the two buffers,
`NextPoint` a turn of `points_from_ffi`, `AllTaken` its end; `PointsBack` and
`ReadColumn` are the ways back. Points have a valid or an invalid scan direction and
classification. `Encode` is the rest of `lasrs_point_data_build_from_points`: las-rs
(external) stores `x`, which stands for a coordinate, as the nearest multiple of the
transform's scale, and refuses the whole vector, through the `?` of
`point_data.rs:62`, when one point's does not fit. `stored` is what the records
decode to, so what is read back is what was stored and not what was given. Points
that do not match the format are not followed any further ("left").

**PointDataSlab.** `ResizeFor` follows `resize_for` on both sides: the checked
product, the limit of `isize::MAX`, the span that C++ makes of the answer.

**Versions, HeaderBuilder.** `Versions` has the tables of `types.hpp`; las-rs's
acceptance of a header (`HeaderValues`) uses them too, since the two are meant to
be one table. A builder is its C++ fields and `base_`; `to_c`, `Overlay` and
`Assigned` are the crossings. Three fields stand for all: one that is optional
and two that have to agree.

**CopcSession.** A file is a function from keys to places and declared counts;
`held` is how many points really are at each place, which may be fewer, for a file
that is cut short or lies. The caller holds one entry, from any reader, edited at
will. `read_entry` compares it with the reader's own hierarchy and hands it to las-rs
(`LasReadEntry`, external), which makes room for what the entry declares and then
reads or fails: it always fails when the points are not there, and may fail, as for a
broken stream, when they are. `room` records how much was asked for, read or not.
`query` (`LasQueried`, external) fails in the same ways and for a resolution that is not
positive. Selections cross as tagged structs (`LodToC`, `LodFromC`, `BoundsToC`,
`BoundsFromC`). `Looked` is the caller, done with an answer.

**BoundsGrowth, VoxelKeys.** Doubles are ordered numbers with two infinities and
NaN, for which comparisons are false. A key's members have `Bits` bits and wrap;
`path` is a history variable, the way from the root.

**CrsRecords, GeoKeys.** The C++ predicates and those of las-rs are separate
definitions over the same records. `set_wkt_crs` and `remove_crs_vlrs` are external:
`header.hpp` only hands them on, and they are here for the records they leave, which
are to be classified alike too. No property is about what they do.
`get_geotiff_crs` is one step per entry copied, any of which may run out of memory.

**HeaderSession, PointSession.** Small sequential parts that share no state, each
an INSTANCE. Interleaving them would reach no state of a part that it does not
reach alone, so a behaviour chooses a part at the start and stays with it: the
states are the sum and not the product of those of the parts.

## 3. The runs

| run | cfg | shows |
|---|---|---|
| input_stream | BufferedInput | the input adapter refines the seekable file, its two records of the position agree; the buffer on top is a file: exact until a call fails and again from the next absolute seek, and positions never wrap |
| output_stream | OutputStream | the output adapter refines the writable file, the prefix is untouched |
| writer_session | WriterSession | without a failure, the whole file is in the stream once the writer is closed or destroyed; closed is final |
| limits | Limits | allocations fit the data, the stream is put back, only defective files are refused, opening ends |
| point_reader | PointReader | batches refine atomic reads, hold one batch beyond the data, and end |
| ownership | Ownership | handles never outlive adapters, exact ownership, headers and streams stay with their handle |
| error_reporting | ErrorReporting | a caught exception carries the message of its own call |
| value_handles | ValueHandles | headers, point data and hierarchy VLRs behave as values, one owner each, spans live as long as what they show |
| header_session | HeaderSession | a Builder is the las-rs builder and its minimum version suffices; the version tables agree; C++ and las-rs agree on CRS records; GeoTIFF keys arrive and their handle is freed |
| point_session | PointSession | points are refused or come back, unchanged but for coordinates that no record can hold, and every call returns; resizing gives exactly n records; bounds are smallest boxes, NaN or not; octree cells follow the tree; COPC reads that return have the reader's own chunk and none makes room for what another file or the caller declares, queries that return visited what was selected, pages come whole |
| fill_points_memory | PointReaderFill | expected violation, see findings |
| header_view_lifetime | OwnershipViews | expected violation, see findings |

**Bounds.** Where section 4 has a theorem about a property, it holds without them.

- BufferedInput: 4 bytes from position 2 on, offsets to 9, reads to 3 bytes, a
  buffer of 2. So `Start # 0`, there are positions past the end, a seek can
  overflow, a read can be short, empty or full, come from the buffer, fill it or
  pass it by, and adjusted offsets leave the range.
- OutputStream: sizes 1 and 2, room for 3 or 4 bytes, offsets to 5, so that gaps
  fit, fit partly or do not fit. WriterSession: a BufWriter of 2 bytes and up to
  3 points, so it flushes in the middle of the points, at a seek and on drop.
- Limits: i64 up to 7, u32 up to 2. The sizes of the format, 60 (EVLR header),
  20 (offset of the record length), 8 (u64), 4 (u32) and 20 (smallest LAZ
  chunk), are scaled to 3, 1, 2, 1 and 2, which keeps their order. Two EVLRs and
  a chunk table fit in the largest file; negative and wrapping offsets occur.
  EVLRs need not be disjoint from the chunk table: overlapping fields are given
  independent values, which only adds files.
- PointReader: up to 4 points with batches of 2: full, partial and empty batches.
- Ownership: two variables of each kind, so that moves, swaps through a third
  handle and self-assignment occur; a spare heap object of each kind, because an
  assignment frees the old one only after the new one exists.
- ErrorReporting: two threads with calls three deep, so that a destructor fails
  while an exception of a call inside a callback unwinds.
- ValueHandles: three variables and a handle more, for the clone of an assignment.
- PointExchange: vectors of up to two points, each with up to two extra bytes;
  0 is among the numbers, being what an absent field crosses as. Coordinates 0, 1 and
  3 at a scale of 2 with raw numbers 0 and 1: one is stored as it is, one is rounded
  and one does not fit.
- PointDataSlab: a usize of 6 bits and every count it has; most products wrap.
- VersionTables: all 32 sets of flags, majors and minors one beyond those of LAS.
- HeaderBuilder: a builder and a copy, versions 1.0 and 1.4, a plain and an
  extended format, three dates (none, a day, an impossible one), a hidden count
  of 0 or 1: each pair of versions and formats that fits, or does not, occurs.
- BoundsGrowth: two axes, as axes do not meet; three points are a smallest, a
  largest and a NaN in any order.
- VoxelKeys: 3 bits and depth 2, the whole positive range; directions -1 and 8
  are out of the range of a child and only make no step: `child` throws for them.
- CopcSession: two readers whose files share keys but not places, so
  an entry of one, edited or not, can be almost one of the other; chunks that are
  there and chunks that are not; resolutions of 0 (refused), 1 and 2 levels; pages of
  two entries.
- CrsRecords: record ids at both ends of the GeoTIFF range and next to it, user
  ids in two spellings, two records in each list so that there are several systems.
- GeoKeys: three entries over two ids, so a key may come twice with another kind.

Deadlock is checked except where the system really stops: an opened or refused
file (`Limits`), a destroyed writer (`WriterSession`), points that were refused
(`PointSession`), and the views run.

**Fairness.** `Limits` assumes weak fairness of the steps of the check and of
las-rs: open is a sequential function of the calling thread and takes its next
step as long as it has one. A failing stream is not among them.
`PointReader!FairSpec` assumes it only of the turns of the loop inside
read_points; a caller need never call. `PointSession` assumes it of the steps of
one call that hands points over, which is sequential code too, and not of the
reads that a caller may or may not do afterwards. Nothing assumes that a stream
recovers, or that a failing call is tried again.

**Findings.**
- `fill_points_memory`: `limits.rs` says point reads go in batches so that memory
  follows the data; `lasrs_reader_fill_points` calls las-rs with all of `n` at
  once, and las-rs allocates the lesser of `n` and the declared points left.
- `header_view_lifetime`: `writer.hpp` promises the reference of `header()` until
  the next call of `header()` or the writer's destruction; moving the writer, or
  assigning to it, ends it earlier.

Three behaviours are modelled as the code has them and contradict no promise.
A failed seek of either adapter leaves the stream buffer at its end, not where
it was (`SeekableFile!Fail`, `WritableFile!SeekFails` say what a caller may
see). The output adapter fills a gap when it is sought and not when something is
written after it. When `sputn` stores a part of the buffer and the BufWriter
later tries again, the part is stored twice; the first failure was reported, so
`NoSilentLoss` does not promise anything by then.

## 4. The proofs

A theorem holds for every value of the constants that satisfies the named
assumptions of the component's module. Each has an inductive invariant `Inv`
with `Init => Inv` and `Inv /\ [Next]_vars => Inv'`, one lemma per action. Before
it was proved, TLC checked each on an instance, except for conjuncts that say only
that some function exists (the chain of cells in `OctreeOK`), which it cannot
enumerate. A theorem without a property in the table is described by its number
below it.

| theorem | property | of |
|---|---|---|
| `TypeCorrect`, `PastEndAlwaysConsistent`, `Refinement` | `TypeOK`, `PastEndConsistent`, `ImplementsFile` | `InputStream` |
| `PositionsNeverWrap`, `BufferedRefinement` | `PositionNeverWraps`, `ImplementsRecoverableFile` | `BufferedInput` |
| `AdapterUnderBuffer` | `BufferedSpec => Spec` | `BufferedInput` |
| `PrefixStaysUntouched`, `FileRefinement` | `PrefixUntouched`, `ImplementsFile` | `OutputStream` |
| `NothingLostSilently`, `ClosedStaysFinal` | `NoSilentLoss`, `ClosedIsFinal` | `WriterSession` |
| `AllocationsFit`, `StreamIsRestored`, `WalksAreBounded`, `RefusalsAreJustified` | `AllocationsFitData`, `StreamRestored`, `WalkBoundedByData`, `RejectsOnlyDefects` | `Limits` |
| `OpeningMakesProgress` | (1) | `Limits` |
| `BatchesHoldWhatIsThere`, `SourceRefinement` | `BatchesFollowData`, `ImplementsSource` | `PointReader` |
| `ReadsMakeProgress` | (2) | `PointReader` |
| `AdaptersOutliveHandles`, `OwnershipIsExclusive`, `HeadersBorrowOwnHandle`, `StreamsStayWithHandles` | `AdapterOutlivesHandle`, `OwnedExactlyOnce`, `HeaderBorrowsOwnHandle`, `StreamBelongsToHandle` | `Ownership` |
| `CaughtErrorsAreOwn`, `StatusesBelongToTop` | `CaughtErrorIsOwn`, `StatusBelongsToTop` | `ErrorReporting` |
| `EveryValueHasOneOwner`, `ValueRefinement` | `OneOwnerEach`, `ImplementsValues` | `ValueHandles` |
| `BoxesStaySmallest` | `SmallestBox` | `BoundsGrowth` |
| `ReadsStayInFile`, `QueriesVisitSelection`, `PagesAreWhole` | `ReadsOwnChunks`, `QueryVisitsSelected`, `ListsWholePage` | `CopcSession` |
| `ResizesAreExact` | `ResizesExactly` | `PointDataSlab` |
| `PointsKeepTheirBytes`, `PointsComeBack` | `BuffersInStep`, `ReadsBack` | `PointExchange` |
| `SplitNeverPanics`, `CallsTakeAllOrRefuse`, `CallsMakeProgress` | (3) | `PointExchange` |
| `CellsShareOutTheRoot` | `CellsFollowTree` | `VoxelKeys` |
| `VersionsAgree` | `TablesAgree` | `VersionTables` |
| `MinimumVersionSuffices`, `BuilderRefinement` | `MinimumSuffices`, `ImplementsLasBuilder` | `HeaderBuilder` |
| `CrsPredicatesAgree` | `ClassificationsAgree` | `CrsRecords` |
| `KeysComeThrough` | `GeoTiffFaithful` | `GeoKeys` |

(1) Every step of open is a later one than those before it or has one EVLR less to
walk, so open cannot go on for ever. (2) Every turn of read_points and read_all
returns or leaves less to read and holds more points. (3) `split_at` in
`points_from_ffi` stays inside the buffer; a call ends with all the points or with
a refusal for one of them that las-rs has no value or a record no room for; every
step of it leaves fewer points to go. (1), (2) and the last of (3) are the well-founded halves of `OpenEnds`, `ReadsEnd` and
`CallReturns`: what these add is that a step is taken, which is fairness.

### Arguments

**Input adapter.** `SeekTargetExact`: the two comparisons of `seek_target` accept
exactly the offsets whose ideal sum is a position, which is where overflow would
hide. `Inv` is `TypeOK /\ PastEndConsistent`; neither carries the proofs alone:
the refinement needs to know that with `past_end` set the position lies past the
data, so that an empty read is what a file would answer. Each path of `read` and
`seek` maps to `Read`, `Seek` or `Fail` of `SeekableFile`.

**The buffer on it.** `PositionNeverWraps` is not inductive: `BufferInv` adds
that an unread part ends where the adapter stands unless a call has failed, and
that nothing is unread in the middle of a seek in two steps. After a failure
only "never more than the adapter has behind it" is left, which is what
`stream_position` needs. `AdapterUnderBuffer` carries the adapter's theorems over.

**Output adapter.** `AdapterInv` adds to `PrefixUntouched` that the put position
lies from `start_` to the end of the content and all of it is addressable.
`SeekOutcomes` sorts what a seek can do; `Appended` says what a store does to
every byte, and the file's bytes follow (`DataPatched`, `DataPadded`).

**Writer.** Nothing is said of an open writer by `NoSilentLoss`, so the invariant
has to: while no call has failed, the stream up to the put position and the
BufWriter behind it hold the first header and the points, each once
(`OpenHolds`). A flush, a write and a seek of the BufWriter each keep that
(`WrittenFlushed` and its kin); closing replaces the header. `ClosedIsFinal` needs
`ClosedEmpty`: the drop of the BufWriter has nothing left to store.

**Limits.** The check walks the EVLRs, las-rs walks them again. The invariant
keeps a witness of the first walk, a `Chain` of positions each of which follows
from a length that was read, so that the second walk is bound to it (`LasOK`),
and the same for the chunk table and its count (`TableFound`, `ChunksCounted`). A
value that was read stays (`Kept`), so chains stay. The chain is a quantified
function, not a recursive definition, which is what makes it provable.

**PointReader.** `BatchOK`: the bytes gathered are the points just before the
stream's, as many as las-rs counted since the call began and as are no longer to
be read. So the last turn is the abstract read and the others stutter, and no
subtraction of las-rs wraps.

**Ownership.** Between two member steps of a move assignment the four properties
hold for different reasons, so the invariant says where each member is:
`RunningOK` (which members are still to be moved or destroyed), `Paired` (a handle
is with its adapter, or its adapter is still in the source) and `Borrows` (the
same of the header). `Exclusive`, `OwnsLive` and `NoLeak` give exact ownership.

**ErrorReporting.** What was caught says nothing about what is under way, so
`CaughtErrorIsOwn` is strengthened by `StatusBelongsToTop`: only the innermost
call can be between guard and check, where LAST_ERROR is its message, and a frame
that unwinds holds its copy. Every action but `Call` is an instance of `SetTopInv`
or `PopInv`.

**ValueHandles.** `OneOwnerEach` is strengthened to both directions: what a
variable reads through is in use (`Backed`), what is in use is read through
(`Reached`), by one variable (`Unshared`). Every operation places a value at a
fresh address, takes one over, writes one or frees one (`PlacedInv`, `TakenInv`,
`MutateInv`, `DestroyInv`), and these four are the abstract operations.

**Refusals.** What a file's EVLRs are is `EvlrEnds`, a recursive function of their
number: `EvlrEndsAre` gives its equation. The witness of the check's walk is a
prefix of it (`ChainEnds`), and a walk that has left the data does not come back
(`PastEndStays`), so what `CheckEvlr` refuses is a defect of the file and not of
the walk.

**Boxes, slab, COPC.** `SmallestBox` is inductive with the types of the box
(`GrowthTyped`). `ReadsOwnChunks` rests on `KnownMeansOwn`, that the comparison in
`read_entry` lets exactly the entries of the reader's own file through, so that what
las-rs makes room for is what that file declares; the queries rest on the crossings
being inverse (`LodCrosses` and its like); `ResizesExactly` on the bounds of the checked product.

**Points to Rust and back.** `ExchangeOK` says of a call under way that the points
taken so far are those handed over, and the rest of the extra bytes those of the
points to come, joined. Joining is a recursion over the points: `FlattenIs` binds it
to a function that gives what is joined after each point, `FlattenFirst` takes a point
off the front and `FlattenSlots` finds each point's bytes in the whole. With `PointCrosses` (one point
survives both crossings in any format it matches) that is `BuffersInStep`. `DecodedIs`
says what storing does to one point, and `RepresentableSurvives` that a multiple of the
scale that fits is stored as itself, by the quotient `QuotientIs`; with them that is
`ReadsBack`, and the split of the next point fits what is left (`NextSplitFits`).

**Octree.** `CellsFollowTree` speaks of two keys that may have come about by any
steps. `OctreeOK` ties a key to its path by a chain of coordinates, one for each
level, each twice the one before it or one more (`LeadsTo`). Chains are unique
(`SameCellSameWay`), the cells along them nested (`Nested`), and cells of one level
are alike or apart (`OverlapInGrid`); `ShiftIsExact` shows that no member wraps at
the depths there is room for.

**HeaderSession.** `TablesAgree` is a case for each version. The Builder's lazy base
is `Crossing`: what `to_c` and `Overlay` make of fields and base is the las-rs builder
that `LasBuilder` has (`Becoming` for every operation), so each is the abstract
operation. `MinimumSuffices` follows: with the answered version all other fields
are as las-rs needs them.

**CRS records and keys.** The lists hold records of the type throughout
(`RecordsStep`); C++ and las-rs classify one record alike
(`SameClassification`), hence every list. `KeysInv` says the C++ copy is the
entries so far, each crossed (`EntryCrosses`), and the handle is live just until
the end of the copy, however it ends.

**Induction.** The library's induction theorems take an operator and cannot be
instantiated by these provers. Where a proof needs one it is over a *set*: the
numbers for which the claim fails have a least element (`WFMin`, lemma
`Induction`), or there is a function that bears witness to each step.

### Assumptions

`StreamAssumption`, `StartAssumption`, `OutputAssumption`, `MaxOffsetAssumption`:
sizes are naturals, streams end at a `std::streamoff`, which is what the
constructors' `pubseekoff` answers. `CapacityAssumption`, `WriterAssumption`: buffers
are not empty. `WritesAssumption`: what is written are sequences of bytes.
`LimitsAssumption`: the length field lies within an EVLR header.
`PointReaderAssumption`: a batch has a point at least. `OwnershipAssumption`:
adapters, handles and copied headers are different objects, and null is none of
them. `ErrorAssumption`: the empty message is not among `Messages`.
`HandleAssumption`: null and the marks for "free" and "absent" are no addresses or
contents. `PointAssumption`: a record length fits in an isize,
numbers are naturals with 0 among them, NaN is no number, bounds are naturals,
coordinates and raw numbers are counted from 0 and a scale is positive.
`Doubling` is arithmetic, `2^(n+1) = 2 * 2^n` for the exponents in use, stated because
the provers know no laws of exponents. `HeaderAssumption`: bounds are naturals, the
user and record id of a WKT system are among those of records, and an absent value
is no version or day. `NoneAssumption`: nor is it a builder or a struct. TLC
evaluates all of them.

### Only model-checked

- `OpenEnds`, `ReadsEnd`, `CallReturns`: liveness under fairness is out of this
  prover's reach. Each is a well-founded descent, which is proved
  (`OpeningMakesProgress`, `ReadsMakeProgress`, `CallsMakeProgress`), and the fact
  that a step of the descent is enabled and taken, which only TLC checks.
- The two runs that expect a violation: a finding is a behaviour, which TLC shows.

## 5. Not modelled

las-rs, laz-rs, `std::streambuf`, BufReader and BufWriter are external: modelled
from how the code uses them. What is assumed of las-rs beyond single calls:

- a query's range of levels excludes the last, and a resolution that is not positive
  is refused (`tests/test_roundtrip.cpp:200`); reads and queries fail when a chunk has
  fewer points than declared, and may fail at any time;
- points are refused for a bad direction or class; a coordinate is stored as the nearest
  raw number and refused if there is none (`tests/test_types.cpp:58-64`);
- a header is accepted when its version supports its format. las-rs also looks at
  features such as a file source id (`tests/test_types.cpp:117-122`), which
  `HeaderValues!Accepted` leaves out: `MinimumSuffices` is about versions and formats;
- `set_wkt_crs` replaces the CRS records there are and refuses headers below 1.4. Only
  the records that `CrsRecords` can reach depend on it, and no property is about it.

Left out, with the reason:

- the LAZ codec and the contents of VLRs other than GeoTIFF keys: las-rs and laz-rs;
- `Bounds::adapt`, `Bounds::intersect`, `Format(n)`, `to_u8` and the offset of a
  `Transform`: arithmetic on doubles, or a lookup of las-rs behind one call. Of
  `Transform` the model keeps that it rounds and refuses;
- what becomes of points that do not match the format they are built in;
- allocations that fail: a `resize_for` that is small enough to be tried aborts the
  process when memory is short, and so does the room for a COPC entry whose own file
  declares too much. SECURITY.md:23-26 and docs/ROADMAP.md:104-107 name the latter as
  a known gap; `ReadsOwnChunks` says that it is the only one, as the caller's own
  count never gets that far;
- rounding in `VoxelKey::bounds`: TLC has no doubles, cells are exact here;
- `Header::write_to`: a seekless run of the writer's BufWriter, whose failures
  `WriterSession` covers;
- `copc_info_vlr` and the plain getters of Header: one copy of a struct each;
- printing and text formatting, conversions of paths and strings: no state;
- the generated C header, the build files, tests, examples and benchmarks.

## 6. Plan

1. *(done)* the stream adapters and their refinement; the writer over them.
2. *(done)* limits, batched reads, ownership.
3. *(done)* error reporting and its proof.
4. *(done)* `BufferedInput`: the BufReader between las-rs and the input adapter.
5. *(done)* `CopcSession` and `VoxelKeys`.
6. *(done)* `PointDataSlab`, `PointExchange`, `ValueHandles`.
7. *(done)* `Versions`, `HeaderBuilder`, `BoundsGrowth`, `CrsRecords`, `GeoKeys`.
8. *(done)* proofs of the adapters and the buffer, the writer, limits, batched
   reads, ownership, errors, value handles, and the parts of `PointSession`.
9. *(done)* proofs of `HeaderSession`, of the points' way to Rust and back, of the
   octree, of refusals, and the well-founded half of each liveness property.

What is left is beyond the provers used here: that a step is enabled, and with it
liveness for every value of the constants.
