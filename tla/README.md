# A TLA+ model of zfp

zfp compresses floating-point and integer arrays block by block: 4^d values go
into a block of at most `maxbits` bits. This directory holds TLA+ modules for
the library, its compressed arrays, its parallel back ends and its command-line
tool, TLC configurations that check them on small instances, and TLAPS proofs
for every value of the constants.

Paths below are relative to the repository root.

## 1. Inventory

| Part | State | Operations | Hard part |
|---|---|---|---|
| Bit stream (`include/zfp/bitstream.inl`) | word buffer, bit count, word pointer, memory | read and write 0 to 64 bits, skip, pad, align, flush, seek, copy, clone | shifts by the width of a type; buffered bits that are not in memory yet |
| Block coder (`src/template/encode*.c`, `decode*.c`, `rev*.c`) | one block, a bit budget | encode, decode | encoder and decoder must count bits alike when the budget ends; reversibility |
| Field loops (`src/template/compress.c`, `encode1.c` ... `decode4.c`) | a field, a stream | gather, pad, transform, order, and back | partial blocks, strides, block numbers shared by all engines |
| Streams and fields (`src/zfp.c`, `include/zfp.h`) | compression parameters, execution policy, field extents | set and encode modes, metadata, headers, compress, decompress | round trips at the limits of bit fields; ownership of policy parameters |
| OpenMP (`src/share/parallel.c`, `src/share/omp.c`, `src/template/ompcompress.c`) | a bit stream per chunk of blocks | allocate, encode chunks in parallel, concatenate | threads write one buffer; allocation fails half-way |
| CUDA and Metal back ends (`src/cuda_zfp`, `src/metal_zfp`) | device copies of field and stream | encode and decode fixed-rate blocks, fall back to the host | blocks that share a word are written by different threads |
| Compressed arrays (`include/zfp/array*.hpp`) and their cache (`internal/array/cache*.hpp`) | tags and lines, compressed store | get, set, whole-array get and set, flush, clear, resize, change of rate | write-back: stale and misplaced lines |
| Block store (`internal/array/store*.hpp`) and codec (`codec/zfpcodec.hpp`) | memory, index, reference count, thread-safety flag | encode and decode a block, reference, unreference, reconfigure, copy | the flag is read without synchronisation; sizes that must suffice |
| Block index (`include/zfp/index.hpp`) | offset or size of each block | append a size, look up, clear, resize | packed offsets of limited width, exceptions in the middle |
| Read-only arrays (`constarray*.hpp`) | as arrays, with an index | set, get, resize, reconfigure, copy | stale index, cache and memory |
| Views (`internal/array/view*.hpp`) | offset and extent; a private cache | partition, access through a private cache, translate indices | pieces rounded to blocks; threads with views of one array |
| Iterators and pointers (`internal/array/iterator*.hpp`, `pointer*.hpp`), and those of cfp (`cfp/template`) | a position | increment, decrement, advance, compare | carries through blocks that are cut off on either side |
| Command-line tool (`utils/zfp.c`) | options, buffers, files | parse, read, compress, write, decompress | sizes, fallbacks and headers in combination |
| cfp (the rest), Fortran and Python bindings, array headers and factories | none of their own | forward calls | none |

How they meet: an array's access goes to its cache, which on a miss has the
store encode the evicted block and decode the new one; the store uses the
codec, which positions a bit stream and runs the block coder. Private views put
a cache of their own in front of the array's store. `zfp_compress` takes a
field and a bit stream and hands both to the serial loops, to OpenMP, or to a
GPU back end; each of them gathers blocks and runs the block coder. The tool
calls the same functions and moves the stream through files.

What makes each part correct: a bit stream must act as a sequence of bits
whatever the word size; a decoder must read what its encoder wrote; a cache must
not be noticeable except for the losses of compression; threads must not touch
each other's bits, and parallel compression must give the stream that serial
compression gives; a header must bring back a stream and a field that make the
coder do the same; and a container must know where its blocks are through every
change of shape and parameters.

`PROJECT.json` lists the hazards, the places where this can go wrong in ways
that a test would hardly reach, with the properties that look for them.

## 2. Modules

`MCx.tla` defines the small instances of module `x`, and `x_proofs.tla`
contains the theorems about `x`, after the lemmas about numbers that they need.
An operator whose name extends that of the one below it, with the comment
"Mutant", is a plausible mistake that the properties are known to find; no
specification uses it.

### LossyArray and BlockCache: an array and its write-back cache

`LossyArray` is what an array promises: reads return what was last written,
except that at any time some blocks may be *saved*, after which they read as
what the codec makes of them. There is no cache.

`BlockCache` is `array1` with `Cache`, `BlockCache1` and `BlockStore1`.

| Model | Code |
|---|---|
| `tag`, `line`, `mask` | `Cache::tag`, `line`, `mask`; a tag is a record of `index` (block + 1) and `dirty`, and an index is taken modulo `TagLimit` as the 32-bit word does |
| `store[b]` | what compressed block `b` decodes to: the codec is the constant operator `Codec` |
| `Get`, `Set` | `BlockCache1::get` and `set`: lookup, write-back of the victim, fetch, mark |
| `GetArray`, `PutArray` | `array1::get` and `set` of whole arrays, which go to the store for blocks that are not cached |
| `FlushCache`, `ClearCache`, `SetCacheSize`, `SetRate`, `Resize` | the methods of the same names |

Freshly allocated memory is `Undef`, so that a read of memory that nobody wrote
is visible. A resize without clearing leaves the store with unspecified
contents (`Noise`). The other dimensionalities use the same cache with other
index arithmetic (`StoreShape`).

### OmpCompress: one call of zfp_compress under OpenMP

State: the chunks' streams (`opened`, `heap`), how far each chunk is (`run`,
`next`), which block each bit of the destination belongs to (`out`), and the
control of the calling thread (`pc`, and `chunk`, the counter of its loops).
Actions follow `compress_init_par`: the array of streams (`InitPar`,
`InitParFails`), one buffer and stream after another (`OpenChunk`), and, when
there is no memory for a buffer (`BufferFails`), the loop that frees those
before it (`FreeChunk`, `GiveUp`). Then come the parallel loop of
`compress_strided_omp_1` (`StartChunk`, `EncodeBlock`, `Join`),
`compress_finish_par` (`FinishChunk`, `FinishPar`) and the end of
`zfp_compress` (`Flush`). Any block may be encoded to any number of bits that
the mode allows. Any allocation may fail. A `stream_open` that fails is not
tested in the code: the call crashes when the null stream is used, by a thread
or by the clean-up, and so it does in the model. The array that holds the
streams is allocated and freed in one place each and is not counted.

### ViewPartition: private_view::partition

A view is an offset and an extent per dimension. `Partition` replaces a view by
its pieces, as threads do; pieces may be partitioned again. The choice of the
dimension and the rounding follow `view1.hpp` to `view4.hpp`, with extents
modulo `SizeRange` as `size_t` wraps.

### PrivateViews: threads with private views of one array

There is no lock around compression. The store counts views, and while there
are two or more it sets the codec's `thread_safety`, which makes each call
clone the bit stream. The count and the flag change in a critical section, but
the flag is *read* outside it: `visible[v]` is the set of values that `v`'s
thread may see, from the one it wrote itself to the latest. A call of the codec
is several steps (`BeginDecode` or `BeginEncode`, `Seek`, `CodeWord` once per
word, `Return`), on the shared stream or on a clone, and threads interleave
between them. As the documentation asks, writing views have disjoint blocks
(`ViewPartition` is about that) and do not coexist with reading ones.

### BitTape and BitStream: bits and words

`BitTape` is a tape of bits with a position. `BitStream` is `bitstream.inl`
with its arithmetic: shifts and masks on words of `wsize` bits and values of
`ValueBits` bits. A shift that C leaves undefined sets `undefined`. The rules
of use at the head of `bitstream.inl` are the guards `MayWrite`, `MayRead` and
`MayReposition`. `wsize` is chosen in the initial state from `Widths` and never
changes, so that one run covers several builds. The operators are recursive, as
the loops are, so this module is for TLC only.

### ZfpApi and ZfpStream: the library's own structs

`ZfpApi` translates the functions of `zfp.c` that compute with `zfp_field` and
`zfp_stream`: type sizes, extents, strides and spans, metadata, the four
compression parameters with the setters of each mode, the short and long code
words, the size of a buffer, and the tables of compressors and decompressors. A
function that changes a struct is an operator from structs to structs. The
numbers are those of the code (16658 bits, 2048 rates, exponents down to
-1074), because the limits of the digits are what is interesting; extents have
few bits (`DimBits`, `ReadBits`), and so have the unsigned integers in which
metadata are computed (`UintBits`). `zfp_field_metadata` fails for extents that
are too large, and for nothing else: of a field without extents or without a
type, dimensionality or type less one wraps around, and the word that results
(`PackedWord`) is taken apart as the reader does it (`Unpacked`).

`ZfpStream` is a program that uses one stream and one field: `UseReversible`,
`UseRate`, `UsePrecision`, `UseAccuracy`, `UseParams`, `ChooseField`,
`UseExecution`, `UseOmp`, `WriteHeader`, `ReadHeader`, `ReadNoHeader`,
`Rewind`, `Compress` and `Decompress`, in any order that the API allows. The
bit stream is a sequence of items with a cursor; a stored header may come back
damaged (`Damage`). `exec.params` points into `heap`, so that a leak and a
dangling pointer are visible. The build has no GPU back end, CUDA, or Metal,
whose routine changes the policy to serial, calls `zfp_compress` and changes it
back (`AfterRoutine`).

`Effective(p)` is what the coder can tell of parameters `p`: two parameters
with the same effect encode and decode alike. It is the measure by which a
header is faithful.

### ZfpTool: the command-line tool

Each step of `main()` is an action: options (`Parse`, `Check`), reading the
compressed file in increasingly large chunks (`ReadChunk`), setting up field,
parameters and policy (`Setup`), `Compress`, `StoreFile`, the header or the
options (`DecodeHeader`, `DecodeNoHeader`), decompression with its fallback
(`FallBack`, `Decompress`), and `Output`. File operations and allocations may
fail, and a failed write may leave part of a file. Invocations follow each other
on the same files. `ZfpTool` calls the operators of `ZfpApi`.

### Lift and BlockCoder: one block

`Lift` has the lifted transforms of four integers, lossy and reversible, with
integers of `IntPrec` bits that wrap around. `BlockCoder` has the rest of the
coder of one-dimensional blocks: block floating point and the test of
reversible blocks, negabinary, the precision that a tolerance leaves, and the
embedded coders of bit planes in their four variants (blocks of at most 64
coefficients or more, with a budget or without) and the decoders. Blocks are
appended to a stream of bits without marks between them, and then read back.

### Transform, Gather and FieldCoder: a whole field

`Transform` has the separable transforms of blocks in one to four dimensions
and the tables that order coefficients, those of the host and those of the CUDA
kernels. `Gather` has the loops that gather and scatter full and partial
blocks, with the padding. `FieldCoder` composes them: the serial loops
(`CompressSerial`), OpenMP threads (`CompressOmp`) and CUDA threads
(`CompressCuda`), which find the origin of a block from its number in ways of
their own, and the two decompressors. Elements are named by their pointers, so
that a wrong pointer anywhere is visible. Coefficients are not encoded here.

### CudaStream: concurrent block writers

One thread per block writes the stream of a fixed-rate field. CUDA threads add
pieces of code to words that were cleared, one `atomicAdd` per step
(`WriteBits`, `WriteRest`). Threads of the Metal back end set bits of half
words atomically (`MetalOr`), or collect a word (`MetalCollect`) and merge it
with a load and a store (`MetalLoad`, `MetalStore`), according to the rate. The
host sizes and clears the memory, computes the grid (`calculate_grid_size`),
copies words back and positions the stream. The kernels' buffer is not the same
in both back ends (`Buffer`): CUDA copies the stream to an allocation of
`zfp_stream_maximum_size`, with room for a header behind the blocks
(`Allocated`), and Metal wraps the words of the blocks where they are
(`Wrapped`), for encoding and for decoding. The readers of both prefetch, and
what they load from outside their buffer is undefined; every word that a kernel
touches is recorded.

A job (`Job`) says which back end compresses what at which rate, and gives the
code of each block as the calls that write it, each with its place in the block;
`InSequence` and `Begins` are what the encoder guarantees about them. The state
of a thread is a record: the next call, the bits written, whether it is in the
middle of the call, and what it has collected or loaded.

### BlockIndex, StoreShape and ConstArray: read-only arrays

`BlockIndex` has the four index classes with the widths of their digits as
constants, and their exceptions, which leave half-done changes. `StoreShape`
has the division of arrays of one to four dimensions into blocks: shapes packed
in two bits per dimension, block numbers, and the loops that move elements
between a block and a flat array. `ConstArray` composes them with the store:
`SetConfig`, `Resize`, `Set` (which encodes all blocks and may throw half-way),
`Read` through the cache, `DropCache` and `Copy`. The memory is a function from
bits to what they hold, so that a block that overlaps another, or is decoded
from where it was not encoded, is visible.

### ViewIterator: cursors

Iterators and pointers of arrays and views, and those of cfp, in one to four
dimensions. A program moves a cursor by single steps and by distances; `count`
is where its moves should have taken it. The operators that translate indices
between nested, flat and plain views are here, too.

## 3. Runs

| Run | What it shows |
|---|---|
| `cache_direct` | The direct-mapped cache: every line is where it will be looked for and belongs to the array as it is now (`Placement`); a modified line is dirty (`ModifiedIsDirty`); write-backs go to blocks of the array (`NoStrayEncode`); and the array implements `LossyArray`. |
| `omp_compress` | Chunks partition the blocks; buffers are large enough; the result is that of serial compression; what was allocated is freed and nothing else is, whichever allocation fails; the call ends. |
| `view_partition` | Pieces of an aligned view make it up exactly and share no block, in one to four dimensions. |
| `private_views` | Two threads never use the array's bit stream together, blocks that are not being encoded are intact, and private caches hold what was last stored. |
| `bitstream` | Within the rules of use a bit stream is a tape, and every shift is defined. |
| `zfp_stream` | A header gives back parameters and a field with which the coder does the same (`HeaderFaithful`; of a field that was not set, or has extents that the reader cuts off, only the parameters); parameters stay usable; a refused header changes none; execution parameters are neither leaked nor used after they are freed; and only the program changes the policy. |
| `zfp_tool` | What an invocation writes out is what was compressed, with the parameters and the field it was compressed with (`OutputFaithful`); the buffer holds header and blocks; every invocation ends. |
| `block_coder` | Encoder and decoder stay in step within the budget, up to a reversible block of zeros that the encoder leaves unpadded; reversible mode gives back the bits; lossy mode gives back the leading bit planes; the four variants write the same bits. |
| `field_coder` | Blocks hold the elements that they should, all of them come back to their places whichever engine compresses and decompresses, and kernels access only what was copied to the device. |
| `cuda_stream` | However threads interleave, the stream is the serial one and is positioned after it, threads read back what was written, and kernels stay within their buffer, but for one word that Metal readers load behind a buffer that is full (`Prefetched`). |
| `const_array` | Every element reads as it was last set, from cache or memory, after any sequence of operations and exceptions; the memory suffices; elements are where the shapes of blocks say. |
| `view_iterator` | Cursors visit elements in block order or row order; differences and comparisons count the steps; flat and nested views name the same element. |

### Bounds

- Cache: blocks of 2 elements, arrays of 0, 1 and 5 elements (none, one partial
  block, two blocks and a partial one), two values, one to two lines: every
  block can be evicted by another, a partial block can follow a full one in a
  line, and an array can shrink and grow around cached lines. `Codec` loses
  information at rate 1 and depends on the whole block. `VIEW` leaves out
  elements of lines that are dead (`LinesDefined`, which is proved).
- OpenMP: words of 2 bits, up to 5 blocks of 1 or 2 bits, up to 3 threads and
  chunk sizes 0 to 3: more chunks than threads, and blocks that share words or
  do not, occur, and any of up to five buffers may be the one that there is no
  memory for. `Starts` has no aligned offset other than 0 (section 5).
- Views: blocks of 2, extents up to 7 (in four dimensions 2 and 3), up to 4
  pieces and 5 views, so that pieces are partitioned again and some are empty.
- Private views: 3 threads, 2 blocks of 2 words, 2 values. With two threads the
  flag's old value cannot meet a third view's construction. `SYMMETRY` permutes
  views, which no definition tells apart; no liveness is checked there.
- Bit stream: 6 bits in words of 2 or 3 bits and values of 3, from memory of
  any contents: calls that need one word and two, at every fill, and
  words as wide as values, as the default build has.
- API: parameters at the limits of both code words, an extent that only the
  writer accepts and one that neither does, strided fields, the field that
  `zfp_field_alloc` returns and nobody sets, a damaged word, streams of two items
  (`MaxItems`): a header and blocks, blocks overwritten by a header, and a header
  read twice occur. Unsigned integers of 8 bits (`UintBits`) and words with 12
  bits for the extents leave room for what a wrapped difference carries, as those
  of 32 and 48 bits do.
- Tool: two invocations (`MaxRuns`), since a second one sees all that a first
  one can leave; options in every combination of paths, arrays, modes, policies
  and headers that `MCCommands` lists, consistent or not; a first buffer of 64
  bits, so that files are shorter than, as long as and longer than a buffer.
- Block coder: 4-bit integers and floats with 2-bit exponents; budgets that end
  in every part of a block, minimum sizes that blocks reach and that they are
  padded to, in all modes; two blocks, so that a wrong length is seen in the
  second.
- Fields: lines of 1 to 10 elements, and shapes with partial blocks along every
  combination of axes in two to four dimensions; default, reversed, transposed
  and spaced layouts; values of 28 bits, enough for pointers to pass the lossy
  transform with their place recognisable.
- GPU streams: words of 4 bits and blocks of 2 to 8, so that blocks share
  words, end with them and span three, and streams end within a word or with it;
  two or three blocks with all interleavings,
  up to six in a launch with a grid of two dimensions.
- Read-only arrays: up to nine blocks, so that chunks of four and of eight are
  filled and begun; digits of 2, 3 and 5 bits, which blocks of up to 7 bits
  overflow.
- Cursors: blocks of 2; in one dimension all views of up to 7 elements, in two
  of up to 5, in three of up to 3; in four, views that are cut off on both
  sides, on the right, and to one element.

### Fairness

`OmpCompress` assumes weak fairness of the calling thread's steps, its loops of
allocation and clean-up among them, and of the steps of each chunk. A thread of an OpenMP team that has a chunk runs until the
chunk is done, and the loop's schedule gives every chunk to a thread; nothing
else is assumed about the schedule. `ZfpTool` assumes that an invocation that
has begun goes on: it is one thread that waits for nobody. Nothing is assumed of
users: they need not start another one. The other modules state no fairness.
`CudaStream`, `FieldCoder` and `OmpCompress` are checked for deadlock: no
thread or host waits for a step that cannot come.

## 4. Proofs

TLAPS checks all proofs from the definitions of the modules above. A theorem
that needs a condition on the inputs has it as a hypothesis with a name
(`SafeUse`, `SafeStart`, `RootAligned`, `SafeInputs`, `SafeCommands`, `SafeJobs`). The
instances that TLC checks satisfy these conditions, and what they leave out is
in section 5.

Each module of proofs begins with what it needs about numbers, which TLAPS does
not have: quotients and remainders exist, are unique and grow with the
numerator. Two more have wider use. Induction over a set of numbers, by its
least element (`LeastElement`, `SetInduction`), since the provers do not
instantiate the library's induction theorems. Sums: `IsSumOf(f, s)` says that
`f[n]` is the sum of `s[0]` to `s[n - 1]`; such a function exists, sums grow by
at most the largest term, and every number below the total lies in the share of
exactly one term (`SumOwner`).

**BlockCache_proofs.** `CacheInvariant`: if block numbers fit in tags and a
two-way cache is not assigned whole arrays (`SafeUse`), then
`TypeOK /\ Placement /\ LinesDefined /\ ModifiedIsDirty /\ NoStrayEncode` is an
invariant, for all sizes, codecs and hashes. The parts need each other: a
write-back is in range because the line is placed, a line is placed because
sizes were checked, and a line is the decoded block because it was clean. Both
conditions of `SafeUse` are necessary (section 5). `WriteBacksInRange`,
`NoLostModification`, `LinesHoldBlocks` and `LinesInPlace` follow; the last one
covers the two-way cache, which no run does.

`CachedArrayImplementsArray` is the refinement: under `SafeUse` every step of
`BlockCache` is a step of `LossyArray` or leaves it unchanged. The abstract
array holds the line of a cached block and the stored block otherwise (`Seen`),
and `CacheInv` makes this a function: a block is in at most one slot, and a
clean line is what the store has. The two facts behind all actions are that
fetching a block changes nothing that can be seen, and that evicting one saves
it: the victim reads as the codec makes of it, and no other block changes. A
resize or a change of rate then needs that no line of the old array survives.
Assumptions: those on the constants in `BlockCache`: the codec maps a block
with its valid elements written to a block, looks at no other elements
(`CodecWidthAssumption`: partial blocks are padded from their own elements),
and the hash gives a slot.

**ViewPartition_proofs.** `PartitionInvariant`, for views that begin at block
boundaries, as documented (`RootAligned`): every piece begins at a block
boundary, lies within the view, and shares no block with another. The heart is
arithmetic: a cut is a multiple of the block size, cuts grow with the piece's
number, and a cut that is clipped is either the end of the view or the
beginning of the next piece. `PiecesShareNoBlock` follows.
`PiecesMakeUpTheView` also needs that cuts leave nothing between them: for each
element there is a last cut that is not after it, and its piece is the one
(`SomePiece`, `PieceContains`). All for 1 to 4 dimensions and any number of
pieces.

**PrivateViews_proofs.** `ViewInvariant`. The interesting part is
`AtMostOneUnsafe`: at most one existing view may still see the flag false.
It is inductive because the flag is cleared only when at most one view remains,
and a view that joins others has set the flag in its own constructor and cannot
see anything older. The rest ties a call to its place: a call on the shared
stream was begun by a view that saw the flag false (`SharedIsUnsafe`), a call
is at its block's next word (`CallInPlace`), and has coded exactly the words it
counts (`EncodeProgress`, `DecodeProgress`). `StreamNotShared`, `BlocksIntact`
and `CachesMatchStore` follow.

**OmpCompress_proofs.** For any number of blocks, threads and chunks, any
limits on the sizes of blocks (`CallAssumption`: they are numbers) and any
sizes within them. `ChunksCoverBlocks`: rounded quotients of growing numerators
grow, and by at least one when there are no more chunks than blocks.
`FreesItsOwn`, for streams that are at their beginning or within a word
(`SafeStart`): `HeapInv` says for each phase of the call which buffers are
allocated and which streams may be open, those before the loop's counter
(`Before`) while `compress_init_par` allocates or cleans up, those from it on
(`Remaining`) afterwards, and that the decision to copy that was made before
the loop is the one that `compress_finish_par` will make; the condition is what
makes them agree. `ChunksFitBuffers`: no chunk has more blocks than their number divided
by that of the chunks, rounded up, and what it has written so far adds up to at
most `maxbits` for each of them, which is what was allocated.

`ParallelIsSerial`: `StreamInv` says what the destination holds in each phase.
Chunks that are laid over the destination have written exactly the bits of
their blocks so far, each where the sum of the sizes before it puts it
(`InPlace`), and no chunk writes in the bits of another, because without a copy
all blocks have the same size and chunks begin at words. Chunks that are copied
leave the destination alone until the loop is over; then it is serial up to the
position of the stream, and each `FinishChunk` moves both by the chunk's sum.
Which block a bit belongs to is `SumOwner`.

**ZfpStream_proofs.** The functions of `ZfpApi` first. `CodeWordFaithful`: for
all valid parameters other than `maxbits` = 0 and `minbits` > 32768, the code
word, short or long, stands for parameters with the same effect. The proof goes
through the modes: each short word is decoded by the inverse of the arithmetic
that made it, and the digits of a long word are clamped only where the coder
clamps as well. The lemmas say that every setter leaves parameters of that kind
(`SettersRepresentable`), that any word that is read does, too
(`WordRepresentable`), so that a header read from a damaged stream can be
written again, that metadata give back type and extents (`MetadataRead`), and
that those of a field that is not set are still those of some field with a type
and extents that can be read (`UnpackedShape`, `ShapeRead`).
`PowerAssumption` says that powers of two are positive numbers, which the
provers do not know, and `DigitAssumption` that the digits of the extents fit the
word; TLC evaluates both. `ZfpTool_proofs` has the lemmas that it needs of these.

The module's theorems are of all arguments of the calls, all fields and all damaged
words. `ParametersUsable`: every function that sets parameters sets valid ones,
or none. `ParametersOwned`: the invariant is that the heap holds the parameters
of the policy and nothing else, also between the two changes of the Metal
fallback. `PolicyRestored` follows from it: a policy that is left and set again
has new parameters of the same values at an address that may differ, so it
matters that the fallback is only reached under the GPU policy, which has none.
`RefusedHeaderChangesNothing` rests on the invariant that the cursor is never
beyond the item after the last.

`HeaderRoundTrip`, for arguments that a code word can express, and fields with
the extents of one of the functions that set them (`SafeInputs`). `HeaderInv`
says that every header in the stream has a word and metadata made of some
representable parameters and well-formed field, unless its word was damaged,
and that the two structs are of that kind, whatever was read into them. The
field comes back if it was set and its extents can be read (`Describable`); a
field that was not set passes through the header as another one. A header may be written from what an earlier, damaged one
left: that is why the invariant is about everything the structs can hold.

**ZfpTool_proofs.** `StreamFitsBuffer`, without hypotheses: `ToolInv` says that
options that passed the checks describe an array of positive extents, and that
it is this array that is compressed. The bound itself is arithmetic: the bits of
a block are at most those of `zfp_stream_maximum_size`, in every mode, type and
dimensionality, with and without a precision, and a header is at most
`HEADER_MAX_BITS`.

`OutputIsInput`, for command lines in which `-h` comes with a mode that a code
word expresses, extents that can be read back, and no GPU (`SafeCommands`).
`OutputInv` follows the blocks through the steps of `main()` and from one
invocation to the next: a complete file is a header that describes the blocks
after it, or blocks alone (`FileOK`); what was read is the whole file when the
loop ends (`ReadOK`); before decompression the cursor is at blocks of the job's
own field and parameters (`Ready`), which a fallback keeps. Files that an
invocation left unfinished may be read, too, but nothing is claimed of them.

**CudaStream_proofs.** For any number of blocks, rate, codes, word size, grid
and back end. `KernelsWithinAllocation`, without hypotheses on the jobs:
`Control` says of every thread where it is in its block (`WriterAt`, `Reading`),
so that the word it accesses, and the one after it, which a writer may add
nothing to and a reader load in advance, begin within the blocks and a word
more. On CUDA `HeaderBits > wsize` is what makes room for that word. On Metal
there is no room: `Inside` says that writers touch words of the blocks only, and
readers one more at most, after the last bit of the last block, which is within
the last word unless the blocks fill it (`CeilSpares`). That one word
(`Prefetched`) is a gap of the code (section 5), and the theorem says that it is
the only one. It also has to be
shown that the grid that `calculate_grid_size` computes has a thread for every
block (`Launched` are all blocks), with roots rounded down and rows added.

`StreamIsSerial`, for jobs that do not fall into the two gaps of section 5
(`SafeJobs`; they concern three-dimensional streams on CUDA and half words on
Metal). `Encoding` is the invariant: at every moment the words of the device
hold, of each block, the first bits of its code, up to what its thread has
stored (`Stored`), and zeros behind them (`Holds`), and a thread's buffer holds
what it has collected since (`Collected`). The zeros are what carries the
proof. An addition to bits that are zero neither carries nor disturbs another
block's bits, so that the order of additions does not matter; a setting of bits
is the same; and a word that is loaded and stored belongs to one thread, since
its blocks are whole words, and is zero when it is loaded. The lemmas on bits say so: numbers below 2^n
with the same bits are equal, a sum of two that share no bit has the bits of
both, a shift moves bits, and what a shift loses is what the second addition
adds. `Copied` takes this to the host.

`StreamReadsBack`: after `Delivered` the words of the blocks are the host's, in
the copy and in the wrapped buffer, and
`AtIn` (a part of `Control`) relates a reader to the position of the call it is
about to read: its buffer is what is left of its word. From `n` bits that are those of a value,
across one word or two, follows the value (`read_bits`); a block without calls
has zeros only, and a block with an exponent begins with a bit that is set,
which is how a thread knows one from the other (`Begins`). All three invariants
are needed at once: a reader finds what `Copied` says, and `Copied` is what
`Encoding` says when all threads are done. Assumptions: that powers of two are
positive and double (`PowerAssumption`), which the provers do not know and TLC
evaluates, and those on sizes and codes (`StreamAssumption`).

**ViewIterator_proofs.** For all views of one to four dimensions, at any
offset and of any extents, and any block size: that of zfp is 4, but nothing
depends on it. `CursorInPlace` is the invariant: a cursor is at the element
whose number is its count (`Place`), or at the position that `End` gives, which
is not an element. `RowRank` numbers elements by digits whose radices are the
extents of the view, as pointers do; `BlockRank` numbers first the block, then
the element in it, with the extents that the view leaves of the block as radices.
The proof has three parts, each for pointers and for iterators.

- The offset that the code computes is this number (`RowOffset`, `BlockOffset`,
  `EndOffset`), and the index that it computes from a number is the element
  (`RowIndex`, `BlockIndex`, and `CfpRowIndex` for cfp, which divides otherwise).
  The iterator divides by the size of a slab of blocks and has to find a block
  that is clipped at both ends of the view: `Slab`, `InSlab`.
- `++` and `--` change the number by one (`AdvanceRank`, `RetreatRank`,
  `RowAdvanceRank`, `RowRetreatRank`). Carries go through the elements of the
  block, then through the blocks; all digits below the one that changes go from
  their last value to their first, and `Carry` adds them up.
- Elements are ordered as they are numbered (`BlockwiseOrdered`, `RowsOrdered`).
  A bijection of the elements before one with the numbers below its own counts
  them (`CountEarlier`).

`CursorInOrder`, `CursorDistance` and `CursorElement` follow; for the last,
`FlatElement` and `NestedElement` say what views make of the indices that a
cursor reports. Offsets are natural numbers without a width: arrays with more
elements than `ptrdiff_t` can count are not covered.

Model-checked only: the liveness properties (`Returns`, `Terminates`), which
this prover does not reach; everything about `BitStream`, `BlockCoder` and
`FieldCoder`, whose definitions are recursive as the loops are; and
`ConstArray`, whose definitions use bitwise operators and folds.

## 5. Where the code departs from its documentation

Modelling showed the following. The runs leave these cases out, or claim only
what the code does; where a change of constants reproduces one, it is given.

| Where | What | To reproduce |
|---|---|---|
| `cache.hpp:164` | With `ZFP_WITH_CACHE_TWOWAY`, `lookup` marks the primary slot also when the block is in its secondary slot: assigning a whole array can lose values. | `TwoWay = TRUE`: `ModifiedIsDirty` |
| `array1.hpp:119` | Only sizing a cache checks that block numbers fit in a tag; resizing the array does not, and write-backs then go astray. | `TagLimit = 3`: `NoStrayEncode` |
| `parallel.c:81` | With the stream at a word-aligned offset other than zero, fixed-rate OpenMP compression passes the interior of the caller's buffer to `free`. | `Starts` with 2: `BuffersOwned` |
| `parallel.c:60` | `stream_open` is not tested as `malloc` is. | |
| `zfp.c:1164` | `zfp_compress` returns the size of the stream and not zero when OpenMP compression ran out of memory. | |
| `zfp.c:358` | `docs/source/high-level-api.rst` (lines 142 and 925) says that `zfp_field_metadata` returns `ZFP_META_NULL` on failure, a value that does not represent valid metadata. For a field without extents or without a type, a difference wraps around, and `zfp_write_header` writes the metadata of another field without notice: one from `zfp_field_alloc` reads back as 65536 x 20480 x 1 doubles. | `IsSet` dropped from `Describable`: `HeaderFaithful` |
| `revencodef.c:66` | In reversible mode a block of floating-point zeros is written as one bit, without padding to `minbits`, but `rev_decode_block` skips to `minbits` (`revdecodef.c:53`): with expert parameters of `minbits` > 1, all blocks after it are read from the wrong place. | `AllPadded` as `TRUE`: `InStep` |
| `pack_unpack.metal:649`, `:697` | The Metal reader loads the next word when one is used up. The runtime wraps the words of the blocks only (`metal_runtime.mm:615`, `:1302`, `:1610`), so that, when blocks times `maxbits` is a multiple of 64, the load after the last bit is behind the buffer. Its value is not used. | `Prefetched` as `{}`: `WithinAllocation` |
| `view1.hpp:286` | Partitioning a view that begins within a block into more pieces than it has blocks gives a piece of nearly 2^64 elements. | `AlignedRoots` with offset 1: `PiecesTile` |
| `view3.hpp:510` | In three dimensions two equal longest extents make `partition` cut along the third. | |
| `bitstream.inl` | `stream_wseek` promises to keep the bits before the offset (item 6 of the rules) but drops bits that are still buffered. The callers flush first, which the model has as a rule of use. | |
| `zfp.c:711` | `maxbits` = 0 and `minbits` > 32768 do not survive the long code word. | `MCParamChoices` with `Parameters(0, 0, 64, 843)`: `HeaderFaithful` |
| `zfp.c:469` | The extent of a one-dimensional field is written in 48 bits and read back from 32. | `Readable` dropped from `Describable`: `HeaderFaithful` |
| `cudacompress.c` | A mode that the GPU does not support does nothing, and `zfp_compress` returns what the stream had before, which is not zero after a header; `docs/source/execution.rst` says that it returns zero. | |
| `cuZFP.cu:411` | The CUDA back end writes at the beginning of the stream wherever it is positioned, and so overwrites a header. | |
| `shared.h:81` | `calc_device_mem3d` rounds down to words, where those for one and two dimensions round up: the last word of a three-dimensional stream is not cleared. | `MCJobs` with `Integers_("cuda", 3, 3, 3)` and without `JobsAreSafe`: `SerialStream` |
| `cuZFP.cu:286` | An offset is added to a null pointer that stands for "not contiguous", which is then taken for memory. | the clause on strides dropped from `Sound`: `OnDevice` |
| `pack_unpack.metal:1378` | The Metal writer is not atomic for rates that are multiples of 32 bits, but merges 64-bit words: blocks of 32 modulo 64 bits lose bits. | `MCJobs` with `Integers_("metal", 2, 1, 2)` and without `JobsAreSafe`: `SerialStream` |
| `constarray*.hpp` | `resize` with clearing does not set the index of a verbatim or hybrid array, so that elements need not be zero before the array is set, as `docs/source/arrays.rst` says; likewise after a change of parameters. | |
| `store.hpp:68` | `set_params` with `minbits` = `maxbits` does not tell the implicit index the block size. | `ExpertFixed` with `"implicit"`: `ReadsLastSet` |
| `zfpcodec.hpp:128`, `store.hpp:203` | Copying a codec leaves its old `zfp_stream` behind; copying a store copies the number of its views. | |

## 6. Not modelled

- The error of the lossy transform: how far values are from those compressed.
  `TopPlanes` says which coefficients' bits survive, not what that means for
  values.
- Strided bit streams (`BIT_STREAM_STRIDED`), which are off by default.
- `gencodec.hpp`, the codec that stores scalars of another type.
- Array headers and factories, and the parts of cfp and of the Fortran and
  Python bindings that forward a call: no state of their own.
- Compilation of Metal shaders, device buffers and command queues: interfaces of
  other systems. Kernels are modelled once a launch has begun.
- Texts and statistics that the tool prints.

## 7. What could come next

1. Proof that `BlockIndex` gives back the offsets it was built from, for every
   width of the digits.
2. Array headers: construction from a header of another process, with damage.
