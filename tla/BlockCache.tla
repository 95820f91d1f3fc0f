----------------------------- MODULE BlockCache -----------------------------
(***************************************************************************)
(* A compressed array of zfp: the fixed-rate array1 class, its write-back  *)
(* cache of decompressed blocks (Cache and BlockCache1) and the store of   *)
(* compressed blocks behind it (BlockStore1).  array2, array3 and array4   *)
(* differ only in how an element's block and its offset are computed; the  *)
(* cache is the same template.                                             *)
(*                                                                         *)
(* A compressed block is represented by what it decodes to: encoding block *)
(* b with contents d at rate r leaves Codec(r, width of b, d) in store[b]. *)
(***************************************************************************)
EXTENDS Integers

CONSTANTS
  BlockSize,        \* elements per block (4 in 1D)
  Sizes,            \* numbers of elements the array may have
  Value,            \* scalar values
  Zero,             \* what a zero-filled compressed block decodes to
  Undef,            \* an element of freshly allocated, unwritten memory
  Inputs(_),        \* Inputs(n): the arrays of n elements assigned as a whole
  Noise,            \* what a block of unwritten memory may decode to
  Rates,            \* compression rates
  Codec(_, _, _),   \* Codec(rate, width, block), as in LossyArray
  NoValue,          \* the result of an operation that reads nothing
  TwoWay,           \* is ZFP_WITH_CACHE_TWOWAY defined?
  Hash(_, _),       \* Hash(x, mask): the secondary slot of line index x
  TagLimit,         \* number of line indices that fit in a Tag (2^31)
  LineRequests,     \* cache sizes asked for, in lines; 0: choose a size
  MaxLogLines       \* bound on log2 of the number of cache lines

VARIABLES
  nx,               \* array1::nx
  rate,             \* the rate of the store's codec
  store,            \* store[b]: what compressed block b decodes to
  mask,             \* Cache::mask, the number of lines minus one
  tag,              \* Cache::tag
  line,             \* Cache::line, the decompressed blocks
  ret,              \* the elements that the last operation returned
  stray             \* has a block outside the array been encoded?

vars == <<nx, rate, store, mask, tag, line, ret, stray>>

Offsets == 0 .. (BlockSize - 1)
Blank == [k \in Offsets |-> Undef]

(***************************************************************************)
(* The shape of the array: block counts, the block of an element, and how  *)
(* many elements of a block lie inside the array.                          *)
(***************************************************************************)
NumBlocks(n) == (n + BlockSize - 1) \div BlockSize
Elements == 0 .. (nx - 1)
Blocks == 0 .. (NumBlocks(nx) - 1)
BlockOf(i) == i \div BlockSize
Width(b) ==
  IF nx - b * BlockSize < BlockSize THEN nx - b * BlockSize ELSE BlockSize

(***************************************************************************)
(* The number of cache lines allocated when n are asked for: the least     *)
(* power of two that is at least n, or whose square covers the blocks when *)
(* n = 0.  Empty when MaxLogLines is too small for the request.            *)
(***************************************************************************)
PowersOfTwo == {2 ^ k : k \in 0 .. MaxLogLines}
Suffices(p, n, blocks) == IF n = 0 THEN p * p >= blocks ELSE p >= n
LineCounts(n, blocks) ==
  {p \in PowersOfTwo :
     /\ Suffices(p, n, blocks)
     /\ \A q \in PowersOfTwo : Suffices(q, n, blocks) => p <= q}

\* Does the number of blocks fit in a tag?  If not, sizing a cache throws.
FitsTag(blocks) == blocks < TagLimit

Slots == 0 .. mask
Unused == [index |-> 0, dirty |-> FALSE]
Tag(x, d) == [index |-> x % TagLimit, dirty |-> d]
Marked(t) == [t EXCEPT !.dirty = TRUE]

Primary(x) == x % (mask + 1)
Secondary(x) == Hash(x, mask)

\* Where access() finds line index x, or the slot it takes from another.
AccessSlot(x) ==
  LET i == Primary(x)
      j == Secondary(x)
  IN  IF tag[i].index = x \/ ~TwoWay THEN i
      ELSE IF tag[j].index = x THEN j
      ELSE IF tag[j] # Unused /\ (~tag[i].dirty \/ tag[j].dirty) THEN i
      ELSE j

\* The slots where lookup() finds line index x: one or none.
LookupSlots(x) ==
  IF tag[Primary(x)].index = x THEN {Primary(x)}
  ELSE {j \in {Secondary(x)} : TwoWay /\ tag[j].index = x}

\* The slot that lookup() marks dirty when it has found x for writing.
MarkedSlot(x) == Primary(x)

(***************************************************************************)
(* The store.  Encoding a block that the array does not have writes        *)
(* outside the store's buffer: such a step is recorded in stray.           *)
(***************************************************************************)
Encode(b, data) ==
  IF b \in Blocks
  THEN [store EXCEPT ![b] = Codec(rate, Width(b), data)]
  ELSE store

\* A decoded partial block leaves the rest of the cache line alone.
Decode(st, b, old) ==
  [k \in Offsets |-> IF k < Width(b) THEN st[b][k] ELSE old[k]]

CopyIn(b, a, old) ==
  [k \in Offsets |-> IF k < Width(b) THEN a[b * BlockSize + k] ELSE old[k]]

(***************************************************************************)
(* BlockCache1::line: bring block b into the cache, writing back the block *)
(* it displaces if that is dirty.                                          *)
(***************************************************************************)
Hit(b) == tag[AccessSlot(b + 1)].index = b + 1
\* Mutant: the tag's index is taken for the block's index.
VictimOffByOne(b) == tag[AccessSlot(b + 1)].index
Victim(b) == tag[AccessSlot(b + 1)].index - 1
WritesBack(b) == ~Hit(b) /\ tag[AccessSlot(b + 1)].dirty

\* Mutant: the displaced block is not written back.
StoreAfterNoWriteBack(b) == store

StoreAfter(b) ==
  IF WritesBack(b) THEN Encode(Victim(b), line[AccessSlot(b + 1)]) ELSE store

LineAfter(b) ==
  IF Hit(b) THEN line[AccessSlot(b + 1)]
  ELSE Decode(StoreAfter(b), b, line[AccessSlot(b + 1)])

\* Mutant: a write that hits does not mark the line.
TagAfterNoMark(b, write) ==
  IF ~Hit(b) THEN Tag(b + 1, write) ELSE tag[AccessSlot(b + 1)]

TagAfter(b, write) ==
  IF ~Hit(b) THEN Tag(b + 1, write)
  ELSE IF write THEN Marked(tag[AccessSlot(b + 1)])
  ELSE tag[AccessSlot(b + 1)]

\* Access block b and leave data in its line.
Access(b, write, data) ==
  /\ store' = StoreAfter(b)
  /\ tag' = [tag EXCEPT ![AccessSlot(b + 1)] = TagAfter(b, write)]
  /\ line' = [line EXCEPT ![AccessSlot(b + 1)] = data]
  /\ stray' = (stray \/ (WritesBack(b) /\ Victim(b) \notin Blocks))
  /\ UNCHANGED <<nx, rate, mask>>

(***************************************************************************)
(* What the code takes for granted of its parameters: the codec returns    *)
(* scalars when the elements of the block that lie inside the array are    *)
(* scalars, whatever the rest of the buffer holds, and the hash of a line  *)
(* index is masked to the cache's size.                                    *)
(***************************************************************************)
Written(w, d) == \A k \in 0 .. (w - 1) : d[k] \in Value

ASSUME ParametersAssumption ==
  /\ BlockSize \in Nat \ {0}
  /\ Sizes \subseteq Nat
  /\ Zero \in Value
  /\ Undef \notin Value
  /\ \A n \in Sizes : Inputs(n) \subseteq [0 .. (n - 1) -> Value]
  /\ Noise \subseteq [Offsets -> Value]
  /\ TwoWay \in BOOLEAN
  /\ TagLimit \in Nat \ {0}

ASSUME CodecAssumption ==
  \A r \in Rates, w \in 1 .. BlockSize :
    \A d \in [Offsets -> Value \cup {Undef}] :
      Written(w, d) => Codec(r, w, d) \in [Offsets -> Value]

\* A partial block is padded from its first w elements, and only those are
\* decoded: nothing else in the buffer matters.
ASSUME CodecWidthAssumption ==
  \A r \in Rates, w \in 1 .. BlockSize :
    \A d, e \in [Offsets -> Value \cup {Undef}] :
      Written(w, d) /\ (\A k \in 0 .. (w - 1) : e[k] = d[k]) =>
        \A k \in 0 .. (w - 1) : Codec(r, w, e)[k] = Codec(r, w, d)[k]

ASSUME LinesAssumption == PowersOfTwo \subseteq Nat \ {0}

ASSUME HashAssumption ==
  \A p \in PowersOfTwo, x \in 1 .. (TagLimit - 1) :
    Hash(x, p - 1) \in 0 .. (p - 1)

-----------------------------------------------------------------------------
ZeroStore(n) == [b \in 0 .. (NumBlocks(n) - 1) |-> [k \in Offsets |-> Zero]]

\* A cache of p unused lines.
NewCache(p) ==
  /\ mask' = p - 1
  /\ tag' = [s \in 0 .. (p - 1) |-> Unused]
  /\ line' = [s \in 0 .. (p - 1) |-> Blank]

(***************************************************************************)
(* The array constructors: a zero-filled store and an empty cache.         *)
(***************************************************************************)
Init ==
  /\ nx \in Sizes
  /\ FitsTag(NumBlocks(nx))
  /\ rate \in Rates
  /\ store = ZeroStore(nx)
  /\ \E n \in LineRequests : \E p \in LineCounts(n, NumBlocks(nx)) :
       /\ mask = p - 1
       /\ tag = [s \in 0 .. (p - 1) |-> Unused]
       /\ line = [s \in 0 .. (p - 1) |-> Blank]
  /\ ret = NoValue
  /\ stray = FALSE

\* array1::get(i), the read of one element.
Get(i) ==
  /\ Access(BlockOf(i), FALSE, LineAfter(BlockOf(i)))
  /\ ret' = [j \in {i} |-> LineAfter(BlockOf(i))[i % BlockSize]]

\* array1::set(i, v), and add, sub, mul and div, whose result is v.
Set(i, v) ==
  /\ Access(BlockOf(i), TRUE,
            [LineAfter(BlockOf(i)) EXCEPT ![i % BlockSize] = v])
  /\ ret' = NoValue

\* array1::get(p): read every block, without bringing it into the cache.
GetArray ==
  /\ ret' = [i \in Elements |->
               IF LookupSlots(BlockOf(i) + 1) # {}
               THEN LET s == CHOOSE s \in LookupSlots(BlockOf(i) + 1) : TRUE
                    IN  line[s][i % BlockSize]
               ELSE store[BlockOf(i)][i % BlockSize]]
  /\ UNCHANGED <<nx, rate, store, mask, tag, line, stray>>

\* array1::set(p), and set(0) with an array of zeros: write every block,
\* into its cache line if it has one and else into the store.
PutArray(a) ==
  /\ store' = [b \in Blocks |->
                 IF LookupSlots(b + 1) # {} THEN store[b]
                 ELSE Codec(rate, Width(b), CopyIn(b, a, Blank))]
  /\ line' = [s \in Slots |->
                IF \E b \in Blocks : s \in LookupSlots(b + 1)
                THEN CopyIn(CHOOSE b \in Blocks : s \in LookupSlots(b + 1),
                            a, line[s])
                ELSE line[s]]
  /\ tag' = [s \in Slots |->
               IF \E b \in Blocks : LookupSlots(b + 1) # {}
                                      /\ s = MarkedSlot(b + 1)
               THEN Marked(tag[s])
               ELSE tag[s]]
  /\ ret' = NoValue
  /\ UNCHANGED <<nx, rate, mask, stray>>

\* The slots whose contents a flush encodes as block b.  Slots are visited
\* in order, so that the last one remains.
DirtySlots(b) == {s \in Slots : tag[s].dirty /\ tag[s].index = b + 1}
LastOf(S) == CHOOSE s \in S : \A t \in S : t <= s

FlushedStore ==
  [b \in Blocks |->
     IF DirtySlots(b) # {}
     THEN Codec(rate, Width(b), line[LastOf(DirtySlots(b))])
     ELSE store[b]]

\* Does a flush encode a block outside the array?
FlushStrays == \E s \in Slots : tag[s].dirty /\ tag[s].index - 1 \notin Blocks

\* array1::flush_cache and compressed_data: write all dirty blocks back.
FlushCache ==
  /\ store' = FlushedStore
  /\ tag' = [s \in Slots |-> Unused]
  /\ stray' = (stray \/ FlushStrays)
  /\ ret' = NoValue
  /\ UNCHANGED <<nx, rate, mask, line>>

\* array1::clear_cache: forget modified blocks.
ClearCache ==
  /\ tag' = [s \in Slots |-> Unused]
  /\ ret' = NoValue
  /\ UNCHANGED <<nx, rate, store, mask, line, stray>>

\* array1::set_cache_size: flush, then allocate a new cache, unless lines()
\* throws.
SetCacheSize(n) ==
  /\ store' = FlushedStore
  /\ stray' = (stray \/ FlushStrays)
  /\ IF FitsTag(NumBlocks(nx))
     THEN \E p \in LineCounts(n, NumBlocks(nx)) : NewCache(p)
     ELSE tag' = [s \in Slots |-> Unused] /\ UNCHANGED <<mask, line>>
  /\ ret' = NoValue
  /\ UNCHANGED <<nx, rate>>

\* array1::set_rate: drop the cache and zero-fill the store.
SetRate(r) ==
  /\ rate' = r
  /\ tag' = [s \in Slots |-> Unused]
  /\ store' = ZeroStore(nx)
  /\ ret' = NoValue
  /\ UNCHANGED <<nx, mask, line, stray>>

\* Mutant: a resize does not drop the cache.
ResizeKeepsCache(n, clear) ==
  /\ nx' = n
  /\ IF clear
     THEN store' = ZeroStore(n)
     ELSE store' \in [0 .. (NumBlocks(n) - 1) -> Noise]
  /\ ret' = NoValue
  /\ UNCHANGED <<rate, mask, tag, line, stray>>

\* array1::resize(n, clear): drop the cache and allocate a new store, which
\* is uninitialised memory unless it is cleared.  The cache keeps its size.
Resize(n, clear) ==
  /\ nx' = n
  /\ tag' = [s \in Slots |-> Unused]
  /\ IF clear
     THEN store' = ZeroStore(n)
     ELSE store' \in [0 .. (NumBlocks(n) - 1) -> Noise]
  /\ ret' = NoValue
  /\ UNCHANGED <<rate, mask, line, stray>>

Next ==
  \/ \E i \in Elements : Get(i)
  \/ \E i \in Elements, v \in Value : Set(i, v)
  \/ GetArray
  \/ \E a \in Inputs(nx) : PutArray(a)
  \/ FlushCache
  \/ ClearCache
  \/ \E n \in LineRequests : SetCacheSize(n)
  \/ \E r \in Rates : SetRate(r)
  \/ \E n \in Sizes, clear \in BOOLEAN : Resize(n, clear)

Spec == Init /\ [][Next]_vars

-----------------------------------------------------------------------------
TagSet == [index : 0 .. (TagLimit - 1), dirty : BOOLEAN]

(***************************************************************************)
(* Every variable has the type the code gives it; the store has one entry  *)
(* per block of the array and the cache one tag per line.                  *)
(***************************************************************************)
TypeOK ==
  /\ nx \in Sizes
  /\ rate \in Rates
  /\ store \in [Blocks -> [Offsets -> Value]]
  /\ mask \in Nat
  /\ mask + 1 \in PowersOfTwo
  /\ tag \in [Slots -> TagSet]
  /\ line \in [Slots -> [Offsets -> Value \cup {Undef}]]
  /\ stray \in BOOLEAN

(***************************************************************************)
(* Every line in use holds a block of the array, in a slot where a later   *)
(* access() will look for it, and no block has two lines.  After a resize  *)
(* of the array, which does not resize the cache, no line of the old array *)
(* survives.                                                               *)
(***************************************************************************)
Placement ==
  \A s \in Slots : tag[s] # Unused =>
    /\ tag[s].index - 1 \in Blocks
    /\ s = Primary(tag[s].index) \/ (TwoWay /\ s = Secondary(tag[s].index))
    /\ \A t \in Slots : tag[t].index = tag[s].index => t = s

(***************************************************************************)
(* "flush cache by compressing all modified cached blocks"                 *)
(* (cache1.hpp, BlockCache1::flush): a line that differs from what its     *)
(* block decodes to is marked dirty, so that evicting or flushing it       *)
(* writes it back.                                                         *)
(***************************************************************************)
ModifiedIsDirty ==
  \A s \in Slots : tag[s] # Unused /\ ~tag[s].dirty =>
    \A k \in 0 .. (Width(tag[s].index - 1) - 1) :
      line[s][k] = store[tag[s].index - 1][k]

(***************************************************************************)
(* No element of unwritten memory is visible: every element of a cached    *)
(* block that lies inside the array has been decoded or assigned, although *)
(* decoding a partial block fills only part of its line.                   *)
(***************************************************************************)
LinesDefined ==
  \A s \in Slots : tag[s] # Unused =>
    \A k \in 0 .. (Width(tag[s].index - 1) - 1) : line[s][k] # Undef

(***************************************************************************)
(* "ensure block index fits in tag" (cache1.hpp, BlockCache1::lines): the  *)
(* write-backs of line() and flush() recover the block from its tag, and   *)
(* it is a block of the array.                                             *)
(***************************************************************************)
NoStrayEncode == ~stray

(***************************************************************************)
(* The array with its cache implements the array without one: what the     *)
(* user sees of a block is its cache line if it has one, and else what it  *)
(* decodes to.                                                             *)
(***************************************************************************)
SlotsOf(b) == {s \in Slots : tag[s].index = b + 1}
Visible(i) ==
  IF SlotsOf(BlockOf(i)) # {}
  THEN line[CHOOSE s \in SlotsOf(BlockOf(i)) : TRUE][i % BlockSize]
  ELSE store[BlockOf(i)][i % BlockSize]

Abstract ==
  INSTANCE LossyArray WITH
    content <- [i \in Elements |-> Visible(i)],
    saved   <- [i \in Elements |-> store[BlockOf(i)][i % BlockSize]]

ImplementsLossyArray == Abstract!Spec
=============================================================================
