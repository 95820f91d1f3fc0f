---------------------------- MODULE PrivateViews ----------------------------
(***************************************************************************)
(* Threads that access one compressed array through private views          *)
(* (private_const_view and private_view, view1.hpp), each with a cache of  *)
(* its own, sharing the array's store, codec and bit stream.               *)
(*                                                                         *)
(* There is no lock around compression.  The store counts the views        *)
(* (BlockStore::reference, unreference), and while there are two or more   *)
(* sets the codec's flag thread_safety, which makes every call to the      *)
(* codec work on a clone of the bit stream rather than on the stream that  *)
(* all share.  The count and the flag change in a critical section, but    *)
(* the flag is read outside it: a thread may see any value from the one it *)
(* wrote when it constructed its view to the latest.                       *)
(*                                                                         *)
(* As the documentation asks, views that write have blocks of their own    *)
(* (Regions, see ViewPartition) and do not exist together with views that  *)
(* only read, and the array itself is left alone meanwhile.  A cache may   *)
(* hold any blocks and evict any: its organisation is that of BlockCache.  *)
(***************************************************************************)
EXTENDS Integers, FiniteSets

CONSTANTS
  Views,          \* the views that may be constructed, each in its thread
  NumBlocks,      \* the number of blocks of the array
  Regions,        \* the sets of blocks that views that write may be given
  Words,          \* words per compressed block
  Value,          \* the values of a block
  Initial,        \* the value of every block at first
  Garbage         \* what words that do not belong together are decoded to

VARIABLES
  live,           \* the views that exist
  region,         \* region[v]: the blocks that v accesses
  mutable,        \* do the views that exist write?
  references,     \* BlockStore::references
  threadSafety,   \* the latest value of zfp_base::thread_safety
  visible,        \* visible[v]: the values that v's thread may read of it
  position,       \* of the shared bit stream: <<block, word>>
  store,          \* store[<<b, k>>]: the word k of block b
  cache,          \* cache[v][b]: block b in the cache of v
  call,           \* call[v]: the call of the codec that v is in
  stored          \* stored[b]: the value that was last to be stored in b

vars == <<live, region, mutable, references, threadSafety, visible, position,
          store, cache, call, stored>>

Blocks == 0 .. (NumBlocks - 1)

ASSUME ViewsAssumption ==
  /\ IsFiniteSet(Views)
  /\ NumBlocks \in Nat \ {0}
  /\ Words \in Nat \ {0}
  /\ Initial \in Value
  /\ Garbage \notin Value
  /\ \A r \in Regions : r \subseteq Blocks
  /\ \A r, s \in Regions : r # s => r \cap s = {}

\* Places in the store, and the place after place p.
Places == Blocks \X (0 .. (Words - 1))
After(p) ==
  IF p[2] + 1 < Words THEN <<p[1], p[2] + 1>>
  ELSE <<(p[1] + 1) % NumBlocks, 0>>

\* The words that a block is encoded to, and what words are decoded to:
\* Garbage if they do not come from one encoding.
Word(val, k) == <<val, k>>
Encodes(words, val) == \A k \in 0 .. (Words - 1) : words[k] = Word(val, k)
Decoded(words) ==
  IF \E val \in Value : Encodes(words, val)
  THEN CHOOSE val \in Value : Encodes(words, val)
  ELSE Garbage
NoWords == [k \in 0 .. (Words - 1) |-> Garbage]

\* States of a block in a cache.
Absent == [state |-> "absent", val |-> Garbage]
Clean(val) == [state |-> "clean", val |-> val]
Dirty(val) == [state |-> "dirty", val |-> val]

\* A call of the codec: which block it encodes or decodes, on the shared
\* stream or on a clone, whether it has sought the block, the number of
\* words it has coded, the clone's position, and the words read.
NoCall == [kind |-> "none", block |-> 0, clone |-> TRUE, sought |-> FALSE,
           count |-> 0, at |-> <<0, 0>>, words |-> NoWords]
Begun(kind, b, clone) ==
  [NoCall EXCEPT !.kind = kind, !.block = b, !.clone = clone, !.at = position]

Init ==
  /\ live = {}
  /\ region = [v \in Views |-> {}]
  /\ mutable = FALSE
  /\ references = 0
  /\ threadSafety = FALSE
  /\ visible = [v \in Views |-> {}]
  /\ position = <<0, 0>>
  /\ store = [p \in Places |-> Word(Initial, p[2])]
  /\ cache = [v \in Views |-> [b \in Blocks |-> Absent]]
  /\ call = [v \in Views |-> NoCall]
  /\ stored = [b \in Blocks |-> Initial]

\* set_thread_safety, in the critical section: view v sees the value it
\* writes and later ones, and a view that exists may see it from now on.
\* Mutant: safety only from the third view.
SetThreadSafetyLate(count, views, new) ==
  /\ threadSafety' = (count > 2)
  /\ visible' = [v \in Views |->
                   IF v \in new THEN {count > 2}
                   ELSE IF v \in views THEN visible[v] \cup {count > 2} ELSE {}]
SetThreadSafety(count, views, new) ==
  /\ threadSafety' = (count > 1)
  /\ visible' = [v \in Views |->
                   IF v \in new THEN {count > 1}
                   ELSE IF v \in views THEN visible[v] \cup {count > 1} ELSE {}]

\* The store's reference count when a view is constructed.
Reference == references + 1

\* Construct a private_view of region r.
ConstructMutable(v, r) ==
  /\ v \notin live
  /\ live = {} \/ mutable
  /\ \A w \in live : region[w] # r
  /\ live' = live \cup {v}
  /\ region' = [region EXCEPT ![v] = r]
  /\ mutable' = TRUE
  /\ references' = Reference
  /\ SetThreadSafety(Reference, live', {v})
  /\ UNCHANGED <<position, store, cache, call, stored>>

\* Construct a private_const_view of the whole array.
ConstructConst(v) ==
  /\ v \notin live
  /\ live = {} \/ ~mutable
  /\ live' = live \cup {v}
  /\ region' = [region EXCEPT ![v] = Blocks]
  /\ mutable' = FALSE
  /\ references' = Reference
  /\ SetThreadSafety(Reference, live', {v})
  /\ UNCHANGED <<position, store, cache, call, stored>>

\* Destroy a view, with its cache: modified blocks are not compressed.
Destroy(v) ==
  /\ v \in live
  /\ call[v] = NoCall
  /\ live' = live \ {v}
  /\ references' = references - 1
  /\ SetThreadSafety(references - 1, live', {})
  /\ region' = [region EXCEPT ![v] = {}]
  /\ cache' = [cache EXCEPT ![v] = [b \in Blocks |-> Absent]]
  /\ UNCHANGED <<mutable, position, store, call, stored>>

\* An access to block b misses, and the codec is called to decode it.
BeginDecode(v, b) ==
  /\ v \in live /\ call[v] = NoCall
  /\ b \in region[v] /\ cache[v][b] = Absent
  /\ \E safe \in visible[v] :
       call' = [call EXCEPT ![v] = Begun("decode", b, safe)]
  /\ UNCHANGED <<live, region, mutable, references, threadSafety, visible,
                 position, store, cache, stored>>

\* A modified block is evicted or flushed: the codec is called to encode it.
BeginEncode(v, b) ==
  /\ v \in live /\ call[v] = NoCall
  /\ cache[v][b].state = "dirty"
  /\ \E safe \in visible[v] :
       call' = [call EXCEPT ![v] = Begun("encode", b, safe)]
  /\ stored' = [stored EXCEPT ![b] = cache[v][b].val]
  /\ UNCHANGED <<live, region, mutable, references, threadSafety, visible,
                 position, store, cache>>

\* Mutant: a clone is taken to be where the block is when it is decoded.
SeekToEncode(v) ==
  /\ call[v].kind # "none" /\ ~call[v].sought
  /\ call' = [call EXCEPT ![v].sought = TRUE,
                ![v].at = IF call[v].kind = "encode" THEN <<call[v].block, 0>> ELSE @]
  /\ position' = IF ~call[v].clone THEN <<call[v].block, 0>> ELSE position
  /\ UNCHANGED <<live, region, mutable, references, threadSafety, visible,
                 store, cache, stored>>

\* stream_wseek or stream_rseek.
Seek(v) ==
  /\ call[v].kind # "none" /\ ~call[v].sought
  /\ call' = [call EXCEPT ![v].sought = TRUE, ![v].at = <<call[v].block, 0>>]
  /\ position' = IF ~call[v].clone THEN <<call[v].block, 0>> ELSE position
  /\ UNCHANGED <<live, region, mutable, references, threadSafety, visible,
                 store, cache, stored>>

\* Where the stream used by the call of v is.
\* Mutant: only decoding uses its clone.
CallPlaceDecodes(v) ==
  IF ~call[v].clone \/ call[v].kind = "encode" THEN position ELSE call[v].at
CallPlace(v) == IF ~call[v].clone THEN position ELSE call[v].at

\* Encode or decode the next word at the stream's position.
CodeWord(v) ==
  /\ call[v].sought /\ call[v].count < Words
  /\ LET p == CallPlace(v)
         k == call[v].count
     IN  /\ call' = [call EXCEPT ![v].count = k + 1, ![v].at = After(p),
                      ![v].words = IF call[v].kind = "decode"
                                   THEN [@ EXCEPT ![k] = store[p]] ELSE @]
         /\ store' = IF call[v].kind = "encode"
                     THEN [store EXCEPT ![p] = Word(cache[v][call[v].block].val, k)]
                     ELSE store
         /\ position' = IF ~call[v].clone THEN After(p) ELSE position
  /\ UNCHANGED <<live, region, mutable, references, threadSafety, visible,
                 cache, stored>>

\* The codec returns: a decoded block is put in its line, and the line of an
\* encoded one is emptied, for another block or by the flush.
LineAfter(v) ==
  IF call[v].kind = "decode" THEN Clean(Decoded(call[v].words)) ELSE Absent

Return(v) ==
  /\ call[v].sought /\ call[v].count = Words
  /\ cache' = [cache EXCEPT ![v][call[v].block] = LineAfter(v)]
  /\ call' = [call EXCEPT ![v] = NoCall]
  /\ UNCHANGED <<live, region, mutable, references, threadSafety, visible,
                 position, store, stored>>

\* Write to an element of block b, which is in the cache by now.
Set(v, b, val) ==
  /\ v \in live /\ mutable /\ call[v] = NoCall
  /\ cache[v][b] # Absent
  /\ cache' = [cache EXCEPT ![v][b] = Dirty(val)]
  /\ UNCHANGED <<live, region, mutable, references, threadSafety, visible,
                 position, store, call, stored>>

\* A block that is not modified is evicted.
Evict(v, b) ==
  /\ v \in live /\ call[v] = NoCall
  /\ cache[v][b].state = "clean"
  /\ cache' = [cache EXCEPT ![v][b] = Absent]
  /\ UNCHANGED <<live, region, mutable, references, threadSafety, visible,
                 position, store, call, stored>>

\* clear_cache, or set_cache_size.
ClearCache(v) ==
  /\ v \in live /\ call[v] = NoCall
  /\ cache' = [cache EXCEPT ![v] = [b \in Blocks |-> Absent]]
  /\ UNCHANGED <<live, region, mutable, references, threadSafety, visible,
                 position, store, call, stored>>

Next ==
  \E v \in Views :
    \/ \E r \in Regions : ConstructMutable(v, r)
    \/ ConstructConst(v)
    \/ Destroy(v)
    \/ \E b \in Blocks : BeginDecode(v, b) \/ BeginEncode(v, b) \/ Evict(v, b)
    \/ \E b \in Blocks : \E val \in Value : Set(v, b, val)
    \/ Seek(v)
    \/ CodeWord(v)
    \/ Return(v)
    \/ ClearCache(v)

Spec == Init /\ [][Next]_vars

-----------------------------------------------------------------------------
Lines == {Absent} \cup {Clean(val) : val \in Value \cup {Garbage}}
                  \cup {Dirty(val) : val \in Value}
StoredWords == {Word(val, k) : val \in Value, k \in 0 .. (Words - 1)}
Calls ==
  [kind : {"none", "decode", "encode"}, block : Blocks, clone : BOOLEAN,
   sought : BOOLEAN, count : 0 .. Words, at : Places,
   words : [0 .. (Words - 1) -> StoredWords \cup {Garbage}]]

\* Every variable has its type, and the store counts the views that exist.
TypeOK ==
  /\ live \in SUBSET Views
  /\ region \in [Views -> SUBSET Blocks]
  /\ mutable \in BOOLEAN
  /\ references = Cardinality(live)
  /\ threadSafety \in BOOLEAN
  /\ visible \in [Views -> SUBSET BOOLEAN]
  /\ position \in Places
  /\ store \in [Places -> StoredWords]
  /\ cache \in [Views -> [Blocks -> Lines]]
  /\ call \in [Views -> Calls]
  /\ stored \in [Blocks -> Value]

(***************************************************************************)
(* The codec "has to take care that there are no race conditions on the    *)
(* data structures (e.g., bitstream) used for (de)compression" (codec.inc, *)
(* set_thread_safety): at no time do two threads use the array's own bit   *)
(* stream, although the flag that tells them not to is read without        *)
(* synchronisation and a call that has begun is not told when it changes.  *)
(***************************************************************************)
SharedStreamExclusive ==
  \A v, w \in Views :
    ~call[v].clone /\ ~call[w].clone => v = w

(***************************************************************************)
(* "Multiple threads may thus access the same array in parallel through    *)
(* their own private views" (views.inc): a block that is not being encoded *)
(* holds the complete encoding of the value that was last stored in it.    *)
(***************************************************************************)
StoreIntact ==
  \A b \in Blocks :
    (\A v \in Views : ~(call[v].kind = "encode" /\ call[v].block = b)) =>
      \A k \in 0 .. (Words - 1) : store[<<b, k>>] = Word(stored[b], k)

(***************************************************************************)
(* What a view has in its cache and has not modified is what was last      *)
(* stored: no thread decodes a block that another is at work on, nor what  *)
(* another thread's seek has led it to.                                    *)
(***************************************************************************)
CachesCoherent ==
  \A v \in Views : \A b \in Blocks :
    cache[v][b].state = "clean" => cache[v][b].val = stored[b]
=============================================================================
