----------------------------- MODULE OmpCompress -----------------------------
(***************************************************************************)
(* One call of zfp_compress with the OpenMP execution policy: the blocks   *)
(* of the field are partitioned into chunks, each chunk is compressed into *)
(* a bit stream of its own by some thread, and the streams are put         *)
(* together (compress_init_par, compress_strided_omp, compress_finish_par).*)
(*                                                                         *)
(* In fixed-rate mode, when every block begins on a word boundary, the     *)
(* chunks' streams are laid over the destination itself and no copy is     *)
(* needed; otherwise each has a buffer of its own that is copied.          *)
(*                                                                         *)
(* Memory is represented by which block each bit of the stream belongs to. *)
(***************************************************************************)
EXTENDS Integers, FiniteSets

CONSTANTS
  WordBits,         \* stream_word_bits
  HeaderMaxBits,    \* ZFP_HEADER_MAX_BITS
  MaxBlocks,        \* bound on the number of blocks of the field
  MaxThreads,       \* bound on the number of threads
  MaxChunkSize,     \* bound on the chunk size asked for; 0: one per thread
  Budgets,          \* the pairs <<minbits, maxbits>> considered
  Starts            \* bit offsets of the stream when zfp_compress is called

\* What zfp_compress is called with: bit counts, and a stream of words.
ASSUME CallAssumption ==
  /\ WordBits \in Nat \ {0}
  /\ HeaderMaxBits \in Nat
  /\ \A budget \in Budgets : budget[1] \in Nat /\ budget[2] \in Nat
  /\ Starts \subseteq Nat

VARIABLES
  blocks,           \* number of blocks of the field
  threads,          \* thread_count_omp(stream)
  chunkSize,        \* zfp_stream_omp_chunk_size(stream)
  minbits, maxbits, \* bits per block, at least and at most
  size,             \* size[b]: the bits that block b is encoded to
  start,            \* stream_wtell when zfp_compress is called
  pc,               \* where the calling thread is
  copy,             \* do the chunks have buffers of their own?
  opened,           \* the chunks whose bitstream has been allocated, not closed
  heap,             \* the chunks whose buffer has been allocated, not freed
  run,              \* run[c]: is chunk c waiting, running or done?
  next,             \* next[c]: the block that chunk c encodes next
  out,              \* out[k]: the owner of bit k of the destination
  wtell,            \* stream_wtell of the destination
  chunk,            \* the loop counter of compress_init_par and compress_finish_par
  badFree,          \* has free() been called on memory not from malloc()?
  ret               \* the result of zfp_compress, in words; -1 before

call == <<blocks, threads, chunkSize, minbits, maxbits, size, start>>
vars == <<call, pc, copy, opened, heap, run, next, out, wtell, chunk,
          badFree, ret>>

\* Owners of bits other than blocks 0, 1, ...
Free == -1
Earlier == -2
Padding == -3

Least(m, n) == IF m < n THEN m ELSE n
RoundUp(n, m) == ((n + m - 1) \div m) * m

\* The number of chunks, and the block at which a chunk begins.
Chunks ==
  Least(IF chunkSize # 0 THEN (blocks + chunkSize - 1) \div chunkSize
        ELSE threads, blocks)
\* Mutant: chunks of equal size, rounded down.
ChunkOffsetTruncated(c) == c * (blocks \div Chunks)
ChunkOffset(c) == (blocks * c) \div Chunks
ChunkIds == 0 .. (Chunks - 1)

\* Bits that the blocks before block n are encoded to.
Prefix[n \in Nat] == IF n = 0 THEN 0 ELSE Prefix[n - 1] + size[n - 1]
ChunkBits(c) == Prefix[ChunkOffset(c + 1)] - Prefix[ChunkOffset(c)]

\* The capacity in bits of a chunk's buffer: the maximum size of a field of
\* n by 4 by ... elements.
\* Mutant: the number of blocks per chunk is rounded down.
BufferElementsTruncated == 4 * (blocks \div Chunks)
BufferElements == (4 * (blocks + Chunks - 1)) \div Chunks
BufferBits ==
  RoundUp(HeaderMaxBits + ((BufferElements + 3) \div 4) * maxbits, WordBits)

\* Must the chunks' streams be copied?
NeedsCopy ==
  \/ minbits # maxbits
  \/ maxbits % WordBits # 0
  \/ start % WordBits # 0

\* Where the stream of chunk c begins when it is laid over the destination.
InPlaceOffset(c) == start + ChunkOffset(c) * maxbits

Bits == 0 .. (RoundUp(start + Prefix[blocks], WordBits) - 1)

Init ==
  /\ blocks \in 1 .. MaxBlocks
  /\ threads \in 1 .. MaxThreads
  /\ chunkSize \in 0 .. MaxChunkSize
  /\ \E budget \in Budgets : minbits = budget[1] /\ maxbits = budget[2]
  /\ size \in [0 .. (blocks - 1) -> minbits .. maxbits]
  /\ start \in Starts
  /\ pc = "init"
  /\ copy = FALSE
  /\ opened = {}
  /\ heap = {}
  /\ run = [c \in ChunkIds |-> "waiting"]
  /\ next = [c \in ChunkIds |-> ChunkOffset(c)]
  /\ out = [k \in Bits |-> IF k < start THEN Earlier ELSE Free]
  /\ wtell = start
  /\ chunk = 0
  /\ badFree = FALSE
  /\ ret = -1

\* compress_init_par: the array of streams is allocated, or there is no memory for it.
InitPar ==
  /\ pc = "init"
  /\ pc' = "alloc"
  /\ copy' = NeedsCopy
  /\ UNCHANGED <<call, opened, heap, run, next, out, wtell, chunk, badFree, ret>>
InitParFails ==
  /\ pc = "init"
  /\ pc' = "flush"
  /\ copy' = NeedsCopy
  /\ UNCHANGED <<call, opened, heap, run, next, out, wtell, chunk, badFree, ret>>

\* The next chunk gets a buffer, or a place in the destination, and a stream.
\* stream_open may run out of memory; the null stream is kept, and whoever
\* uses it crashes: the thread that encodes the chunk, or the clean-up below.
OpenChunk ==
  /\ pc = "alloc"
  /\ heap' = IF copy THEN heap \cup {chunk} ELSE heap
  /\ opened' \in {opened, opened \cup {chunk}}
  /\ IF chunk + 1 < Chunks
     THEN chunk' = chunk + 1 /\ UNCHANGED pc
     ELSE chunk' = 0 /\ pc' = "parallel"
  /\ UNCHANGED <<call, copy, run, next, out, wtell, badFree, ret>>

\* There is no memory for the next chunk's buffer.
BufferFails ==
  /\ pc = "alloc"
  /\ copy
  /\ pc' = "cleanup"
  /\ UNCHANGED <<call, copy, opened, heap, run, next, out, wtell, chunk, badFree, ret>>

\* Mutant: closes the streams, which does not free their buffers.
FreeChunkLeaks ==
  /\ pc = "cleanup"
  /\ chunk > 0
  /\ IF chunk - 1 \in opened
     THEN /\ opened' = opened \ {chunk - 1}
          /\ chunk' = chunk - 1
          /\ UNCHANGED pc
     ELSE pc' = "crashed" /\ UNCHANGED <<opened, chunk>>
  /\ UNCHANGED <<call, copy, heap, run, next, out, wtell, badFree, ret>>

\* The buffers allocated are freed, last one first; they are found through
\* the chunks' streams, which are closed.
FreeChunk ==
  /\ pc = "cleanup"
  /\ chunk > 0
  /\ IF chunk - 1 \in opened
     THEN /\ badFree' = (badFree \/ chunk - 1 \notin heap)
          /\ heap' = heap \ {chunk - 1}
          /\ opened' = opened \ {chunk - 1}
          /\ chunk' = chunk - 1
          /\ UNCHANGED pc
     ELSE pc' = "crashed" /\ UNCHANGED <<opened, heap, chunk, badFree>>
  /\ UNCHANGED <<call, copy, run, next, out, wtell, ret>>

\* All of them are freed: compress_init_par has failed.
GiveUp ==
  /\ pc = "cleanup"
  /\ chunk = 0
  /\ pc' = "flush"
  /\ UNCHANGED <<call, copy, opened, heap, run, next, out, wtell, chunk, badFree, ret>>

\* A thread of the team takes up chunk c.
StartChunk(c) ==
  /\ pc = "parallel"
  /\ run[c] = "waiting"
  /\ Cardinality({d \in ChunkIds : run[d] = "running"}) < threads
  /\ IF c \in opened
     THEN run' = [run EXCEPT ![c] = "running"] /\ UNCHANGED pc
     ELSE pc' = "crashed" /\ UNCHANGED run
  /\ UNCHANGED <<call, copy, opened, heap, next, out, wtell, chunk, badFree, ret>>

\* The destination after a stream laid over it has written block b at bit
\* offset k and flushed: whole words are written.
WithBlock(b, k) ==
  [j \in Bits |->
     IF k <= j /\ j < k + size[b] THEN b
     ELSE IF k + size[b] <= j /\ j < RoundUp(k + size[b], WordBits) THEN Padding
     ELSE out[j]]

\* Mutant: the thread does not go on to the next block.
EncodeBlockStuck(c) ==
  /\ pc = "parallel"
  /\ run[c] = "running"
  /\ UNCHANGED vars

\* The thread of chunk c encodes its next block.
EncodeBlock(c) ==
  /\ pc = "parallel"
  /\ run[c] = "running"
  /\ next' = [next EXCEPT ![c] = @ + 1]
  /\ run' = [run EXCEPT
       ![c] = IF next[c] + 1 = ChunkOffset(c + 1) THEN "done" ELSE @]
  /\ out' = IF copy THEN out
            ELSE WithBlock(next[c],
                   InPlaceOffset(c) + Prefix[next[c]] - Prefix[ChunkOffset(c)])
  /\ UNCHANGED <<call, pc, copy, opened, heap, wtell, chunk, badFree, ret>>

\* Mutant: the first chunk that is done ends the parallel loop.
JoinFirst ==
  /\ pc = "parallel"
  /\ \E c \in ChunkIds : run[c] = "done"
  /\ pc' = "finish"
  /\ UNCHANGED <<call, copy, opened, heap, run, next, out, wtell, chunk,
                 badFree, ret>>

\* All threads have met at the end of the parallel loop.
Join ==
  /\ pc = "parallel"
  /\ \A c \in ChunkIds : run[c] = "done"
  /\ pc' = "finish"
  /\ UNCHANGED <<call, copy, opened, heap, run, next, out, wtell, chunk,
                 badFree, ret>>

\* compress_finish_par decides anew whether to copy, by whether the first
\* chunk's stream begins where the destination begins.
FinishCopies == copy \/ start # 0

\* The owner of bit k of chunk c's stream.
ChunkBit(c, k) ==
  IF copy
  THEN CHOOSE b \in 0 .. (blocks - 1) :
         /\ Prefix[b] <= Prefix[ChunkOffset(c)] + k
         /\ Prefix[ChunkOffset(c)] + k < Prefix[b + 1]
  ELSE out[InPlaceOffset(c) + k]

\* compress_finish_par copies the stream of chunk c and frees its buffer, if
\* it has one, and closes the stream.
FinishChunk(c) ==
  /\ pc = "finish"
  /\ c = chunk
  /\ chunk' = chunk + 1
  /\ IF FinishCopies
     THEN /\ out' = [j \in Bits |->
                       IF wtell <= j /\ j < wtell + ChunkBits(c)
                       THEN ChunkBit(c, j - wtell) ELSE out[j]]
          /\ wtell' = wtell + ChunkBits(c)
          /\ heap' = heap \ {c}
          /\ badFree' = (badFree \/ c \notin heap)
     ELSE UNCHANGED <<out, wtell, heap, badFree>>
  /\ opened' = opened \ {c}
  /\ UNCHANGED <<call, pc, copy, run, next, ret>>

\* compress_finish_par positions a destination that was written in place.
FinishPar ==
  /\ pc = "finish"
  /\ chunk = Chunks
  /\ pc' = "flush"
  /\ wtell' = IF FinishCopies THEN wtell ELSE start + Prefix[blocks]
  /\ UNCHANGED <<call, copy, opened, heap, run, next, out, chunk, badFree, ret>>

\* The end of zfp_compress: flush the stream and return its size.
Flush ==
  /\ pc = "flush"
  /\ pc' = "return"
  /\ wtell' = RoundUp(wtell, WordBits)
  /\ out' = [k \in Bits |->
               IF wtell <= k /\ k < RoundUp(wtell, WordBits) THEN Padding
               ELSE out[k]]
  /\ ret' = RoundUp(wtell, WordBits) \div WordBits
  /\ UNCHANGED <<call, copy, opened, heap, run, next, chunk, badFree>>

\* Nothing happens after the call has returned or crashed.
Ended == pc \in {"return", "crashed"} /\ UNCHANGED vars

Next ==
  \/ InitPar \/ InitParFails
  \/ OpenChunk \/ BufferFails \/ FreeChunk \/ GiveUp
  \/ \E c \in ChunkIds : StartChunk(c) \/ EncodeBlock(c) \/ FinishChunk(c)
  \/ Join
  \/ FinishPar
  \/ Flush
  \/ Ended

(***************************************************************************)
(* The calling thread and the threads of the team keep running.            *)
(***************************************************************************)
Fairness ==
  /\ WF_vars(InitPar \/ InitParFails)
  /\ WF_vars(OpenChunk \/ BufferFails)
  /\ WF_vars(FreeChunk \/ GiveUp)
  /\ \A c \in 0 .. (MaxBlocks - 1) :
       /\ WF_vars(c \in ChunkIds /\ StartChunk(c))
       /\ WF_vars(c \in ChunkIds /\ EncodeBlock(c))
       /\ WF_vars(c \in ChunkIds /\ FinishChunk(c))
  /\ WF_vars(Join)
  /\ WF_vars(FinishPar)
  /\ WF_vars(Flush)

Spec == Init /\ [][Next]_vars /\ Fairness

-----------------------------------------------------------------------------
(***************************************************************************)
(* "each chunk must contain at least one block" (omp.c, chunk_count_omp),  *)
(* and the chunks partition the blocks: each begins where the one before   *)
(* it ends, the first at block 0 and the last ending after the last block. *)
(***************************************************************************)
ChunksPartition ==
  /\ Chunks >= 1
  /\ ChunkOffset(0) = 0
  /\ ChunkOffset(Chunks) = blocks
  /\ \A c \in ChunkIds : ChunkOffset(c) < ChunkOffset(c + 1)

(***************************************************************************)
(* The buffer that compress_init_par allocates for a chunk is large enough *)
(* for what has been written to it, whatever the blocks are encoded to:    *)
(* bit streams do not check their capacity.                                *)
(***************************************************************************)
BufferFits ==
  copy => \A c \in ChunkIds :
            Prefix[next[c]] - Prefix[ChunkOffset(c)] <= BufferBits

(***************************************************************************)
(* When the call returns, having compressed the field, the stream is what  *)
(* serial compression makes of it: the blocks one after another, in order, *)
(* padded to a word.                                                       *)
(***************************************************************************)
SerialOwner(k) ==
  IF k < start THEN Earlier
  ELSE IF k >= start + Prefix[blocks] THEN Padding
  ELSE CHOOSE b \in 0 .. (blocks - 1) :
         start + Prefix[b] <= k /\ k < start + Prefix[b + 1]

SameAsSerial ==
  pc = "return" /\ chunk = Chunks =>
    /\ \A k \in Bits : out[k] = SerialOwner(k)
    /\ wtell = RoundUp(start + Prefix[blocks], WordBits)

(***************************************************************************)
(* "concatenate streams if they are not already contiguous" (parallel.c,   *)
(* compress_finish_par): the buffers that are copied and freed are the     *)
(* ones that compress_init_par has allocated; and when the call returns,   *)
(* compressed or out of memory for any of them, every buffer has been      *)
(* freed and every stream closed.                                          *)
(***************************************************************************)
BuffersOwned == ~badFree /\ (pc = "return" => heap = {} /\ opened = {})

(***************************************************************************)
(* The call returns: no interleaving of the threads keeps the calling      *)
(* thread waiting at the end of the parallel loop.  It crashes instead if  *)
(* a chunk's stream could not be opened, which compress_init_par does not  *)
(* look at.                                                                *)
(***************************************************************************)
Returns == <>(pc = "return" \/ pc = "crashed")
=============================================================================
