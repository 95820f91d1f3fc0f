----------------------------- MODULE CudaStream -----------------------------
(***************************************************************************)
(* How GPU threads, one per block, write the stream of a field at a fixed  *)
(* rate and read it back.  Blocks have maxbits bits each and begin where   *)
(* the previous one ends, so that two threads may share a word: each adds  *)
(* its bits to words that are zero, atomically, a piece of code that       *)
(* straddles two words in two additions.  The host clears the words,       *)
(* launches the kernel in a grid of thread blocks, copies the words back   *)
(* and positions the stream.  The threads of the Metal back end collect a  *)
(* word and store it with a load and a store when blocks are whole half    *)
(* words, and else set bits of half words atomically.  Its kernels work on *)
(* the words of the stream in place, without the room that the host has    *)
(* behind them for a header; a CUDA device has a copy with that room.      *)
(*                                                                         *)
(* The code of a block is given as the calls that write it: write_bits for *)
(* the significant bits of a plane, write_bit for group tests, and one     *)
(* write_bits for the exponent of a float.  The decoder makes the calls    *)
(* that match (BlockCoder shows that it can tell them from the bits).      *)
(***************************************************************************)
EXTENDS Integers, Sequences

CONSTANTS
  wsize,            \* bits of a word: 64
  cuda_block_size,  \* threads of a thread block: 128
  max_grid,         \* thread blocks of a grid along x and y
  HeaderBits,       \* ZFP_HEADER_MAX_BITS: 148
  Jobs              \* fields to compress: the back end, dimensions, type, rate, and a code per block

\* A call writes the n low bits of x; they are bits at, ..., at + n - 1 of the block.
Call == [call : {"bits", "bit", "exponent"}, x : Nat, n : Nat, at : Nat]
Job == [gpu : {"cuda", "metal"}, d : 1 .. 3, type : {"int", "float"}, maxbits : Nat \ {0},
        codes : Seq(Seq(Call))]

\* The calls follow each other, and fit the block.
InSequence(code, maxbits) ==
  \A i \in 1 .. Len(code) :
    /\ code[i].at = IF i = 1 THEN 0 ELSE code[i - 1].at + code[i - 1].n
    /\ code[i].n <= wsize /\ code[i].at + code[i].n <= maxbits
    /\ code[i].call = "bit" => code[i].n = 1 /\ code[i].x \in {0, 1}
\* A float block has no calls, or begins with an exponent after a bit that is set.
Begins(code, type) ==
  IF type = "int" THEN code # <<>> /\ \A i \in 1 .. Len(code) : code[i].call # "exponent"
  ELSE \A i \in 1 .. Len(code) :
         (code[i].call = "exponent") = (i = 1) /\ (i = 1 => code[i].n > 0 /\ code[i].x % 2 = 1)
ASSUME StreamAssumption ==
  /\ wsize \in Nat \ {0} /\ wsize % 2 = 0
  /\ cuda_block_size \in Nat \ {0} /\ max_grid \in Seq(Nat \ {0}) /\ Len(max_grid) = 2
  /\ HeaderBits \in Nat /\ HeaderBits > wsize
  /\ Jobs \subseteq Job
  /\ \A j \in Jobs : \A b \in 1 .. Len(j.codes) :
       InSequence(j.codes[b], j.maxbits) /\ Begins(j.codes[b], j.type)
\* The laws of powers, which the provers do not know.
ASSUME PowerAssumption ==
  2 ^ 0 = 1 /\ \A k \in 0 .. wsize : 2 ^ k \in Nat \ {0} /\ 2 ^ (k + 1) = 2 * 2 ^ k

VARIABLES
  job,
  pc,         \* "setup", "encode", "copy", "decode" or "done"
  device,     \* the words that kernels see, those of the buffer and some that follow
  host,       \* the words at the beginning of the host's stream
  ptr,        \* the stream pointer, in words
  thread,     \* of each block: the next call, the bits written, and where the thread is in the call
  reader,     \* of each block: its BlockReader
  got,        \* of each block: what the decoder has read
  decoded,    \* the blocks that are decoded
  touched     \* the words kernels have accessed

vars == <<job, pc, device, host, ptr, thread, reader, got, decoded, touched>>

blocks == Len(job.codes)
Code(b) == job.codes[b + 1]
CeilDiv(a, b) == (a + b - 1) \div b

\* The stream allocated for a field: every block in full, a header, whole words.
\* Mutant: no room for a header.
zfp_stream_maximum_sizeBare == CeilDiv(blocks * job.maxbits, wsize)
zfp_stream_maximum_size == CeilDiv(HeaderBits + blocks * job.maxbits, wsize)

\* The words cleared, copied and skipped.  Extents are multiples of four here.
calc_device_mem1d == CeilDiv(blocks * job.maxbits, wsize)
calc_device_mem2d == CeilDiv(blocks * job.maxbits, wsize)
calc_device_mem3d == (blocks * job.maxbits) \div wsize
stream_words == CASE job.d = 1 -> calc_device_mem1d
                  [] job.d = 2 -> calc_device_mem2d
                  [] job.d = 3 -> calc_device_mem3d
\* The Metal back end rounds up for any number of dimensions.
zfp_calc_stream_words == CeilDiv(blocks * job.maxbits, wsize)

-----------------------------------------------------------------------------
\* The launch.  Roots are truncated to integers.

sqrt(x) == CHOOSE r \in 0 .. x : r * r <= x /\ x < (r + 1) * (r + 1)
cbrt(x) == CHOOSE r \in 0 .. x : r * r * r <= x /\ x < (r + 1) * (r + 1) * (r + 1)
launch_blocks ==
  blocks + (IF blocks % cuda_block_size # 0 THEN cuda_block_size - (blocks % cuda_block_size) ELSE 0)
calculate_grid_size(size) ==
  LET grids == size \div cuda_block_size
      base == sqrt(grids)
      cube == cbrt(grids)
  IN  CASE grids <= max_grid[1] -> <<grids, 1, 1>>
        [] grids > max_grid[1] /\ grids <= max_grid[1] * max_grid[2] ->
             <<base, base + CeilDiv(size - base * base, base), 1>>
        [] grids > max_grid[1] * max_grid[2] ->
             <<cube, cube, cube + CeilDiv(size - cube * cube * cube, cube * cube)>>
\* Threads are numbered through the grid; those with no block leave.
Launched ==
  LET g == calculate_grid_size(launch_blocks)
  IN  { b \in 0 .. (g[1] * g[2] * g[3] * cuda_block_size - 1) : b < blocks }

-----------------------------------------------------------------------------
\* BlockWriter.  A shift by a whole word gives zero, as it does on the device.

Bit0(b) == b * job.maxbits
word_index(b) == Bit0(b) \div wsize
start_bit(b) == Bit0(b) % wsize
seg_start(b) == (start_bit(b) + thread[b].current) % wsize
write_index(b) == word_index(b) + (start_bit(b) + thread[b].current) \div wsize
\* Unsigned: no bits at the beginning of a word straddle it.
Straddles(b, c) ==
  c.call # "bit" /\ IF seg_start(b) + c.n = 0 THEN TRUE ELSE seg_start(b) + c.n - 1 >= wsize
Masked(c) == IF c.call = "bit" THEN c.x ELSE c.x - (c.x \div 2 ^ c.n) * 2 ^ c.n
None == -1
\* A thread that has done a call, with n bits, and holds buf.
Called(t, n, buf) ==
  [next |-> t.next + 1, current |-> t.current + n, step |-> "first",
   part |-> 0, buf |-> buf, loaded |-> None]
\* A thread in the middle of a call, when it has filled a word.
Halfway(t, buf) ==
  [next |-> t.next, current |-> t.current, step |-> "second",
   part |-> t.part, buf |-> buf, loaded |-> t.loaded]
Plus(word, x) == (word + x) % 2 ^ wsize

\* atomicAdd
AtomicAdd(w, x) ==
  /\ device' = [device EXCEPT ![w] = Plus(@, x)]
  /\ touched' = touched \cup {w}

\* The first addition of a call, and the second.
WriteBits(b) ==
  /\ pc = "encode" /\ job.gpu = "cuda" /\ thread[b].next <= Len(Code(b)) /\ thread[b].step = "first"
  /\ LET c == Code(b)[thread[b].next]
     IN  /\ AtomicAdd(write_index(b), Masked(c) * 2 ^ seg_start(b))
         /\ thread' = [thread EXCEPT ![b] =
                         IF Straddles(b, c) THEN Halfway(@, @.buf) ELSE Called(@, c.n, @.buf)]
  /\ UNCHANGED <<job, pc, host, ptr, reader, got, decoded>>
WriteRest(b) ==
  /\ pc = "encode" /\ job.gpu = "cuda" /\ thread[b].step = "second"
  /\ LET c == Code(b)[thread[b].next]
     IN  /\ AtomicAdd(write_index(b) + 1, Masked(c) \div 2 ^ (wsize - seg_start(b)))
         /\ thread' = [thread EXCEPT ![b] = Called(@, c.n, @.buf)]
  /\ UNCHANGED <<job, pc, host, ptr, reader, got, decoded>>

-----------------------------------------------------------------------------
(***************************************************************************)
(* ZfpBlockWriter1 of the Metal back end.  In atomic mode a call sets its  *)
(* bits half word by half word; part of them have been set.  Otherwise buf *)
(* collects the bits of a word, which is loaded and then stored with them  *)
(* when it is complete, and once more at the end for the last one.         *)
(***************************************************************************)
half == wsize \div 2
\* Mutant: takes the fast path for all rates.
atomic_modeNever == FALSE
atomic_mode == job.maxbits % half # 0
\* The word whose bits are those of x and those of y.
BitAt(x, k) == (x \div 2 ^ k) % 2
Or(x, y) ==
  CHOOSE z \in 0 .. (2 ^ wsize - 1) : \A k \in 0 .. (wsize - 1) :
    BitAt(z, k) = IF BitAt(x, k) = 1 \/ BitAt(y, k) = 1 THEN 1 ELSE 0

MetalOr(b) ==
  /\ pc = "encode" /\ job.gpu = "metal" /\ atomic_mode /\ thread[b].next <= Len(Code(b))
  /\ LET c == Code(b)[thread[b].next]
         part == thread[b].part
         pos == Bit0(b) + thread[b].current + part
         chunk == IF c.n - part < half - (pos % half) THEN c.n - part ELSE half - (pos % half)
         bits == ((Masked(c) \div 2 ^ part) % 2 ^ chunk) * 2 ^ (pos % wsize)
     IN  /\ device' = [device EXCEPT ![pos \div wsize] = Or(@, bits)]
         /\ touched' = IF part = c.n THEN touched ELSE touched \cup {pos \div wsize}
         /\ thread' = [thread EXCEPT ![b] =
                         IF part + chunk = c.n THEN Called(@, c.n, @.buf)
                         ELSE [@ EXCEPT !.part = part + chunk]]
  /\ UNCHANGED <<job, pc, host, ptr, reader, got, decoded>>

MetalCollect(b) ==
  /\ pc = "encode" /\ job.gpu = "metal" /\ ~ atomic_mode
  /\ thread[b].next <= Len(Code(b)) /\ thread[b].step = "first"
  /\ LET c == Code(b)[thread[b].next]
         buf == Or(thread[b].buf, (Masked(c) * 2 ^ seg_start(b)) % 2 ^ wsize)
     IN  thread' = [thread EXCEPT ![b] =
                      IF seg_start(b) + c.n >= wsize THEN Halfway(@, buf) ELSE Called(@, c.n, buf)]
  /\ UNCHANGED <<job, pc, device, host, ptr, reader, got, decoded, touched>>

\* zfp_writer_flush is due: a block without an exponent has none.
FlushDue(b) ==
  /\ job.gpu = "metal" /\ ~ atomic_mode /\ Code(b) # <<>>
  /\ thread[b].next = Len(Code(b)) + 1 /\ seg_start(b) > 0
MetalLoad(b) ==
  /\ pc = "encode" /\ job.gpu = "metal" /\ thread[b].loaded = None
  /\ thread[b].step = "second" \/ FlushDue(b)
  /\ thread' = [thread EXCEPT ![b].loaded = device[write_index(b)]]
  /\ touched' = touched \cup {write_index(b)}
  /\ UNCHANGED <<job, pc, device, host, ptr, reader, got, decoded>>
\* The word is stored; what is left of the call is collected for the next one.
MetalStore(b) ==
  /\ pc = "encode" /\ thread[b].loaded # None
  /\ device' = [device EXCEPT ![write_index(b)] = Or(thread[b].loaded, thread[b].buf)]
  /\ LET c == Code(b)[thread[b].next]
     IN  thread' = [thread EXCEPT ![b] =
                      IF thread[b].step = "first" THEN Called(@, 0, 0)
                      ELSE Called(@, c.n, Masked(c) \div 2 ^ (wsize - seg_start(b)))]
  /\ UNCHANGED <<job, pc, host, ptr, reader, got, decoded, touched>>

\* The thread has written its block.
Wrote(b) == thread[b].next > Len(Code(b)) /\ ~ FlushDue(b)

-----------------------------------------------------------------------------
\* BlockReader: the word it is at, what is left of it, and the bits used of it.

NewReader(mem, b) ==
  [words |-> word_index(b), buffer |-> mem[word_index(b)] \div 2 ^ start_bit(b), bit |-> start_bit(b)]
NextWord(r) == [words |-> r.words + 1, buffer |-> device[r.words + 1], bit |-> 0]
\* n bits of the word have been used.
Used(r, n) == [words |-> r.words, buffer |-> r.buffer \div 2 ^ n, bit |-> r.bit + n]
read_bit(r) ==
  LET s == Used(r, 1)
  IN  [value |-> r.buffer % 2, reader |-> IF s.bit >= wsize THEN NextWord(s) ELSE s]
\* Mutant: keeps the word that has just been used up.
read_bitsLate(r, n) ==
  LET rem_bits == wsize - r.bit
      first_read == IF rem_bits < n THEN rem_bits ELSE n
      next_read == n - first_read
      s == IF n > rem_bits THEN NextWord(r) ELSE Used(r, n)
  IN  [value |-> (r.buffer % 2 ^ first_read) + (s.buffer % 2 ^ next_read) * 2 ^ first_read,
       reader |-> Used(s, next_read)]
read_bits(r, n) ==
  LET rem_bits == wsize - r.bit
      first_read == IF rem_bits < n THEN rem_bits ELSE n
      next_read == IF n >= rem_bits THEN n - first_read ELSE 0
      s == IF n >= rem_bits THEN NextWord(r) ELSE Used(r, n)
  IN  [value |-> (r.buffer % 2 ^ first_read) + (s.buffer % 2 ^ next_read) * 2 ^ first_read,
       reader |-> Used(s, next_read)]

\* One call of zfp_decode.
ReadCall(r, c) ==
  CASE c.call = "bit" -> read_bit(r)
    [] c.call = "bits" -> read_bits(r, c.n)
    [] c.call = "exponent" ->
         LET one == read_bit(r)
             rest == read_bits(one.reader, c.n - 1)
         IN  [value |-> one.value + 2 * rest.value, reader |-> rest.reader]

-----------------------------------------------------------------------------
\* The words of the host's stream, and of the copy of it that a CUDA device allocates.
Allocated == 0 .. (zfp_stream_maximum_size - 1)
\* The words of it that the Metal runtime wraps in a buffer, without a copy: those of the blocks.
Wrapped == 0 .. (zfp_calc_stream_words - 1)
Buffer == IF job.gpu = "metal" THEN Wrapped ELSE Allocated
Memory == 0 .. (zfp_stream_maximum_size + 1)
Stale == 2 ^ wsize - 1            \* what memory holds before
Fresh == [b \in 0 .. (blocks - 1) |-> [next |-> 1, current |-> 0, step |-> "first",
                                       part |-> 0, buf |-> 0, loaded |-> None]]

Init ==
  /\ job \in Jobs
  /\ pc = "setup"
  /\ \E x \in {0, Stale} : device = [w \in Memory |-> x]
  /\ host = [w \in Allocated |-> Stale]
  /\ ptr = 0
  /\ thread = Fresh
  /\ reader = <<>>
  /\ got = [b \in 0 .. (blocks - 1) |-> <<>>]
  /\ decoded = {}
  /\ touched = {}

\* cudaMemset and the launch of a kernel
EncodeLaunch(words) ==
  /\ pc = "setup"
  /\ device' = [w \in Memory |-> IF w < words THEN 0 ELSE device[w]]
  /\ pc' = "encode"
  /\ UNCHANGED <<job, host, ptr, thread, reader, got, decoded, touched>>
encode1launch == job.gpu = "cuda" /\ job.d = 1 /\ EncodeLaunch(calc_device_mem1d)
encode2launch == job.gpu = "cuda" /\ job.d = 2 /\ EncodeLaunch(calc_device_mem2d)
encode3launch == job.gpu = "cuda" /\ job.d = 3 /\ EncodeLaunch(calc_device_mem3d)
zfp_metal_encode_runtime == job.gpu = "metal" /\ EncodeLaunch(zfp_calc_stream_words)

\* cuda_compress, once the kernel is done
cuda_compress ==
  /\ pc = "encode" /\ job.gpu = "cuda"
  /\ \A b \in Launched : Wrote(b)
  /\ host' = [w \in Allocated |-> IF w < stream_words THEN device[w] ELSE host[w]]
  /\ ptr' = stream_words
  /\ pc' = "copy"
  /\ UNCHANGED <<job, device, thread, reader, got, decoded, touched>>

\* zfp_gpu_compress of the Metal back end: the kernel has worked on the stream itself.
metal_compress ==
  /\ pc = "encode" /\ job.gpu = "metal"
  /\ \A b \in Launched : Wrote(b)
  /\ host' = [w \in Allocated |-> device[w]]
  /\ ptr' = zfp_calc_stream_words
  /\ pc' = "copy"
  /\ UNCHANGED <<job, device, thread, reader, got, decoded, touched>>

\* The stream is rewound and the kernel launched, on a buffer with these words of the stream;
\* each thread loads its first word.  What a kernel reads outside the buffer is undefined.
DecodeLaunch(words) ==
  /\ pc = "copy"
  /\ \E x \in {0, Stale} : device' = [w \in Memory |-> IF w \in words THEN host[w] ELSE x]
  /\ reader' = [b \in Launched |-> NewReader(host, b)]
  /\ touched' = touched \cup { word_index(b) : b \in Launched }
  /\ ptr' = 0
  /\ pc' = "decode"
  /\ UNCHANGED <<job, host, thread, got, decoded>>
setup_device_stream_decompress == job.gpu = "cuda" /\ DecodeLaunch(Allocated)
decode1launch == job.d = 1 /\ setup_device_stream_decompress
decode2launch == job.d = 2 /\ setup_device_stream_decompress
decode3launch == job.d = 3 /\ setup_device_stream_decompress
zfp_metal_decode_runtime == job.gpu = "metal" /\ DecodeLaunch(Wrapped)

\* zfp_decode: a float block begins with a bit that says whether there is more.
Flag(b) == read_bit(reader[b])
SkipBlock(b) ==
  /\ pc = "decode" /\ b \notin decoded
  /\ job.type = "float" /\ got[b] = <<>> /\ Flag(b).value = 0
  /\ decoded' = decoded \cup {b}
  /\ touched' = touched \cup {Flag(b).reader.words}
  /\ UNCHANGED <<job, pc, device, host, ptr, thread, reader, got>>
DecodeCall(b) ==
  /\ pc = "decode" /\ b \notin decoded
  /\ job.type = "float" /\ got[b] = <<>> => Flag(b).value = 1
  /\ LET i == Len(got[b]) + 1
         r == ReadCall(reader[b], IF i <= Len(Code(b)) THEN Code(b)[i] ELSE [call |-> "bit"])
     IN  /\ got' = [got EXCEPT ![b] = Append(@, r.value)]
         /\ reader' = [reader EXCEPT ![b] = r.reader]
         /\ touched' = touched \cup {r.reader.words}
         /\ decoded' = IF i >= Len(Code(b)) THEN decoded \cup {b} ELSE decoded
  /\ UNCHANGED <<job, pc, device, host, ptr, thread>>

\* cuda_decompress, once the kernel is done
cuda_decompress ==
  /\ pc = "decode" /\ Launched \subseteq decoded
  /\ ptr' = IF job.gpu = "metal" THEN zfp_calc_stream_words ELSE stream_words
  /\ pc' = "done"
  /\ UNCHANGED <<job, device, host, thread, reader, got, decoded, touched>>

Thread(b) ==
  /\ b \in Launched
  /\ \/ WriteBits(b) \/ WriteRest(b)
     \/ MetalOr(b) \/ MetalCollect(b) \/ MetalLoad(b) \/ MetalStore(b)
     \/ SkipBlock(b) \/ DecodeCall(b)
Host ==
  \/ encode1launch \/ encode2launch \/ encode3launch \/ cuda_compress
  \/ decode1launch \/ decode2launch \/ decode3launch \/ cuda_decompress
  \/ zfp_metal_encode_runtime \/ metal_compress \/ zfp_metal_decode_runtime
Finished == pc = "done" /\ UNCHANGED vars
Step == Host \/ \E b \in 0 .. (blocks - 1) : Thread(b)
Next == Step \/ Finished
Spec == Init /\ [][Next]_vars

-----------------------------------------------------------------------------
\* Three dimensions round the stream down to words, and Metal threads that store whole words
\* take them for their own; with these jobs neither loses bits.
SafeJobs ==
  \A j \in Jobs :
    /\ j.gpu = "cuda" /\ j.d = 3 => (Len(j.codes) * j.maxbits) % wsize = 0
    /\ j.gpu = "metal" => j.maxbits % half # 0 \/ j.maxbits % wsize = 0

StreamBit(words, i) == BitAt(words[i \div wsize], i % wsize)
CodeSize(b) == IF Code(b) = <<>> THEN 0 ELSE Code(b)[Len(Code(b))].at + Code(b)[Len(Code(b))].n

\* The stream the host gets is the serial one: the bits of every call in order from where its
\* block begins, and zeros to the end of the block, however the additions of threads to a
\* shared word are interleaved; and it is positioned after its last word.
SerialStream ==
  pc = "copy" =>
    /\ ptr = CeilDiv(blocks * job.maxbits, wsize)
    /\ \A b \in 0 .. (blocks - 1) :
         /\ \A i \in 1 .. Len(Code(b)) : \A k \in 0 .. (Code(b)[i].n - 1) :
              StreamBit(host, Bit0(b) + Code(b)[i].at + k) = BitAt(Code(b)[i].x, k)
         /\ \A k \in CodeSize(b) .. (job.maxbits - 1) : StreamBit(host, Bit0(b) + k) = 0

\* Decoding threads read what was written, call by call, also across words and at the end of
\* the stream, and all of it.
ReadsBack ==
  \A b \in 0 .. (blocks - 1) :
    /\ Len(got[b]) <= Len(Code(b))
    /\ \A i \in 1 .. Len(got[b]) : got[b][i] = Code(b)[i].x % 2 ^ Code(b)[i].n
    /\ b \in decoded => Len(got[b]) = Len(Code(b))

\* Where the blocks fill their words, a Metal thread that has read the last bit loads the next
\* word, behind its buffer; it uses nothing of it.
Prefetched ==
  IF job.gpu = "metal" /\ pc \in {"decode", "done"} /\ (blocks * job.maxbits) % wsize = 0
  THEN {zfp_calc_stream_words} ELSE {}
\* Kernels access words of their buffer only, but for that one.  On a CUDA device a writer that
\* adds nothing to the word after the last, and a reader that loads it in advance, stay within
\* the room left for a header; on Metal, with no such room, no writer leaves the words of the
\* blocks, nor a reader unless they are whole.
WithinAllocation == touched \subseteq Buffer \cup Prefetched
=============================================================================
