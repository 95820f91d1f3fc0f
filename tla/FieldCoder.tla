----------------------------- MODULE FieldCoder -----------------------------
(***************************************************************************)
(* Compression and decompression of a whole field of one to four           *)
(* dimensions: the loops over its blocks, serial, by OpenMP threads and by *)
(* GPU threads; the gathering of full and partial blocks from strided      *)
(* memory, their transform and coefficient order; and the way back.  The   *)
(* serial loops take blocks in order; OpenMP and GPU threads take them by  *)
(* number, in any order.  What one thread does with its block is one step: *)
(* blocks have their own place in the stream (OmpCompress and CudaStream   *)
(* are about how it is kept) and distinct blocks distinct elements.        *)
(*                                                                         *)
(* Coefficients are kept as they are: coding them is BlockCoder's subject. *)
(***************************************************************************)
EXTENDS Gather, Transform, FiniteSets, TLC

CONSTANT Jobs       \* fields, and who compresses and decompresses them:
                    \* [n, s : sequences; enc, dec : engines; rev : BOOLEAN]

ASSUME JobsAssumption ==
  \A j \in Jobs : /\ Len(j.n) \in 1 .. 4 /\ Len(j.s) = Len(j.n)
                  /\ \A i \in DOMAIN j.n : j.n[i] \in Nat \ {0} /\ j.s[i] \in Int
                  /\ "cuda" \in {j.enc, j.dec} => Len(j.n) <= 3 /\ ~j.rev

VARIABLES
  job,
  pc,       \* "compress", "decompress", "done" or "refused"
  origin,   \* the loop variables of a serial loop
  stream,   \* blocks of coefficients by number
  reads,    \* the pointers read for each block
  decoded,  \* the numbers of the blocks decompressed
  out,      \* decompressed values by pointer
  writes    \* how many values were written

vars == <<job, pc, origin, stream, reads, decoded, out, writes>>

d == Len(job.n)
n == job.n
Least(a, b) == IF a < b THEN a ELSE b

\* Strides of zero are those of a contiguous field.
strides ==
  [i \in 1 .. d |-> IF job.s[i] # 0 THEN job.s[i]
                    ELSE IF i = 1 THEN 1 ELSE IF i = 2 THEN n[1]
                    ELSE IF i = 3 THEN n[1] * n[2] ELSE n[1] * n[2] * n[3]]

\* The block at o: its pointer, its widths inside the array, and whether it is partial.
At(o) == FoldSet(LAMBDA i, sum : sum + strides[i] * o[i], 0, 1 .. d)
Width(o) == [i \in 1 .. d |-> Least(n[i] - o[i], 4)]
Partial(o) == \E i \in 1 .. d : n[i] - o[i] < 4

-----------------------------------------------------------------------------
\* Serial and OpenMP engines: the pointers read, or the writes made, for the block at o.

compress_1(o) == IF o[1] < n[1] - (n[1] % 4) THEN gather_1(o[1], <<1>>)
                 ELSE gather_partial_1(o[1], <<n[1] - o[1]>>, <<1>>)
compress_strided_1(o) ==
  IF Partial(o) THEN gather_partial_1(At(o), <<n[1] - o[1]>>, strides) ELSE gather_1(At(o), strides)
compress_strided_2(o) ==
  IF Partial(o) THEN gather_partial_2(At(o), Width(o), strides) ELSE gather_2(At(o), strides)
compress_strided_3(o) ==
  IF Partial(o) THEN gather_partial_3(At(o), Width(o), strides) ELSE gather_3(At(o), strides)
compress_strided_4(o) ==
  IF Partial(o) THEN gather_partial_4(At(o), Width(o), strides) ELSE gather_4(At(o), strides)
HostGather(o) ==
  CASE d = 1 -> IF strides = <<1>> THEN compress_1(o) ELSE compress_strided_1(o)
    [] d = 2 -> compress_strided_2(o)
    [] d = 3 -> compress_strided_3(o)
    [] d = 4 -> compress_strided_4(o)

decompress_1(o) == IF o[1] < n[1] - (n[1] % 4) THEN scatter_1(o[1], <<1>>)
                   ELSE scatter_partial_1(o[1], <<n[1] - o[1]>>, <<1>>)
decompress_strided_1(o) ==
  IF Partial(o) THEN scatter_partial_1(At(o), <<n[1] - o[1]>>, strides) ELSE scatter_1(At(o), strides)
decompress_strided_2(o) ==
  IF Partial(o) THEN scatter_partial_2(At(o), Width(o), strides) ELSE scatter_2(At(o), strides)
decompress_strided_3(o) ==
  IF Partial(o) THEN scatter_partial_3(At(o), Width(o), strides) ELSE scatter_3(At(o), strides)
decompress_strided_4(o) ==
  IF Partial(o) THEN scatter_partial_4(At(o), Width(o), strides) ELSE scatter_4(At(o), strides)
HostScatter(o) ==
  CASE d = 1 -> IF strides = <<1>> THEN decompress_1(o) ELSE decompress_strided_1(o)
    [] d = 2 -> decompress_strided_2(o)
    [] d = 3 -> decompress_strided_3(o)
    [] d = 4 -> decompress_strided_4(o)

\* The serial loops: x innermost; <<>> once all are done.
LoopNext(o) ==
  LET moving == { i \in 1 .. d : o[i] + 4 < n[i] }
      i == CHOOSE first \in moving : \A k \in moving : first <= k
  IN  IF moving = {} THEN <<>>
      ELSE [k \in 1 .. d |-> IF k < i THEN 0 ELSE IF k = i THEN o[i] + 4 ELSE o[k]]

\* OpenMP threads find the origin of a block from its number.
BlocksAlong(i) == (n[i] + 3) \div 4
omp_origin_1(b) == <<4 * b>>
omp_origin_2(b) == <<4 * (b % BlocksAlong(1)), 4 * (b \div BlocksAlong(1))>>
omp_origin_3(b) ==
  LET by == b \div BlocksAlong(1)
  IN  <<4 * (b % BlocksAlong(1)), 4 * (by % BlocksAlong(2)), 4 * (by \div BlocksAlong(2))>>
omp_origin_4(b) ==
  LET by == b \div BlocksAlong(1)
      bz == by \div BlocksAlong(2)
  IN  <<4 * (b % BlocksAlong(1)), 4 * (by % BlocksAlong(2)), 4 * (bz % BlocksAlong(3)),
        4 * (bz \div BlocksAlong(3))>>
OmpOrigin(b) == CASE d = 1 -> omp_origin_1(b) [] d = 2 -> omp_origin_2(b)
                  [] d = 3 -> omp_origin_3(b) [] d = 4 -> omp_origin_4(b)
Blocks == FoldSet(LAMBDA i, p : p * BlocksAlong(i), 1, 1 .. d)

-----------------------------------------------------------------------------
\* GPU engine: extents are padded to multiples of four; threads with a number from
\* tot_blocks on leave at once.

pad(i) == IF n[i] % 4 # 0 THEN n[i] + (4 - (n[i] % 4)) ELSE n[i]
block_dims(i) == pad(i) \div 4
tot_blocks == FoldSet(LAMBDA i, p : p * pad(i), 1, 1 .. d) \div 4 ^ d
CudaPartial(o) == \E i \in 1 .. d : o[i] + 4 > n[i]
CudaWidth(o) == [i \in 1 .. d |-> IF o[i] + 4 > n[i] THEN n[i] - o[i] ELSE 4]

cuda_origin(b) ==
  CASE d = 1 -> <<(b % block_dims(1)) * 4>>
    [] d = 2 -> <<(b % block_dims(1)) * 4, ((b \div block_dims(1)) % block_dims(2)) * 4>>
    [] d = 3 -> <<(b % block_dims(1)) * 4, ((b \div block_dims(1)) % block_dims(2)) * 4,
                  (b \div (block_dims(1) * block_dims(2))) * 4>>
\* Mutant: the width of the last block is what was padded.
cudaEncode1Padding(o) ==
  IF CudaPartial(o) THEN cuda_gather_partial_1(At(o), <<pad(1) - n[1]>>, strides)
  ELSE cuda_gather_1(At(o), strides)
cudaEncode1(o) ==
  IF CudaPartial(o) THEN cuda_gather_partial_1(At(o), <<4 - (pad(1) - n[1])>>, strides)
  ELSE cuda_gather_1(At(o), strides)
cudaEncode2(o) ==
  IF CudaPartial(o) THEN cuda_gather_partial_2(At(o), CudaWidth(o), strides)
  ELSE cuda_gather_2(At(o), strides)
cudaEncode(o) ==
  IF CudaPartial(o) THEN cuda_gather_partial_3(At(o), CudaWidth(o), strides)
  ELSE cuda_gather_3(At(o), strides)
CudaGather(o) ==
  CASE d = 1 -> cudaEncode1(o) [] d = 2 -> cudaEncode2(o) [] d = 3 -> cudaEncode(o)

cudaDecode1(b) ==
  IF 4 * b + 4 > n[1] THEN cuda_scatter_partial_1(4 * b * strides[1], <<4 - (pad(1) - n[1])>>, strides)
  ELSE cuda_scatter_1(4 * b * strides[1], strides)
cudaDecode2(b) ==
  LET o == cuda_origin(b)
  IN  IF CudaPartial(o) THEN cuda_scatter_partial_2(At(o), CudaWidth(o), strides)
      ELSE cuda_scatter_2(At(o), strides)
cudaDecode3(b) ==
  LET o == cuda_origin(b)
  IN  IF CudaPartial(o) THEN cuda_scatter_partial_3(At(o), CudaWidth(o), strides)
      ELSE cuda_scatter_3(At(o), strides)
CudaScatter(b) ==
  CASE d = 1 -> cudaDecode1(b) [] d = 2 -> cudaDecode2(b) [] d = 3 -> cudaDecode3(b)

\* The field is copied to and from the device as Size elements from the least address on, if
\* its elements fill such a range; if not, there is no memory on the device.
Size == FoldSet(LAMBDA i, p : p * n[i], 1, 1 .. d)
imin == FoldSet(LAMBDA i, sum : sum + Least(strides[i], 0) * (n[i] - 1), 0, 1 .. d)
imax == FoldSet(LAMBDA i, sum : sum + (strides[i] - Least(strides[i], 0)) * (n[i] - 1), 0, 1 .. d)
\* Mutant: a line is taken as it comes.
is_contigousAny == d = 1 \/ imax - imin + 1 = Size
is_contigous == IF d = 1 THEN strides[1] \in {-1, 1} ELSE imax - imin + 1 = Size
\* A null pointer to which an offset was added is not null.
IsNull == ~is_contigous /\ imin = 0

-----------------------------------------------------------------------------
\* The values of the field: small numbers to the reversible transform, and to the lossy
\* transform multiples of 16^d, which it keeps exactly.
Value(p) == (((p * p * 3 + 5 * p) % 11) - 5) * (IF job.rev THEN 1 ELSE 16 ^ d)

EncodeBlock(b, q) ==
  LET values == [j \in DOMAIN q |-> Value(q[j])]
  IN  /\ reads' = reads @@ (b :> q)
      /\ stream' = stream @@ (b :> IF job.enc = "cuda"
                                   THEN fwd_order(get_perm(d), cuda_fwd_xform(d, values))
                                   ELSE fwd_order(perm(d), fwd_xform(d, job.rev, values)))
DecodeBlock(b, cells) ==
  LET q == IF job.dec = "cuda" THEN cuda_inv_xform(d, inv_order(get_perm(d), stream[b]))
           ELSE inv_xform(d, job.rev, inv_order(perm(d), stream[b]))
      at == { cells[j].at : j \in DOMAIN cells }
      last(p) == CHOOSE j \in DOMAIN cells : cells[j].at = p
  IN  /\ out' = [p \in at |-> q[cells[last(p)].from]] @@ out
      /\ writes' = writes + Cardinality(DOMAIN cells)
      /\ decoded' = decoded \cup {b}

Zero == [i \in 1 .. d |-> 0]
Init ==
  /\ job \in Jobs
  /\ pc = "compress"
  /\ origin = Zero
  /\ stream = <<>> /\ reads = <<>> /\ out = <<>>
  /\ decoded = {} /\ writes = 0

\* One block of the serial loops.
CompressSerial ==
  /\ pc = "compress" /\ job.enc = "serial"
  /\ EncodeBlock(Cardinality(DOMAIN stream), HostGather(origin))
  /\ origin' = IF LoopNext(origin) = <<>> THEN Zero ELSE LoopNext(origin)
  /\ pc' = IF LoopNext(origin) = <<>> THEN "decompress" ELSE pc
  /\ UNCHANGED <<job, decoded, out, writes>>
DecompressSerial ==
  /\ pc = "decompress" /\ job.dec = "serial"
  /\ DecodeBlock(Cardinality(decoded), HostScatter(origin))
  /\ origin' = IF LoopNext(origin) = <<>> THEN Zero ELSE LoopNext(origin)
  /\ pc' = IF LoopNext(origin) = <<>> THEN "done" ELSE pc
  /\ UNCHANGED <<job, stream, reads>>

\* A block by a thread.
CompressOmp(b) ==
  /\ pc = "compress" /\ job.enc = "omp"
  /\ b \in (0 .. (Blocks - 1)) \ DOMAIN stream
  /\ EncodeBlock(b, HostGather(OmpOrigin(b)))
  /\ pc' = IF Cardinality(DOMAIN stream) + 1 = Blocks THEN "decompress" ELSE pc
  /\ UNCHANGED <<job, origin, decoded, out, writes>>
CompressCuda(b) ==
  /\ pc = "compress" /\ job.enc = "cuda" /\ ~IsNull
  /\ b \in (0 .. (tot_blocks - 1)) \ DOMAIN stream
  /\ EncodeBlock(b, CudaGather(cuda_origin(b)))
  /\ pc' = IF Cardinality(DOMAIN stream) + 1 = tot_blocks THEN "decompress" ELSE pc
  /\ UNCHANGED <<job, origin, decoded, out, writes>>
DecompressCuda(b) ==
  /\ pc = "decompress" /\ job.dec = "cuda" /\ ~IsNull
  /\ b \in (0 .. (tot_blocks - 1)) \ decoded
  /\ DecodeBlock(b, CudaScatter(b))
  /\ pc' = IF Cardinality(decoded) + 1 = tot_blocks THEN "done" ELSE pc
  /\ UNCHANGED <<job, origin, stream, reads>>
\* Non-contiguous host memory is not supported: nothing is done.
RefuseCuda ==
  /\ \/ pc = "compress" /\ job.enc = "cuda"
     \/ pc = "decompress" /\ job.dec = "cuda"
  /\ IsNull
  /\ pc' = "refused"
  /\ UNCHANGED <<job, origin, stream, reads, decoded, out, writes>>

Step ==
  \/ CompressSerial \/ DecompressSerial \/ RefuseCuda
  \/ \E b \in 0 .. (Blocks - 1) : CompressOmp(b)
  \/ \E b \in 0 .. (tot_blocks - 1) : CompressCuda(b) \/ DecompressCuda(b)
Finished == pc \in {"done", "refused"} /\ UNCHANGED vars
Next == Step \/ Finished
Spec == Init /\ [][Next]_vars

-----------------------------------------------------------------------------
\* The elements of the field by position, and the block and the cell of each.
Positions == { e \in [1 .. d -> 0 .. (Max({ n[i] : i \in 1 .. d }) - 1)] : \A i \in 1 .. d : e[i] < n[i] }
Pointers == { At(e) : e \in Positions }
BlockOf(e) ==
  LET by(i) == IF i > d THEN 0 ELSE e[i] \div 4
      bs(i) == IF i > d THEN 1 ELSE BlocksAlong(i)
  IN  by(1) + bs(1) * (by(2) + bs(2) * (by(3) + bs(3) * by(4)))
CellOf(e) == FoldSet(LAMBDA i, sum : sum + (e[i] % 4) * 4 ^ (i - 1), 0, 1 .. d)

\* Whatever the engine and the strides, block b holds the elements that belong to it, each in
\* its cell, and nothing but elements of the same block beside them: no loop, origin or walk
\* skips an element, takes one twice, or leaves an entry of a partial block unset.
BlocksHoldTheirElements ==
  /\ \A b \in DOMAIN reads :
       LET own == { e \in Positions : BlockOf(e) = b }
       IN  /\ \A e \in own : reads[b][CellOf(e)] = At(e)
           /\ { reads[b][j] : j \in DOMAIN reads[b] } = { At(e) : e \in own }
  /\ pc = "decompress" => DOMAIN reads = 0 .. (Blocks - 1)

\* A field compressed by any engine and decompressed by any other is the field: every element
\* is written once, with its value, and no other memory is.
RoundTrip ==
  /\ \A p \in DOMAIN out : out[p] = Value(p)
  /\ DOMAIN out \subseteq Pointers
  /\ writes = Cardinality(DOMAIN out)
  /\ pc = "done" => DOMAIN out = Pointers

\* GPU kernels access the part of the field that was copied to the device, and nothing else.
OnDevice ==
  LET copied == IF is_contigous THEN imin .. (imin + Size - 1) ELSE {}
  IN  /\ job.enc = "cuda" => \A b \in DOMAIN reads : \A j \in DOMAIN reads[b] : reads[b][j] \in copied
      /\ job.dec = "cuda" => DOMAIN out \subseteq copied
=============================================================================
