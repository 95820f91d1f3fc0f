------------------------------ MODULE ZfpTool ------------------------------
(***************************************************************************)
(* The command-line tool: invocations, one after the other, that share a   *)
(* compressed file and an output file.  Each step of main() is an action;  *)
(* any file operation or allocation may fail, and every failure ends the   *)
(* invocation.                                                             *)
(*                                                                         *)
(* The array in the input file is abstract: what matters is which field    *)
(* and which parameters blocks were encoded and decoded with.              *)
(***************************************************************************)
EXTENDS ZfpApi

CONSTANTS
  Commands,       \* command lines: sequences of arguments
  Backends,       \* the builds considered: "none", "cuda", "metal"
  FirstBuffer,    \* bits of the buffer before a compressed file is read: 0x100 bytes
  MaxRuns         \* bound on the number of invocations

\* The arguments that main() parses; one with a missing or malformed operand, or an
\* unknown one, is "?".  A dimension that is not given is 1.
ModeArguments ==
  [letter : {"R"}] \cup [letter : {"a"}, minexp : Int] \cup [letter : {"p"}, precision : Nat]
    \cup [letter : {"r"}, bits : Nat] \cup [letter : {"c"}, params : Params]
Arguments ==
  [flag : {"?", "h", "i", "z", "o", "s"}]
    \cup [flag : {"type"}, type : ScalarTypes]
    \cup [flag : {"dims"}, dims : 1 .. 4, n : [1 .. 4 -> Nat]]
    \cup [flag : {"exec"}, exec : Policies]
    \cup [flag : {"mode"}, mode : ModeArguments]

ASSUME ToolAssumption ==
  /\ FirstBuffer \in Nat \ {0} /\ MaxRuns \in Nat
  /\ Commands \subseteq Seq(Arguments)

VARIABLES
  backend,        \* the GPU back end of the build
  pc,             \* the step of main() that is next, or "idle"
  argv,           \* arguments that are still to be parsed
  opt,            \* options parsed so far
  job,            \* local variables of main()
  zfile, ofile,   \* the compressed file and the output file, Absent or a record
  status,         \* exit status of the last invocation
  runs            \* number of invocations so far

vars == <<backend, pc, argv, opt, job, zfile, ofile, status, runs>>

Absent == [kind |-> "absent"]

-----------------------------------------------------------------------------
\* Arguments and options.

NoOptions ==
  [type |-> "none", dims |-> 0, n |-> NoExtents, mode |-> [letter |-> "none"],
   header |-> FALSE, in |-> FALSE, z |-> FALSE, out |-> FALSE, stats |-> FALSE,
   exec |-> "serial"]

WithOption(o, a) ==
  CASE a.flag = "dims"  -> [o EXCEPT !.dims = a.dims, !.n = a.n]
    [] a.flag = "mode"  -> [o EXCEPT !.mode = a.mode]
    [] a.flag = "type"  -> [o EXCEPT !.type = a.type]
    [] a.flag = "exec"  -> [o EXCEPT !.exec = a.exec]
    [] a.flag = "h" -> [o EXCEPT !.header = TRUE]
    [] a.flag = "i" -> [o EXCEPT !.in = TRUE]
    [] a.flag = "z" -> [o EXCEPT !.z = TRUE]
    [] a.flag = "o" -> [o EXCEPT !.out = TRUE]
    [] a.flag = "s" -> [o EXCEPT !.stats = TRUE]

\* The product of the extents, those that are not given being 1.
Count(o) ==
  IF o.dims = 0 THEN 0 ELSE o.n[1] * o.n[2] * o.n[3] * o.n[4]

Inconsistent(o) ==
  \/ Count(o) = 0 /\ o.dims # 0
  \/ ~ o.in /\ ~ o.z
  \/ (o.type = "none" \/ o.dims = 0 \/ o.mode.letter = "none") /\ (o.in \/ ~ o.header)
  \/ o.stats /\ ~ o.in
  \/ ~ o.in /\ o.z /\ o.header /\ (o.type # "none" \/ o.dims # 0)

-----------------------------------------------------------------------------
\* Local variables: the zfp_field and zfp_stream, the bit stream with its
\* cursor, sizes in bits, and what the two arrays fi and fo hold.

NoJob ==
  [field |-> zfp_field_alloc, params |-> zfp_stream_open, policy |-> "serial",
   items |-> <<>>, pos |-> 0, bufsize |-> 0, zfpsize |-> 0,
   fo |-> Absent]

Exit(s) ==
  /\ pc' = "idle" /\ status' = s
  /\ argv' = <<>> /\ opt' = NoOptions /\ job' = NoJob
Fail == Exit("failure") /\ UNCHANGED <<backend, zfile, ofile, runs>>
Goto(label) == pc' = label /\ UNCHANGED <<backend, status, runs>>

Init ==
  /\ backend \in Backends
  /\ pc = "idle" /\ argv = <<>> /\ opt = NoOptions /\ job = NoJob
  /\ zfile = Absent /\ ofile = Absent /\ status = "none" /\ runs = 0

Start ==
  /\ pc = "idle" /\ runs < MaxRuns
  /\ \E c \in Commands : argv' = c
  /\ pc' = "parse" /\ status' = "none" /\ runs' = runs + 1
  /\ UNCHANGED <<backend, opt, job, zfile, ofile>>

Parse ==
  /\ pc = "parse" /\ argv # <<>> /\ Head(argv).flag # "?"
  /\ opt' = WithOption(opt, Head(argv)) /\ argv' = Tail(argv)
  /\ Goto("parse") /\ UNCHANGED <<job, zfile, ofile>>

\* usage() exits.
ParseFails == pc = "parse" /\ argv # <<>> /\ Head(argv).flag = "?" /\ Fail

Check ==
  /\ pc = "parse" /\ argv = <<>>
  /\ IF Inconsistent(opt) THEN Fail
     ELSE /\ Goto(IF opt.in THEN "setup" ELSE "read")
          /\ job' = [job EXCEPT !.bufsize = FirstBuffer]
          /\ UNCHANGED <<argv, opt, zfile, ofile>>

\* A file that cannot be opened, read or written, or memory that is exhausted.
IOFails == pc \in {"setup", "read", "compress", "store", "decode", "output"} /\ Fail

\* What got bits of the compressed file hold: the last item is of no use when it is cut off.
Contents(got) ==
  IF got = zfile.size THEN zfile.items ELSE SubSeq(zfile.items, 1, Len(zfile.items) - 1)

\* One pass of the loop that reads the compressed file in increasingly large chunks.
\* Mutant: reads one chunk.
ReadChunkShort ==
  /\ pc = "read" /\ zfile # Absent
  /\ LET size == 2 * job.bufsize
         got == Lesser(zfile.size, size)
     IN  /\ job' = [job EXCEPT !.bufsize = size, !.zfpsize = got, !.items = Contents(got)]
         /\ Goto("setup")
  /\ UNCHANGED <<argv, opt, zfile, ofile>>
ReadChunk ==
  /\ pc = "read" /\ zfile # Absent
  /\ LET size == 2 * job.bufsize
         got == Lesser(zfile.size, size)
     IN  /\ job' = [job EXCEPT !.bufsize = size, !.zfpsize = got, !.items = Contents(got)]
         /\ Goto(IF got = size THEN "read" ELSE "setup")
  /\ UNCHANGED <<argv, opt, zfile, ofile>>

-----------------------------------------------------------------------------
\* Set up the field, the parameters and the execution policy.

Sizes(o) == [i \in 1 .. 4 |-> IF i <= o.dims THEN o.n[i] ELSE 0]
ModeParams(o) ==
  CASE o.mode.letter = "R" -> SetReversible
    [] o.mode.letter = "a" -> SetAccuracy(o.mode.minexp)
    [] o.mode.letter = "p" -> SetPrecision(o.mode.precision)
    [] o.mode.letter = "r" -> SetRate(o.mode.bits, o.type, FALSE)
    [] o.mode.letter = "c" ->
         [o.mode.params EXCEPT
            !.maxbits = IF @ = 0 THEN MAX_BITS ELSE @,
            !.maxprec = IF @ = 0 THEN 8 * TypeSize(o.type) ELSE @]

\* Does main() set field and parameters from the options?
FromOptions(o) == o.in \/ ~ o.header
Available(policy) ==
  \/ policy = "serial"
  \/ policy = "omp" /\ WithOmp
  \/ policy = "cuda" /\ backend # "none"

Setup ==
  /\ pc = "setup"
  /\ IF \/ FromOptions(opt) /\ opt.mode.letter = "c" /\ ~ Valid(ModeParams(opt))
        \/ ~ Available(opt.exec)
     THEN Fail
     ELSE /\ job' = [job EXCEPT
                !.field = IF FromOptions(opt) THEN SetSize(SetType(@, opt.type), Sizes(opt)) ELSE @,
                !.params = IF FromOptions(opt) THEN ModeParams(opt) ELSE @,
                !.policy = opt.exec]
          /\ Goto(IF opt.in THEN "compress" ELSE "decode")
          /\ UNCHANGED <<argv, opt, zfile, ofile>>

-----------------------------------------------------------------------------
(***************************************************************************)
(* Compression.  A block takes at least one bit and at most what           *)
(* zfp_block_maximum_size says, less the bit planes that maxprec drops.    *)
(***************************************************************************)
HeaderBits(p) == MAGIC_BITS + META_BITS + StreamMode(p).size
BlockBits(p, f) ==
  LET precision == 8 * TypeSize(f.type)
      dropped == precision - Lesser(p.maxprec, precision)
      full == BlockMaximumSize(f.type, Dimensionality(f), IsReversible(p))
                - BlockValues[Dimensionality(f)] * dropped
  IN  { Greater(Lesser(bits, p.maxbits), p.minbits) : bits \in {1, full} }

Header(p, f) ==
  [kind |-> "header", word |-> StreamMode(p), meta |-> FieldMetadata(f)]
Blocks(p, f) == [kind |-> "blocks", params |-> Effective(p), field |-> f]

CompressRoutine(j) == CompressTable(backend, j.policy, Dimensionality(j.field))
DecompressRoutine(j) == DecompressTable(backend, j.policy, Dimensionality(j.field))
\* The routine is called but does nothing: its mode is not supported.
Idle(routine, j) == routine = "cuda" /\ ~ GpuSupports(j.params, j.field)

\* zfp_write_header and zfp_compress into a new buffer.
Compress ==
  /\ pc = "compress"
  /\ LET p == job.params
         f == job.field
         routine == CompressRoutine(job)
         header == IF opt.header THEN <<Header(p, f)>> ELSE <<>>
         kept == IF routine = "cuda" /\ backend = "cuda" THEN <<>> ELSE header
     IN  IF \/ opt.header /\ FieldMetadata(f) = MetaNull
            \/ routine = "NULL"
            \/ Idle(routine, job) /\ header = <<>>
         THEN Fail
         ELSE /\ \E bits \in BlockBits(p, f) :
                   job' = [job EXCEPT
                     !.bufsize = MaximumSize(p, f),
                     !.items = IF Idle(routine, job) THEN header ELSE Append(kept, Blocks(p, f)),
                     !.pos = 0,
                     !.zfpsize =
                       IF Idle(routine, job) THEN RoundUp(HeaderBits(p), WordBits)
                       ELSE RoundUp((IF kept = <<>> THEN 0 ELSE HeaderBits(p)) + FieldBlocks(f) * bits,
                                    WordBits)]
              /\ Goto("store")
              /\ UNCHANGED <<argv, opt, zfile, ofile>>

\* Decompress when there is a file or statistics to make, or only a compressed file.
Decodes(o) == ~ o.in \/ o.out \/ o.stats

\* A compressed file; complete is history: the invocation that wrote it went on.
FileOf(items, size, complete) ==
  [kind |-> "file", items |-> items, size |-> size, complete |-> complete]

\* Write the compressed file if one is named; a failed write may leave part of it.
StoreFile ==
  /\ pc = "store"
  /\ zfile' = IF opt.z THEN FileOf(job.items, job.zfpsize, TRUE) ELSE zfile
  /\ IF Decodes(opt)
     THEN Goto("decode") /\ UNCHANGED <<argv, opt, job, ofile>>
     ELSE Exit("success") /\ UNCHANGED <<backend, ofile, runs>>
StoreFails ==
  /\ pc = "store" /\ opt.z
  /\ \E k \in 0 .. (Len(job.items) - 1) :
       zfile' = FileOf(SubSeq(job.items, 1, k), k * HEADER_MAX_BITS, FALSE)
  /\ Exit("failure") /\ UNCHANGED <<backend, ofile, runs>>

-----------------------------------------------------------------------------
\* Decompression.

HeaderFollows(j) == j.items # <<>> /\ Head(j.items).kind = "header"

\* zfp_read_header with a full mask.
ReadHeader(j) ==
  [j EXCEPT !.field = SetMetadata(@, Head(j.items).meta),
            !.params = SetMode(@, Head(j.items).word), !.pos = 1]

DecodeHeader ==
  /\ pc = "decode" /\ opt.header
  /\ IF ~ HeaderFollows(job) \/ SetModeFails(job.params, Head(job.items).word) THEN Fail
     ELSE job' = ReadHeader(job) /\ Goto("decompress") /\ UNCHANGED <<argv, opt, zfile, ofile>>
DecodeNoHeader ==
  /\ pc = "decode" /\ ~ opt.header
  /\ job' = [job EXCEPT !.pos = 0] /\ Goto("decompress") /\ UNCHANGED <<argv, opt, zfile, ofile>>

\* What the array holds after decoding at the cursor: blocks that are decoded with
\* another field or other parameters, or no blocks, give noise.
Noise == [kind |-> "noise"]
Decoded(j) ==
  IF /\ j.pos < Len(j.items) /\ j.items[j.pos + 1].kind = "blocks"
     /\ j.items[j.pos + 1].params = Effective(j.params)
     /\ j.items[j.pos + 1].field = j.field
     /\ DecompressRoutine(j) = "cuda" /\ backend = "cuda" => j.pos = 0
  THEN j.items[j.pos + 1] ELSE Noise

\* One pass of the loop around zfp_decompress: it returns zero when there is no
\* routine, or when nothing was read from the beginning of the stream.
Unsupported(j) ==
  DecompressRoutine(j) = "NULL" \/ (Idle(DecompressRoutine(j), j) /\ j.pos = 0)

\* Mutant: does not look at the policy before it falls back.
FallBackAgain ==
  /\ pc = "decompress" /\ Unsupported(job) /\ opt.in
  /\ Goto("decompress") /\ UNCHANGED <<argv, opt, job, zfile, ofile>>
FallBack ==
  /\ pc = "decompress" /\ Unsupported(job) /\ opt.in /\ job.policy # "serial"
  /\ job' = [job EXCEPT !.policy = "serial"]
  /\ Goto("decompress") /\ UNCHANGED <<argv, opt, zfile, ofile>>
DecompressFails ==
  pc = "decompress" /\ Unsupported(job) /\ ~ (opt.in /\ job.policy # "serial") /\ Fail
Decompress ==
  /\ pc = "decompress" /\ ~ Unsupported(job)
  /\ job' = [job EXCEPT !.fo = IF Idle(DecompressRoutine(job), job) THEN Noise ELSE Decoded(job)]
  /\ Goto("output") /\ UNCHANGED <<argv, opt, zfile, ofile>>

\* Write the output file, print statistics and release everything.
Output ==
  /\ pc = "output"
  /\ ofile' = IF opt.out THEN job.fo ELSE ofile
  /\ Exit("success") /\ UNCHANGED <<backend, zfile, runs>>

Finished == pc = "idle" /\ runs = MaxRuns /\ UNCHANGED vars

Next ==
  \/ Start \/ Parse \/ ParseFails \/ Check \/ IOFails \/ ReadChunk \/ Setup
  \/ Compress \/ StoreFile \/ StoreFails
  \/ DecodeHeader \/ DecodeNoHeader \/ FallBack \/ DecompressFails \/ Decompress \/ Output
  \/ Finished

\* An invocation is one thread: it keeps running.
Step == pc # "idle" /\ Next
Spec == Init /\ [][Next]_vars /\ WF_vars(Step)

-----------------------------------------------------------------------------
(***************************************************************************)
(* When the compressed stream describes itself (-h), or is decompressed by *)
(* the invocation that made it, an invocation that succeeds has            *)
(* decompressed the blocks with the parameters and the field they were     *)
(* compressed with, through a fallback or not, and the file to its end,    *)
(* also when it is as long as a buffer.  (Without -h a user may            *)
(* give the wrong parameters to a second invocation, and the tool cannot   *)
(* tell; nor can it tell that a compressed file ends after its header.)    *)
(***************************************************************************)
OutputFaithful ==
  pc = "output" /\ (opt.in \/ (opt.header /\ zfile.complete)) => job.fo.kind = "blocks"

(***************************************************************************)
(* The buffer that main() allocates holds the header and the blocks        *)
(* whatever their contents: bit streams do not check their capacity.       *)
(***************************************************************************)
BufferFits == pc = "store" => job.zfpsize <= job.bufsize

\* Every invocation ends: the loop that reads the file, and the loop that falls
\* back to serial decompression, do not run for ever.
Terminates == pc # "idle" ~> pc = "idle"
=============================================================================
