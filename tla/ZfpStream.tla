----------------------------- MODULE ZfpStream -----------------------------
(***************************************************************************)
(* A program that uses one zfp_stream and one zfp_field: it sets           *)
(* parameters and execution policy, writes and reads headers, compresses   *)
(* and decompresses, in any order that the API allows.                     *)
(*                                                                         *)
(* The bit stream is a sequence of items, a header or the blocks of a      *)
(* field, with a cursor between them.  Stored streams may come back        *)
(* damaged.  Allocation of execution parameters is assumed to succeed (the *)
(* code does not test it).                                                 *)
(***************************************************************************)
EXTENDS ZfpApi

CONSTANTS
  Backends,       \* the builds considered: "none", "cuda", "metal"
  ParamChoices,   \* arguments of zfp_stream_set_params
  RateChoices,    \* bits per block asked of zfp_stream_set_rate
  PrecChoices,    \* arguments of zfp_stream_set_precision
  ExpChoices,     \* exponents of tolerances
  FieldChoices,   \* fields: type, extents and strides
  DamagedWords,   \* mode words that damage may leave in a header
  Masks,          \* header masks: sets of "magic", "meta" and "mode"
  MaxItems        \* bound on the items of a stream

VARIABLES
  backend,        \* the GPU back end of the build
  params,         \* zfp_stream: minbits, maxbits, maxprec, minexp
  exec,           \* zfp_stream.exec: policy, and params: 0 is NULL, else an address
  heap,           \* the zfp_exec_params_omp at each allocated address
  field,          \* the zfp_field
  items,          \* contents of the bit stream
  pos,            \* items before the cursor; Len(items) + 1 after a failed read
  source,         \* history: the header that params and field were read from, or NoItem
  result          \* what the last call returned: zero or not

vars == <<backend, params, exec, heap, field, items, pos, source, result>>

NoItem == [kind |-> "none"]
FullMask == {"magic", "meta", "mode"}

ASSUME StreamAssumption ==
  /\ ParamChoices \subseteq Params
  /\ RateChoices \subseteq Nat \ {0}
  /\ PrecChoices \subseteq Nat
  /\ ExpChoices \subseteq Int
  /\ DamagedWords \subseteq Words
  /\ Masks \subseteq SUBSET FullMask
  /\ \A f \in FieldChoices :
       /\ f.type \in ScalarTypes
       /\ f.n \in [1 .. 4 -> Nat] /\ f.s \in [1 .. 4 -> Int]

Init ==
  /\ backend \in Backends
  /\ params = zfp_stream_open
  /\ exec = [policy |-> "serial", params |-> 0]
  /\ heap = <<>>
  /\ field = zfp_field_alloc
  /\ items = <<>> /\ pos = 0
  /\ source = NoItem /\ result = 0

-----------------------------------------------------------------------------
\* Parameters and the field.

ChangeParams(q) ==
  /\ params' = q
  /\ source' = NoItem
  /\ UNCHANGED <<backend, exec, heap, field, items, pos>>

UseReversible == ChangeParams(SetReversible) /\ result' = 1
UseRate ==
  \E bits \in RateChoices, align \in BOOLEAN :
    ChangeParams(SetRate(bits, field.type, align)) /\ result' = 1
UsePrecision ==
  \E precision \in PrecChoices : ChangeParams(SetPrecision(precision)) /\ result' = 1
UseAccuracy ==
  \E emin \in ExpChoices : ChangeParams(SetAccuracy(emin)) /\ result' = 1
UseParams ==
  \E q \in ParamChoices :
    ChangeParams(SetParams(params, q)) /\ result' = IF Valid(q) THEN 1 ELSE 0

ChooseField ==
  /\ \E f \in FieldChoices :
       field' = SetStride(SetSize(SetType(field, f.type), f.n), f.s)
  /\ source' = NoItem
  /\ UNCHANGED <<backend, params, exec, heap, items, pos, result>>

-----------------------------------------------------------------------------
\* Execution policy.

\* An address that malloc may return: at most one block is ever live.
NewAddress(x) == CHOOSE a \in 1 .. 2 : a \notin DOMAIN x.heap
Without(h, a) == [b \in DOMAIN h \ {a} |-> h[b]]
With(h, a, value) == [b \in DOMAIN h \cup {a} |-> IF b = a THEN value ELSE h[b]]

\* The policy and the allocations x after zfp_stream_set_execution.
\* Mutant: parameters are freed but the pointer to them is kept.
SetExecutionDangling(x, policy) ==
  IF x.exec.policy = policy THEN x
  ELSE [exec |-> [policy |-> policy, params |-> x.exec.params],
        heap |-> Without(x.heap, x.exec.params)]
SetExecution(x, policy) ==
  IF x.exec.policy = policy THEN x
  ELSE IF policy = "omp"
  THEN [exec |-> [policy |-> policy, params |-> NewAddress(x)],
        heap |-> With(Without(x.heap, x.exec.params), NewAddress(x),
                      [threads |-> 0, chunk_size |-> 0])]
  ELSE [exec |-> [policy |-> policy, params |-> 0],
        heap |-> Without(x.heap, x.exec.params)]

Execution == [exec |-> exec, heap |-> heap]
Available(policy) ==
  \/ policy = "serial"
  \/ policy = "omp" /\ WithOmp
  \/ policy = "cuda" /\ backend # "none"

UseExecution(policy) ==
  LET x == IF Available(policy) THEN SetExecution(Execution, policy) ELSE Execution
  IN  /\ exec' = x.exec /\ heap' = x.heap
      /\ result' = IF Available(policy) THEN 1 ELSE 0
      /\ UNCHANGED <<backend, params, field, items, pos, source>>

\* zfp_stream_set_omp_threads and zfp_stream_set_omp_chunk_size.
UseOmp(member) ==
  LET x == SetExecution(Execution, "omp")
  IN  /\ IF WithOmp
         THEN exec' = x.exec /\ heap' = [x.heap EXCEPT ![x.exec.params][member] = 1]
         ELSE UNCHANGED <<exec, heap>>
      /\ result' = IF WithOmp THEN 1 ELSE 0
      /\ UNCHANGED <<backend, params, field, items, pos, source>>

-----------------------------------------------------------------------------
\* Headers.

\* A header goes to the beginning of the stream.
WriteHeader(mask) ==
  /\ pos = 0
  /\ IF "meta" \in mask /\ FieldMetadata(field) = MetaNull
     THEN result' = 0 /\ UNCHANGED <<items, pos>>
     ELSE /\ items' = <<[kind |-> "header", mask |-> mask, damaged |-> FALSE,
                         meta |-> FieldMetadata(field), word |-> StreamMode(params),
                         params |-> params, field |-> field]>>
          /\ pos' = 1
          /\ result' = IF mask = {} THEN 0 ELSE 1
  /\ UNCHANGED <<backend, params, exec, heap, field, source>>

\* A stored stream comes back with another mode word.
Damage ==
  /\ pos = 0 /\ items # <<>> /\ items[1].kind = "header"
  /\ \E w \in DamagedWords :
       items' = [items EXCEPT ![1].word = w, ![1].damaged = TRUE]
  /\ UNCHANGED <<backend, params, exec, heap, field, pos, source, result>>

Rewind ==
  /\ pos' = 0
  /\ UNCHANGED <<backend, params, exec, heap, field, items, source, result>>

\* The item that is read is not a header: the magic word differs.
ReadNoHeader(mask) ==
  /\ pos < Len(items) /\ items[pos + 1].kind # "header" /\ "magic" \in mask
  /\ result' = 0 /\ pos' = Len(items) + 1
  /\ UNCHANGED <<backend, params, exec, heap, field, items, source>>

ReadHeader ==
  /\ pos < Len(items) /\ items[pos + 1].kind = "header"
  /\ LET h == items[pos + 1]
         fails == "mode" \in h.mask /\ SetModeFails(params, h.word)
     IN  /\ field' = IF "meta" \in h.mask THEN SetMetadata(field, h.meta) ELSE field
         /\ params' = IF "mode" \in h.mask THEN SetMode(params, h.word) ELSE params
         /\ source' = IF fails \/ h.mask # FullMask THEN NoItem ELSE h
         /\ pos' = IF fails THEN Len(items) + 1 ELSE pos + 1
         /\ result' = IF fails \/ h.mask = {} THEN 0 ELSE 1
  /\ UNCHANGED <<backend, exec, heap, items>>

-----------------------------------------------------------------------------
(***************************************************************************)
(* Compression.  A null routine returns zero.  The GPU routines do nothing *)
(* when they do not support the mode or the layout.  The CUDA back end     *)
(* writes at the beginning of the stream wherever the cursor is.  The      *)
(* Metal back end makes the policy serial, compresses, and restores the    *)
(* policy.                                                                 *)
(***************************************************************************)
\* The policy and the allocations after a call of the routine.
\* Mutant: the fallback to the host leaves the policy serial.
AfterRoutineSerial(routine) ==
  IF routine = "cuda" /\ backend = "metal" THEN SetExecution(Execution, "serial") ELSE Execution
AfterRoutine(routine) ==
  IF routine = "cuda" /\ backend = "metal"
  THEN SetExecution(SetExecution(Execution, "serial"), exec.policy) ELSE Execution

\* Does the call of the routine do nothing?
Idle(routine) ==
  routine = "NULL" \/ (routine = "cuda" /\ ~ GpuSupports(params, field))

\* The contents after the blocks of a field are written behind the first start items.
WriteBlocks(start) == Append(SubSeq(items, 1, start), [kind |-> "blocks"])

Compress ==
  /\ Dimensionality(field) > 0 /\ pos < MaxItems /\ pos <= Len(items)
  /\ LET routine == CompressTable(backend, exec.policy, Dimensionality(field))
         start == IF routine = "cuda" /\ backend = "cuda" THEN 0 ELSE pos
         after == AfterRoutine(routine)
     IN  /\ items' = IF Idle(routine) THEN items ELSE WriteBlocks(start)
         /\ pos' = IF Idle(routine) THEN pos ELSE start + 1
         /\ result' = IF routine = "NULL" \/ pos' = 0 THEN 0 ELSE 1
         /\ exec' = after.exec /\ heap' = after.heap
  /\ UNCHANGED <<backend, params, field, source>>

\* The caller has the parameters and the field of the blocks, and as the CUDA
\* back end knows no headers it does not read one before them.
Decompress ==
  /\ Dimensionality(field) > 0
  /\ pos < Len(items) /\ items[pos + 1].kind = "blocks"
  /\ LET routine == DecompressTable(backend, exec.policy, Dimensionality(field))
         after == AfterRoutine(routine)
     IN  /\ routine = "cuda" /\ backend = "cuda" => pos = 0
         /\ pos' = IF Idle(routine) THEN pos ELSE pos + 1
         /\ result' = IF routine = "NULL" \/ pos' = 0 THEN 0 ELSE 1
         /\ exec' = after.exec /\ heap' = after.heap
  /\ UNCHANGED <<backend, params, field, items, source>>

Next ==
  \/ UseReversible \/ UseRate \/ UsePrecision \/ UseAccuracy \/ UseParams
  \/ ChooseField
  \/ \E policy \in Policies : UseExecution(policy)
  \/ \E member \in {"threads", "chunk_size"} : UseOmp(member)
  \/ \E mask \in Masks : WriteHeader(mask) \/ ReadNoHeader(mask)
  \/ ReadHeader \/ Damage \/ Rewind \/ Compress \/ Decompress

Spec == Init /\ [][Next]_vars

-----------------------------------------------------------------------------
\* Does the header describe the field?  It does not describe one without a type or
\* without extents, and the reader keeps 32 bits of an extent.
Describable(f) == IsSet(f) /\ Readable(f)

(***************************************************************************)
(* "The stream and field data structures are populated with the            *)
(* information stored in the header" (high-level-api.rst): as long as the  *)
(* program changes neither, they make the coder do what it did when the    *)
(* header was written.  Parameters pass through 12 or 64 bits and come     *)
(* back changed, but never in a way that matters to the coder; a field     *)
(* that a header can describe comes back without strides.                  *)
(***************************************************************************)
HeaderFaithful ==
  (source # NoItem /\ ~ source.damaged) =>
    /\ Effective(params) = Effective(source.params)
    /\ Describable(source.field) =>
         field = [source.field EXCEPT !.s = NoExtents]

(***************************************************************************)
(* No sequence of calls, and no header however damaged, gives a stream     *)
(* parameters that zfp_stream_compression_mode calls invalid, with which   *)
(* the coder would compute negative numbers of bits.                       *)
(***************************************************************************)
ParamsUsable == CompressionMode(params) # "null"

(***************************************************************************)
(* Execution parameters are allocated exactly while the policy is OpenMP   *)
(* (zfp_stream_omp_threads dereferences the pointer under that policy),    *)
(* and what is allocated is what the stream points to: none leaks and none *)
(* is used after it is freed, whatever the order of policy changes and     *)
(* fallbacks.                                                              *)
(***************************************************************************)
ExecParamsOwned ==
  /\ DOMAIN heap = {exec.params} \ {0}
  /\ exec.policy = "omp" <=> exec.params # 0

\* Reading, writing and moving in the stream leaves the execution policy and its
\* parameters as the program set them, the fallback of the Metal back end included.
PolicyKept == [][items' # items \/ pos' # pos => exec' = exec /\ heap' = heap]_vars

(***************************************************************************)
(* "If the decoded compression parameters are invalid, they are not set"   *)
(* (high-level-api.rst): a read that fails leaves the parameters alone.    *)
(***************************************************************************)
FailedReadKeepsParams ==
  [][pos' # pos /\ pos' = Len(items) + 1 => params' = params]_vars
=============================================================================
