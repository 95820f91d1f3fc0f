----------------------------- MODULE LossyArray -----------------------------
(***************************************************************************)
(* What a compressed array promises to its user (docs/source/arrays.rst):  *)
(* a one-dimensional array of nx elements, organised in blocks of          *)
(* BlockSize elements, whose elements can be read and written one at a     *)
(* time, with one concession to compression: at any moment the array may   *)
(* "save" some of its blocks, after which those blocks read as what the    *)
(* codec makes of them.  The last saved version is what remains when the   *)
(* unsaved modifications are thrown away.                                  *)
(*                                                                         *)
(* There is no cache here.  Module BlockCache is shown to implement this   *)
(* specification.                                                          *)
(***************************************************************************)
EXTENDS Integers

CONSTANTS
  BlockSize,        \* elements per block (4 in 1D)
  Sizes,            \* numbers of elements the array may have
  Value,            \* scalar values
  Zero,             \* the value of a zero-initialised element
  Inputs(_),        \* Inputs(n): the arrays of n elements assigned as a whole
  Rates,            \* compression rates
  Codec(_, _, _),   \* Codec(rate, width, block): the block as it is decoded
                    \* after being encoded at this rate; only the first
                    \* width elements of a partial block take part
  NoValue           \* the result of an operation that reads nothing

VARIABLES
  nx,               \* number of elements
  rate,             \* current compression rate
  content,          \* content[i]: element i as the user sees it
  saved,            \* saved[i]: element i as the last save left it
  ret               \* what the last operation returned: the elements read,
                    \* or NoValue when it was not a read

vars == <<nx, rate, content, saved, ret>>

Elements(n) == 0 .. (n - 1)
BlockOf(i) == i \div BlockSize
Blocks(n) == 0 .. ((n + BlockSize - 1) \div BlockSize) - 1

\* The number of elements of block b that lie inside an array of n elements.
WidthOf(n, b) ==
  IF n - b * BlockSize < BlockSize THEN n - b * BlockSize ELSE BlockSize

\* The block b of an array a of n elements, filled up with Zero.
BlockAt(n, a, b) ==
  [k \in 0 .. (BlockSize - 1) |->
     IF k < WidthOf(n, b) THEN a[b * BlockSize + k] ELSE Zero]

\* Element i after the codec has seen the array a.
Coded(a, i) ==
  Codec(rate, WidthOf(nx, BlockOf(i)), BlockAt(nx, a, BlockOf(i)))
    [i % BlockSize]

Init ==
  /\ nx \in Sizes
  /\ rate \in Rates
  /\ content = [i \in Elements(nx) |-> Zero]
  /\ saved = content
  /\ ret = NoValue

(***************************************************************************)
(* The user sees the array a, except that any blocks outside Kept may have *)
(* been saved.  The saved version of the other blocks stays as it was.     *)
(***************************************************************************)
ElementsOf(b) == {i \in Elements(nx) : BlockOf(i) = b}

Show(a, Kept) ==
  /\ UNCHANGED <<nx, rate>>
  /\ \A b \in Blocks(nx) :
       \/ \A i \in ElementsOf(b) : content'[i] = a[i] /\ saved'[i] = saved[i]
       \/ /\ b \notin Kept
          /\ \A i \in ElementsOf(b) :
               content'[i] = Coded(a, i) /\ saved'[i] = Coded(a, i)
  /\ content' \in [Elements(nx) -> Value]
  /\ saved' \in [Elements(nx) -> Value]

\* Reading an element returns it; other blocks may be saved on the way.
Read(i) ==
  /\ ret' = [j \in {i} |-> content[i]]
  /\ Show(content, {BlockOf(i)})

ReadAll ==
  /\ ret' = content
  /\ UNCHANGED <<nx, rate, content, saved>>

\* The block of an element that has just been written is not saved yet.
Write(i, v) ==
  /\ ret' = NoValue
  /\ Show([content EXCEPT ![i] = v], {BlockOf(i)})

\* Writing the whole array saves some of its blocks and not others.
WriteAll(a) ==
  /\ ret' = NoValue
  /\ Show(a, {})

Save ==
  /\ ret' = NoValue
  /\ Show(content, {})

\* Forgetting the modifications made since the last save.
Discard ==
  /\ content' = saved
  /\ ret' = NoValue
  /\ UNCHANGED <<nx, rate, saved>>

\* A new rate or a new size: all data are lost.
Reset(n, r) ==
  /\ nx' = n
  /\ rate' = r
  /\ saved' \in [Elements(n) -> Value]
  /\ content' = saved'
  /\ ret' = NoValue

Next ==
  \/ \E i \in Elements(nx) : Read(i) \/ \E v \in Value : Write(i, v)
  \/ ReadAll
  \/ \E a \in Inputs(nx) : WriteAll(a)
  \/ Save
  \/ Discard
  \/ \E n \in Sizes, r \in Rates : Reset(n, r)

Spec == Init /\ [][Next]_vars
=============================================================================
