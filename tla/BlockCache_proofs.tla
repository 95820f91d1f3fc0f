-------------------------- MODULE BlockCache_proofs --------------------------
(***************************************************************************)
(* Proofs about module BlockCache, for every array size, block size, cache *)
(* size, codec and hash function.                                          *)
(*                                                                         *)
(* The cache invariant is inductive when the array is used as the code can *)
(* handle: no array has more blocks than a tag can index, and a two-way    *)
(* cache is not used with whole-array assignments (TLC refutes the         *)
(* invariant without either condition).                                    *)
(***************************************************************************)
EXTENDS BlockCache, TLAPS

\* Division with remainder by a positive divisor.
LEMMA DivMod ==
  ASSUME NEW n \in Nat, NEW d \in Nat \ {0}
  PROVE  /\ n \div d \in Nat
         /\ n % d \in 0 .. (d - 1)
         /\ n = d * (n \div d) + (n % d)
  OBVIOUS

\* Quotient and remainder are determined by the equation they satisfy.
LEMMA DivModUnique ==
  ASSUME NEW d \in Nat \ {0}, NEW q \in Nat, NEW r \in 0 .. (d - 1)
  PROVE  (d * q + r) \div d = q /\ (d * q + r) % d = r
<1> DEFINE n == d * q + r
           p == n \div d
           t == n % d
<1>1. n \in Nat
  OBVIOUS
<1>2. p \in Nat /\ t \in 0 .. (d - 1) /\ n = d * p + t
  BY <1>1, DivMod
<1>3. d * q + r = d * p + t
  BY <1>2
<1> HIDE DEF n, p, t
<1>4. p = q
  <2>1. CASE p < q
    <3>1. d * p + d <= d * q
      BY <1>2, <2>1
    <3> QED
      BY <1>2, <1>3, <3>1
  <2>2. CASE q < p
    <3>1. d * q + d <= d * p
      BY <1>2, <2>2
    <3> QED
      BY <1>2, <1>3, <3>1
  <2> QED
    BY <1>2, <2>1, <2>2
<1>5. t = r
  BY <1>2, <1>3, <1>4
<1> QED
  BY <1>4, <1>5 DEF n, p, t

SafeUse ==
  /\ \A n \in Sizes : FitsTag(NumBlocks(n))
  /\ TwoWay => \A n \in Sizes : Inputs(n) = {}

CacheInv ==
  TypeOK /\ Placement /\ LinesDefined /\ ModifiedIsDirty /\ NoStrayEncode

-----------------------------------------------------------------------------
(* Division: the block of an element. *)

\* Every element is in a block of the array, at an offset inside the block,
\* and every block of the array has between 1 and BlockSize elements.
LEMMA Shape ==
  ASSUME nx \in Nat
  PROVE  /\ NumBlocks(nx) \in Nat
         /\ \A b \in Blocks : Width(b) \in 1 .. BlockSize
         /\ \A i \in Elements :
              /\ BlockOf(i) \in Blocks
              /\ i % BlockSize \in Offsets
              /\ i % BlockSize < Width(BlockOf(i))
<1> DEFINE p == NumBlocks(nx)
<1>0. BlockSize \in Nat \ {0}
  BY ParametersAssumption
<1>1. /\ p \in Nat
      /\ nx + BlockSize - 1 < BlockSize * p + BlockSize
      /\ BlockSize * p <= nx + BlockSize - 1
  <2>1. nx + BlockSize - 1 \in Nat
    BY <1>0
  <2>2. /\ (nx + BlockSize - 1) \div BlockSize \in Nat
        /\ (nx + BlockSize - 1) % BlockSize \in 0 .. (BlockSize - 1)
        /\ nx + BlockSize - 1 =
             BlockSize * ((nx + BlockSize - 1) \div BlockSize)
               + ((nx + BlockSize - 1) % BlockSize)
    BY <1>0, <2>1, DivMod
  <2> QED
    BY <1>0, <2>1, <2>2 DEF NumBlocks
<1>2. ASSUME NEW b \in Blocks
      PROVE  Width(b) \in 1 .. BlockSize
  <2>1. b \in Nat /\ b + 1 <= p
    BY <1>1 DEF Blocks
  <2>2. b * BlockSize + BlockSize <= BlockSize * p
    BY <1>0, <1>1, <2>1
  <2> QED
    BY <1>0, <1>1, <2>1, <2>2 DEF Width
<1>3. ASSUME NEW i \in Elements
      PROVE  /\ BlockOf(i) \in Blocks
             /\ i % BlockSize \in Offsets
             /\ i % BlockSize < Width(BlockOf(i))
  <2> DEFINE q == BlockOf(i)
  <2>1. i \in Nat /\ i < nx
    BY DEF Elements
  <2>2. /\ q \in Nat
        /\ i % BlockSize \in 0 .. (BlockSize - 1)
        /\ i = BlockSize * q + (i % BlockSize)
    BY <1>0, <2>1, DivMod DEF BlockOf
  <2>3. q < p
    BY <1>0, <1>1, <2>2, <2>1
  <2>4. i % BlockSize < Width(q)
    BY <1>0, <2>2, <2>1 DEF Width
  <2> HIDE DEF p, q
  <2> QED
    BY <1>1, <2>2, <2>3, <2>4 DEF Blocks, Offsets, p, q
<1> QED
  BY <1>1, <1>2, <1>3

-----------------------------------------------------------------------------
(* Slots and tags. *)

\* The line index of a block of the array fits in a tag.
LEMMA TagFits ==
  ASSUME TypeOK, SafeUse, NEW b \in Blocks
  PROVE  /\ b + 1 \in 1 .. (TagLimit - 1)
         /\ \A d \in BOOLEAN : Tag(b + 1, d) = [index |-> b + 1, dirty |-> d]
<1>1. NumBlocks(nx) \in Nat /\ NumBlocks(nx) < TagLimit
  BY Shape, ParametersAssumption DEF TypeOK, SafeUse, FitsTag
<1>2. b + 1 \in 1 .. (TagLimit - 1)
  BY <1>1, ParametersAssumption DEF Blocks
<1>3. (b + 1) % TagLimit = b + 1
  BY <1>2, ParametersAssumption
<1> QED
  BY <1>2, <1>3 DEF Tag

\* A block is looked for in slots of the cache.
LEMMA SlotRange ==
  ASSUME TypeOK, NEW x \in 1 .. (TagLimit - 1)
  PROVE  /\ mask \in Nat
         /\ Primary(x) \in Slots
         /\ Secondary(x) \in Slots
         /\ AccessSlot(x) \in Slots
         /\ AccessSlot(x) = Primary(x) \/ (TwoWay /\ AccessSlot(x) = Secondary(x))
<1>1. mask + 1 \in Nat \ {0} /\ mask + 1 \in PowersOfTwo
  BY LinesAssumption DEF TypeOK
<1>2. mask \in Nat
  BY LinesAssumption DEF TypeOK
<1>3. Primary(x) \in Slots
  BY <1>1, <1>2, ParametersAssumption DEF Primary, Slots
<1>4. Secondary(x) \in Slots
  <2>1. Hash(x, (mask + 1) - 1) \in 0 .. ((mask + 1) - 1)
    BY <1>1, HashAssumption
  <2> QED
    BY <1>2, <2>1 DEF Secondary, Slots
<1> QED
  BY <1>2, <1>3, <1>4, ParametersAssumption DEF AccessSlot

\* A block that access() does not find is in no slot, and a slot that it
\* takes held a block of the array if it was in use.
LEMMA AccessFinds ==
  ASSUME CacheInv, SafeUse, NEW b \in Blocks
  PROVE  /\ AccessSlot(b + 1) \in Slots
         /\ ~Hit(b) => \A t \in Slots : tag[t].index # b + 1
         /\ Hit(b) => \A t \in Slots :
                        tag[t].index = b + 1 => t = AccessSlot(b + 1)
         /\ WritesBack(b) => Victim(b) \in Blocks
<1> DEFINE x == b + 1
           s == AccessSlot(x)
<1>0. TypeOK /\ Placement
  BY DEF CacheInv
<1>1. x \in 1 .. (TagLimit - 1)
  BY <1>0, TagFits
<1>2. /\ Primary(x) \in Slots
      /\ Secondary(x) \in Slots
      /\ s \in Slots
  BY <1>0, <1>1, SlotRange
<1>3. ASSUME NEW t \in Slots, tag[t].index = x
      PROVE  /\ tag[t] # Unused
             /\ t = Primary(x) \/ (TwoWay /\ t = Secondary(x))
             /\ \A u \in Slots : tag[u].index = x => u = t
  <2>1. tag[t] # Unused
    BY <1>1, <1>3 DEF Unused
  <2> QED
    BY <1>0, <1>3, <2>1 DEF Placement
<1>4. ~Hit(b) => \A t \in Slots : tag[t].index # x
  BY <1>2, <1>3 DEF Hit, AccessSlot
<1>5. Hit(b) => \A t \in Slots : tag[t].index = x => t = s
  BY <1>2, <1>3 DEF Hit
<1>6. WritesBack(b) => Victim(b) \in Blocks
  <2>1. tag[s].dirty => tag[s] # Unused
    BY DEF Unused
  <2> QED
    BY <1>0, <1>2, <2>1 DEF WritesBack, Victim, Placement
<1> QED
  BY <1>2, <1>4, <1>5, <1>6

\* The elements of a line in use that lie inside the array are scalars.
LEMMA LineWritten ==
  ASSUME CacheInv, NEW s \in Slots, tag[s] # Unused
  PROVE  /\ tag[s].index - 1 \in Blocks
         /\ Width(tag[s].index - 1) \in 1 .. BlockSize
         /\ Written(Width(tag[s].index - 1), line[s])
<1>1. tag[s].index - 1 \in Blocks
  BY DEF CacheInv, Placement
<1>2. Width(tag[s].index - 1) \in 1 .. BlockSize
  BY <1>1, Shape, ParametersAssumption DEF CacheInv, TypeOK
<1>3. \A k \in 0 .. (Width(tag[s].index - 1) - 1) :
        k \in Offsets /\ line[s][k] # Undef
  BY <1>2, ParametersAssumption DEF CacheInv, LinesDefined, Offsets
<1>4. line[s] \in [Offsets -> Value \cup {Undef}]
  BY DEF CacheInv, TypeOK
<1> QED
  BY <1>1, <1>2, <1>3, <1>4 DEF Written

\* Encoding a line in use as the block of its tag keeps the store's type and
\* touches no other block.
LEMMA EncodeLine ==
  ASSUME CacheInv, NEW s \in Slots, tag[s] # Unused
  PROVE  /\ Encode(tag[s].index - 1, line[s]) \in [Blocks -> [Offsets -> Value]]
         /\ \A c \in Blocks : c # tag[s].index - 1 =>
              Encode(tag[s].index - 1, line[s])[c] = store[c]
<1> DEFINE v == tag[s].index - 1
<1>1. v \in Blocks /\ Width(v) \in 1 .. BlockSize /\ Written(Width(v), line[s])
  BY LineWritten
<1>2. line[s] \in [Offsets -> Value \cup {Undef}] /\ rate \in Rates
  BY DEF CacheInv, TypeOK
<1>3. Codec(rate, Width(v), line[s]) \in [Offsets -> Value]
  BY <1>1, <1>2, CodecAssumption
<1>4. store \in [Blocks -> [Offsets -> Value]]
  BY DEF CacheInv, TypeOK
<1> HIDE DEF v
<1> QED
  BY <1>1, <1>3, <1>4 DEF Encode, v

\* The store after the write-back that an access makes.
LEMMA StoreAfterFacts ==
  ASSUME CacheInv, SafeUse, NEW b \in Blocks
  PROVE  /\ StoreAfter(b) \in [Blocks -> [Offsets -> Value]]
         /\ \A t \in Slots :
              t # AccessSlot(b + 1) /\ tag[t] # Unused =>
                StoreAfter(b)[tag[t].index - 1] = store[tag[t].index - 1]
         /\ Hit(b) => StoreAfter(b) = store
<1> DEFINE s == AccessSlot(b + 1)
<1>1. s \in Slots
  BY AccessFinds
<1>2. store \in [Blocks -> [Offsets -> Value]]
  BY DEF CacheInv, TypeOK
<1>3. CASE WritesBack(b)
  <2>1. tag[s] # Unused
    BY <1>3 DEF WritesBack, Unused
  <2>2. StoreAfter(b) = Encode(tag[s].index - 1, line[s])
    BY <1>3 DEF StoreAfter, Victim
  <2>3. ~Hit(b)
    BY <1>3 DEF WritesBack
  <2>4. ASSUME NEW t \in Slots, t # s, tag[t] # Unused
        PROVE  tag[t].index - 1 \in Blocks /\ tag[t].index - 1 # tag[s].index - 1
    <3>1. tag[t].index # tag[s].index
      BY <1>1, <2>1, <2>4 DEF CacheInv, Placement
    <3>2. tag[t].index \in Nat /\ tag[s].index \in Nat
      BY <1>1, ParametersAssumption DEF CacheInv, TypeOK, TagSet
    <3> QED
      BY <2>4, <3>1, <3>2 DEF CacheInv, Placement
  <2> QED
    BY <1>1, <2>1, <2>2, <2>3, <2>4, EncodeLine
<1>4. CASE ~WritesBack(b)
  BY <1>2, <1>4 DEF StoreAfter
<1> QED
  BY <1>3, <1>4

\* The line that an access returns is a block of scalars, and unless it was
\* cached before it is what the block decodes to.
LEMMA LineAfterFacts ==
  ASSUME CacheInv, SafeUse, NEW b \in Blocks
  PROVE  /\ Width(b) \in 1 .. BlockSize
         /\ LineAfter(b) \in [Offsets -> Value \cup {Undef}]
         /\ \A k \in 0 .. (Width(b) - 1) : LineAfter(b)[k] # Undef
         /\ ~Hit(b) => \A k \in 0 .. (Width(b) - 1) :
                         LineAfter(b)[k] = StoreAfter(b)[b][k]
<1> DEFINE s == AccessSlot(b + 1)
<1>1. s \in Slots
  BY AccessFinds
<1>2. Width(b) \in 1 .. BlockSize /\ \A k \in 0 .. (Width(b) - 1) : k \in Offsets
  BY Shape, ParametersAssumption DEF CacheInv, TypeOK, Offsets
<1>3. line[s] \in [Offsets -> Value \cup {Undef}]
  BY <1>1 DEF CacheInv, TypeOK
<1>4. CASE Hit(b)
  <2>1. tag[s].index = b + 1
    BY <1>4 DEF Hit
  <2>2. b \in Nat
    BY DEF Blocks
  <2>3. tag[s] # Unused /\ tag[s].index - 1 = b
    BY <2>1, <2>2 DEF Unused
  <2> QED
    BY <1>1, <1>2, <1>3, <1>4, <2>3 DEF LineAfter, CacheInv, LinesDefined
<1>5. CASE ~Hit(b)
  <2>1. StoreAfter(b)[b] \in [Offsets -> Value]
    BY StoreAfterFacts
  <2>2. LineAfter(b) = Decode(StoreAfter(b), b, line[s])
    BY <1>5 DEF LineAfter
  <2> QED
    BY <1>2, <1>3, <2>1, <2>2, ParametersAssumption DEF Decode
<1> QED
  BY <1>4, <1>5

-----------------------------------------------------------------------------
(* One step of the specification preserves the cache invariant. *)

\* An access that leaves a block of scalars in the line, modified only if
\* the access was for writing.
LEMMA AccessPreserves ==
  ASSUME CacheInv, SafeUse,
         NEW b \in Blocks, NEW write \in BOOLEAN,
         NEW data \in [Offsets -> Value \cup {Undef}],
         \A k \in 0 .. (Width(b) - 1) : data[k] # Undef,
         ~write => data = LineAfter(b),
         Access(b, write, data)
  PROVE  CacheInv'
<1> DEFINE x == b + 1
           s == AccessSlot(x)
<1>1. /\ nx' = nx /\ rate' = rate /\ mask' = mask
      /\ store' = StoreAfter(b)
      /\ tag' = [tag EXCEPT ![s] = TagAfter(b, write)]
      /\ line' = [line EXCEPT ![s] = data]
      /\ stray' = (stray \/ (WritesBack(b) /\ Victim(b) \notin Blocks))
  BY DEF Access
<1>2. /\ s \in Slots
      /\ ~Hit(b) => \A t \in Slots : tag[t].index # x
      /\ Hit(b) => \A t \in Slots : tag[t].index = x => t = s
      /\ WritesBack(b) => Victim(b) \in Blocks
  BY AccessFinds
<1>3. /\ x \in 1 .. (TagLimit - 1)
      /\ \A d \in BOOLEAN : Tag(x, d) = [index |-> x, dirty |-> d]
      /\ b \in Nat
  BY TagFits DEF CacheInv, Blocks
<1>4. s = Primary(x) \/ (TwoWay /\ s = Secondary(x))
  BY <1>3, SlotRange DEF CacheInv
<1>5. tag \in [Slots -> TagSet]
  BY DEF CacheInv, TypeOK
<1>6. /\ TagAfter(b, write) \in TagSet
      /\ TagAfter(b, write).index = x
      /\ write => TagAfter(b, write).dirty
      /\ ~TagAfter(b, write).dirty => ~write /\ (Hit(b) => ~tag[s].dirty)
  <2>1. CASE ~Hit(b)
    <3>1. TagAfter(b, write) = [index |-> x, dirty |-> write]
      BY <1>3, <2>1 DEF TagAfter
    <3>2. x \in 0 .. (TagLimit - 1)
      BY <1>3
    <3> HIDE DEF x
    <3> QED
      BY <2>1, <3>1, <3>2 DEF TagSet
  <2>2. CASE Hit(b) /\ write
    BY <1>2, <1>5, <2>2 DEF TagAfter, TagSet, Marked, Hit
  <2>3. CASE Hit(b) /\ ~write
    BY <1>2, <1>5, <2>3 DEF TagAfter, TagSet, Hit
  <2> QED
    BY <2>1, <2>2, <2>3
<1>7. /\ Slots' = Slots /\ Blocks' = Blocks
      /\ \A c : Width(c)' = Width(c)
      /\ \A y : Primary(y)' = Primary(y) /\ Secondary(y)' = Secondary(y)
  BY <1>1 DEF Slots, Blocks, Width, Primary, Secondary
<1>8. \A t \in Slots : t # s => tag'[t] = tag[t] /\ line'[t] = line[t]
  BY <1>1, <1>5 DEF CacheInv, TypeOK
<1>9. tag'[s] = TagAfter(b, write) /\ line'[s] = data
  BY <1>1, <1>2, <1>5 DEF CacheInv, TypeOK
<1>10. tag'[s].index = x /\ tag'[s].index - 1 = b
  BY <1>3, <1>6, <1>9
<1>11. TypeOK'
  <2>1. store' \in [Blocks' -> [Offsets -> Value]]
    BY <1>1, <1>7, StoreAfterFacts
  <2>2. tag' \in [Slots' -> TagSet]
    BY <1>1, <1>5, <1>6, <1>7
  <2>3. line' \in [Slots' -> [Offsets -> Value \cup {Undef}]]
    BY <1>1, <1>7 DEF CacheInv, TypeOK
  <2>4. stray' \in BOOLEAN
    BY <1>1 DEF CacheInv, TypeOK
  <2> QED
    BY <1>1, <2>1, <2>2, <2>3, <2>4 DEF CacheInv, TypeOK
<1>12. Placement'
  <2>1. ASSUME NEW t \in Slots, tag'[t] # Unused
        PROVE  /\ tag'[t].index - 1 \in Blocks
               /\ \/ t = Primary(tag'[t].index)
                  \/ TwoWay /\ t = Secondary(tag'[t].index)
               /\ \A u \in Slots : tag'[u].index = tag'[t].index => u = t
    <3>1. CASE t = s
      BY <1>2, <1>4, <1>8, <1>10, <3>1
    <3>2. CASE t # s
      <4>1. tag'[t] = tag[t] /\ tag[t] # Unused
        BY <1>8, <2>1, <3>2
      <4>2. tag[t].index # x
        BY <1>2, <3>2
      <4> QED
        BY <1>8, <1>10, <3>2, <4>1, <4>2 DEF CacheInv, Placement
    <3> QED
      BY <3>1, <3>2
  <2> QED
    BY <1>7, <2>1 DEF Placement
<1>13. LinesDefined'
  <2>1. ASSUME NEW t \in Slots, tag'[t] # Unused,
               NEW k \in 0 .. (Width(tag'[t].index - 1) - 1)
        PROVE  line'[t][k] # Undef
    BY <1>8, <1>9, <1>10, <2>1 DEF CacheInv, LinesDefined
  <2> QED
    BY <1>7, <2>1 DEF LinesDefined
<1>14. ModifiedIsDirty'
  <2>1. ASSUME NEW t \in Slots, tag'[t] # Unused, ~tag'[t].dirty,
               NEW k \in 0 .. (Width(tag'[t].index - 1) - 1)
        PROVE  line'[t][k] = store'[tag'[t].index - 1][k]
    <3>1. CASE t # s
      <4>1. tag'[t] = tag[t] /\ line'[t] = line[t]
        BY <1>8, <3>1
      <4>2. store'[tag[t].index - 1] = store[tag[t].index - 1]
        BY <1>1, <2>1, <3>1, <4>1, StoreAfterFacts
      <4> QED
        BY <2>1, <4>1, <4>2 DEF CacheInv, ModifiedIsDirty
    <3>2. CASE t = s /\ ~Hit(b)
      BY <1>1, <1>6, <1>9, <1>10, <2>1, <3>2, LineAfterFacts
    <3>3. CASE t = s /\ Hit(b)
      <4>1. ~write /\ ~tag[s].dirty
        BY <1>6, <1>9, <2>1, <3>3
      <4>2. tag[s].index = x /\ tag[s].index - 1 = b /\ tag[s] # Unused
        BY <1>3, <3>3 DEF Hit, Unused
      <4>3. line'[s] = line[s] /\ store' = store
        BY <1>1, <1>9, <3>3, <4>1, StoreAfterFacts DEF LineAfter
      <4> QED
        BY <1>2, <1>10, <2>1, <3>3, <4>1, <4>2, <4>3
        DEF CacheInv, ModifiedIsDirty
    <3> QED
      BY <3>1, <3>2, <3>3
  <2> QED
    BY <1>7, <2>1 DEF ModifiedIsDirty
<1>15. NoStrayEncode'
  BY <1>1, <1>2 DEF CacheInv, NoStrayEncode
<1> QED
  BY <1>11, <1>12, <1>13, <1>14, <1>15 DEF CacheInv

LEMMA GetPreserves ==
  ASSUME CacheInv, SafeUse, NEW i \in Elements, Get(i)
  PROVE  CacheInv'
<1>1. BlockOf(i) \in Blocks
  BY Shape, ParametersAssumption DEF CacheInv, TypeOK
<1>2. Access(BlockOf(i), FALSE, LineAfter(BlockOf(i)))
  BY DEF Get
<1>3. /\ LineAfter(BlockOf(i)) \in [Offsets -> Value \cup {Undef}]
      /\ \A k \in 0 .. (Width(BlockOf(i)) - 1) :
           LineAfter(BlockOf(i))[k] # Undef
  BY <1>1, LineAfterFacts
<1> QED
  BY <1>1, <1>2, <1>3, AccessPreserves

LEMMA SetPreserves ==
  ASSUME CacheInv, SafeUse, NEW i \in Elements, NEW v \in Value, Set(i, v)
  PROVE  CacheInv'
<1> DEFINE b == BlockOf(i)
           d == [LineAfter(b) EXCEPT ![i % BlockSize] = v]
<1>1. b \in Blocks /\ i % BlockSize \in Offsets
  BY Shape, ParametersAssumption DEF CacheInv, TypeOK
<1>2. Access(b, TRUE, d)
  BY DEF Set
<1>3. /\ LineAfter(b) \in [Offsets -> Value \cup {Undef}]
      /\ \A k \in 0 .. (Width(b) - 1) : LineAfter(b)[k] # Undef
      /\ Width(b) \in 1 .. BlockSize
  BY <1>1, LineAfterFacts
<1> HIDE DEF b
<1>4. d \in [Offsets -> Value \cup {Undef}]
  BY <1>3
<1>5. \A k \in 0 .. (Width(b) - 1) : d[k] # Undef
  BY <1>3, ParametersAssumption DEF Offsets
<1> HIDE DEF d
<1> QED
  BY <1>1, <1>2, <1>4, <1>5, AccessPreserves

\* An empty cache satisfies the invariant whatever the array is.
LEMMA EmptyCache ==
  ASSUME TypeOK', tag' = [s \in Slots' |-> Unused], stray' = FALSE
  PROVE  CacheInv'
<1>1. \A s \in Slots' : tag'[s] = Unused
  OBVIOUS
<1> QED
  BY <1>1 DEF CacheInv, Placement, LinesDefined, ModifiedIsDirty, NoStrayEncode

\* A block has at most one dirty slot, so the last one is that one.
LEMMA LastDirty ==
  ASSUME CacheInv, NEW b \in Blocks, DirtySlots(b) # {}
  PROVE  \E s \in Slots : tag[s].index = b + 1 /\ LastOf(DirtySlots(b)) = s
<1>1. PICK s \in Slots : tag[s].dirty /\ tag[s].index = b + 1
  BY DEF DirtySlots
<1>2. \A t \in DirtySlots(b) : t = s
  BY <1>1 DEF DirtySlots, CacheInv, Placement, Unused
<1>3. s \in DirtySlots(b) /\ s \in Nat
  BY <1>1 DEF DirtySlots, Slots
<1>4. \E u \in DirtySlots(b) : \A t \in DirtySlots(b) : t <= u
  BY <1>2, <1>3
<1>5. LastOf(DirtySlots(b)) \in DirtySlots(b)
  BY <1>4, Zenon DEF LastOf
<1> QED
  BY <1>1, <1>2, <1>5

\* A flush writes lines in use, under the blocks of their tags.
LEMMA FlushFacts ==
  ASSUME CacheInv
  PROVE  /\ FlushedStore \in [Blocks -> [Offsets -> Value]]
         /\ ~FlushStrays
<1>1. \A s \in Slots : tag[s].dirty => tag[s] # Unused
  BY DEF Unused
<1>2. ~FlushStrays
  BY <1>1 DEF FlushStrays, CacheInv, Placement
<1>3. ASSUME NEW b \in Blocks, DirtySlots(b) # {}
      PROVE  Codec(rate, Width(b), line[LastOf(DirtySlots(b))])
               \in [Offsets -> Value]
  <2>1. PICK s \in Slots : /\ tag[s].index = b + 1
                           /\ LastOf(DirtySlots(b)) = s
    BY <1>3, LastDirty
  <2>2. tag[s] # Unused /\ tag[s].index - 1 = b
    BY <2>1 DEF Blocks, Unused
  <2>3. Width(b) \in 1 .. BlockSize /\ Written(Width(b), line[s])
    BY <2>1, <2>2, LineWritten
  <2>4. line[s] \in [Offsets -> Value \cup {Undef}] /\ rate \in Rates
    BY <2>1 DEF CacheInv, TypeOK
  <2> QED
    BY <2>1, <2>3, <2>4, CodecAssumption
<1>4. store \in [Blocks -> [Offsets -> Value]]
  BY DEF CacheInv, TypeOK
<1> QED
  BY <1>2, <1>3, <1>4 DEF FlushedStore

LEMMA ZeroStoreType ==
  ASSUME NEW n \in Sizes
  PROVE  ZeroStore(n) \in [0 .. (NumBlocks(n) - 1) -> [Offsets -> Value]]
  BY ParametersAssumption DEF ZeroStore

\* Resetting all tags keeps the types.
LEMMA TagsCleared ==
  [s \in Slots |-> Unused] \in [Slots -> TagSet]
  BY ParametersAssumption DEF Unused, TagSet

LEMMA PutArrayPreserves ==
  ASSUME CacheInv, SafeUse, NEW a \in Inputs(nx), PutArray(a)
  PROVE  CacheInv'
<1>0. /\ nx \in Sizes /\ nx \in Nat /\ mask \in Nat
      /\ rate \in Rates
      /\ store \in [Blocks -> [Offsets -> Value]]
      /\ tag \in [Slots -> TagSet]
      /\ line \in [Slots -> [Offsets -> Value \cup {Undef}]]
      /\ stray = FALSE
  BY ParametersAssumption DEF CacheInv, TypeOK, NoStrayEncode
<1>1. /\ ~TwoWay
      /\ a \in [Elements -> Value]
  BY <1>0, ParametersAssumption DEF SafeUse, Elements
<1>2. ASSUME NEW b \in Blocks
      PROVE  /\ b \in Nat
             /\ Primary(b + 1) \in Slots
             /\ \A s : s \in LookupSlots(b + 1) <=>
                         s = Primary(b + 1) /\ tag[s].index = b + 1
             /\ MarkedSlot(b + 1) = Primary(b + 1)
  <2>1. b \in Nat
    BY DEF Blocks
  <2>2. Primary(b + 1) \in Slots
    BY TagFits, SlotRange DEF CacheInv
  <2>3. LookupSlots(b + 1) =
          IF tag[Primary(b + 1)].index = b + 1 THEN {Primary(b + 1)} ELSE {}
    BY <1>1 DEF LookupSlots
  <2> QED
    BY <2>1, <2>2, <2>3 DEF MarkedSlot
<1>3. ASSUME NEW b \in Blocks, NEW s \in Slots, s \in LookupSlots(b + 1)
      PROVE  /\ tag[s].index = b + 1
             /\ tag[s] # Unused
             /\ \A c \in Blocks : s \in LookupSlots(c + 1) => c = b
  <2>1. tag[s].index = b + 1 /\ b \in Nat
    BY <1>2, <1>3
  <2>2. tag[s] # Unused
    BY <2>1 DEF Unused
  <2>3. ASSUME NEW c \in Blocks, s \in LookupSlots(c + 1)
        PROVE  c = b
    <3>1. tag[s].index = c + 1 /\ c \in Nat
      BY <1>2, <2>3
    <3> QED
      BY <2>1, <3>1
  <2> QED
    BY <2>1, <2>2, <2>3
<1>4. ASSUME NEW s \in Slots, tag[s] # Unused
      PROVE  /\ tag[s].index - 1 \in Blocks
             /\ s \in LookupSlots((tag[s].index - 1) + 1)
             /\ s = MarkedSlot((tag[s].index - 1) + 1)
  <2>1. tag[s].index - 1 \in Blocks /\ s = Primary(tag[s].index)
    BY <1>1, <1>4 DEF CacheInv, Placement
  <2>2. tag[s].index \in Nat
    BY <1>0, ParametersAssumption DEF TagSet
  <2>3. (tag[s].index - 1) + 1 = tag[s].index
    BY <2>2
  <2> QED
    BY <1>2, <2>1, <2>3
<1>5. ASSUME NEW b \in Blocks, NEW old \in [Offsets -> Value \cup {Undef}]
      PROVE  /\ Width(b) \in 1 .. BlockSize
             /\ CopyIn(b, a, old) \in [Offsets -> Value \cup {Undef}]
             /\ \A k \in 0 .. (Width(b) - 1) : CopyIn(b, a, old)[k] \in Value
  <2>1. Width(b) \in 1 .. BlockSize /\ b \in Nat /\ BlockSize \in Nat \ {0}
    BY <1>0, Shape, ParametersAssumption DEF Blocks
  <2>2. \A k \in 0 .. (Width(b) - 1) :
          k \in Offsets /\ b * BlockSize + k \in Elements
    <3> DEFINE m == b * BlockSize
    <3>1. m \in Nat
      BY <2>1
    <3>2. Width(b) <= nx - m
      BY <1>0, <2>1 DEF Width
    <3> HIDE DEF m
    <3>3. \A k \in 0 .. (Width(b) - 1) : k \in Offsets /\ m + k \in Elements
      BY <1>0, <2>1, <3>1, <3>2 DEF Offsets, Elements
    <3> QED
      BY <3>3 DEF m
  <2>3. \A k \in Offsets : k < Width(b) => k \in 0 .. (Width(b) - 1)
    BY <2>1 DEF Offsets
  <2>4. \A k \in 0 .. (Width(b) - 1) : k < Width(b)
    BY <2>1
  <2>5. \A k \in 0 .. (Width(b) - 1) : CopyIn(b, a, old)[k] \in Value
    BY <1>1, <2>2, <2>4 DEF CopyIn
  <2>6. \A k \in Offsets :
          (IF k < Width(b) THEN a[b * BlockSize + k] ELSE old[k])
             \in Value \cup {Undef}
    BY <1>1, <2>2, <2>3
  <2> QED
    BY <2>1, <2>5, <2>6 DEF CopyIn
<1>6. /\ nx' = nx /\ rate' = rate /\ mask' = mask /\ stray' = stray
      /\ Slots' = Slots /\ Blocks' = Blocks
      /\ \A c : Width(c)' = Width(c)
      /\ \A y : Primary(y)' = Primary(y) /\ Secondary(y)' = Secondary(y)
  BY DEF PutArray, Slots, Blocks, Width, Primary, Secondary
<1>7. store' \in [Blocks -> [Offsets -> Value]]
  <2>1. Blank \in [Offsets -> Value \cup {Undef}]
    BY DEF Blank
  <2>2. ASSUME NEW b \in Blocks
        PROVE  Codec(rate, Width(b), CopyIn(b, a, Blank)) \in [Offsets -> Value]
    BY <1>0, <1>5, <2>1, CodecAssumption DEF Written
  <2> QED
    BY <1>0, <2>2 DEF PutArray
<1>8. ASSUME NEW s \in Slots
      PROVE  /\ tag'[s] \in TagSet
             /\ tag'[s].index = tag[s].index
             /\ tag[s] = Unused => tag'[s] = Unused
             /\ tag[s] # Unused => tag'[s].dirty
  <2>1. tag[s] = Unused =>
          ~ \E b \in Blocks : LookupSlots(b + 1) # {} /\ s = MarkedSlot(b + 1)
    <3>1. ASSUME NEW b \in Blocks, LookupSlots(b + 1) # {}, s = MarkedSlot(b + 1)
          PROVE  tag[s] # Unused
      <4>1. s \in LookupSlots(b + 1)
        BY <1>2, <3>1
      <4> QED
        BY <1>3, <4>1
    <3> QED
      BY <3>1
  <2>2. tag[s] # Unused =>
          \E b \in Blocks : LookupSlots(b + 1) # {} /\ s = MarkedSlot(b + 1)
    BY <1>4
  <2> QED
    BY <1>0, <2>1, <2>2 DEF PutArray, Marked, TagSet
<1>9. ASSUME NEW s \in Slots, tag[s] # Unused
      PROVE  /\ line'[s] \in [Offsets -> Value \cup {Undef}]
             /\ \A k \in 0 .. (Width(tag[s].index - 1) - 1) : line'[s][k] # Undef
  <2> DEFINE b == tag[s].index - 1
  <2>1. b \in Blocks /\ s \in LookupSlots(b + 1)
    BY <1>4, <1>9
  <2> HIDE DEF b
  <2>2. (CHOOSE c \in Blocks : s \in LookupSlots(c + 1)) = b
    BY <1>3, <2>1
  <2>3. line'[s] = CopyIn(b, a, line[s])
    BY <2>1, <2>2 DEF PutArray
  <2> QED
    BY <1>0, <1>5, <2>1, <2>3, ParametersAssumption DEF b
<1>10. ASSUME NEW s \in Slots, tag[s] = Unused
       PROVE  line'[s] = line[s]
  BY <1>3, <1>10 DEF PutArray
<1>11. TypeOK'
  <2>1. tag' \in [Slots -> TagSet]
    BY <1>8 DEF PutArray
  <2>2. line' \in [Slots -> [Offsets -> Value \cup {Undef}]]
    <3>1. \A s \in Slots : line'[s] \in [Offsets -> Value \cup {Undef}]
      BY <1>0, <1>9, <1>10
    <3> QED
      BY <3>1 DEF PutArray
  <2> QED
    BY <1>6, <1>7, <2>1, <2>2 DEF CacheInv, TypeOK
<1>12. Placement'
  BY <1>6, <1>8 DEF CacheInv, Placement
<1>13. LinesDefined'
  BY <1>6, <1>8, <1>9 DEF LinesDefined
<1>14. ModifiedIsDirty'
  BY <1>6, <1>8 DEF ModifiedIsDirty
<1> QED
  BY <1>6, <1>11, <1>12, <1>13, <1>14 DEF CacheInv, NoStrayEncode

-----------------------------------------------------------------------------
LEMMA InitEstablishes == Init => CacheInv
<1> SUFFICES ASSUME Init PROVE CacheInv
  OBVIOUS
<1>1. PICK p \in PowersOfTwo :
        /\ mask = p - 1
        /\ tag = [s \in 0 .. (p - 1) |-> Unused]
        /\ line = [s \in 0 .. (p - 1) |-> Blank]
  BY DEF Init, LineCounts
<1>2. p \in Nat \ {0} /\ mask \in Nat /\ mask + 1 = p
  BY <1>1, LinesAssumption
<1>3. tag = [s \in Slots |-> Unused] /\ line = [s \in Slots |-> Blank]
  BY <1>1, <1>2 DEF Slots
<1>4. tag \in [Slots -> TagSet]
  BY <1>3, TagsCleared
<1>5. line \in [Slots -> [Offsets -> Value \cup {Undef}]]
  BY <1>3 DEF Blank
<1>6. store \in [Blocks -> [Offsets -> Value]]
  BY ZeroStoreType DEF Init, Blocks
<1>7. TypeOK
  BY <1>1, <1>2, <1>4, <1>5, <1>6 DEF Init, TypeOK
<1>8. \A s \in Slots : tag[s] = Unused
  BY <1>3
<1> QED
  BY <1>7, <1>8
  DEF Init, CacheInv, Placement, LinesDefined, ModifiedIsDirty, NoStrayEncode

\* The operations that empty the cache.
LEMMA ClearPreserves ==
  ASSUME CacheInv, SafeUse,
         \/ FlushCache
         \/ ClearCache
         \/ \E n \in LineRequests : SetCacheSize(n)
         \/ \E r \in Rates : SetRate(r)
         \/ \E n \in Sizes, clear \in BOOLEAN : Resize(n, clear)
  PROVE  CacheInv'
<1>0. TypeOK /\ stray = FALSE
  BY DEF CacheInv, NoStrayEncode, TypeOK
<1>1. CASE FlushCache
  <2>1. /\ Slots' = Slots /\ Blocks' = Blocks
        /\ tag' = [s \in Slots' |-> Unused] /\ stray' = FALSE
    BY <1>0, <1>1, FlushFacts DEF FlushCache, Slots, Blocks
  <2>2. TypeOK'
    BY <1>0, <1>1, <2>1, FlushFacts, TagsCleared DEF FlushCache, TypeOK
  <2> QED
    BY <2>1, <2>2, EmptyCache
<1>2. CASE ClearCache
  <2>1. /\ Slots' = Slots /\ Blocks' = Blocks
        /\ tag' = [s \in Slots' |-> Unused] /\ stray' = FALSE
    BY <1>0, <1>2 DEF ClearCache, Slots, Blocks
  <2>2. TypeOK'
    BY <1>0, <1>2, <2>1, TagsCleared DEF ClearCache, TypeOK
  <2> QED
    BY <2>1, <2>2, EmptyCache
<1>3. ASSUME NEW n \in LineRequests, SetCacheSize(n)
      PROVE  CacheInv'
  <2>1. FitsTag(NumBlocks(nx))
    BY <1>0 DEF SafeUse, TypeOK
  <2>2. PICK p \in PowersOfTwo : NewCache(p)
    BY <1>3, <2>1 DEF SetCacheSize, LineCounts
  <2>3. p \in Nat \ {0} /\ mask' \in Nat /\ mask' + 1 = p
    BY <2>2, LinesAssumption DEF NewCache
  <2>4. /\ tag' = [s \in Slots' |-> Unused]
        /\ line' = [s \in Slots' |-> Blank]
    BY <2>2, <2>3 DEF NewCache, Slots
  <2>5. /\ Blocks' = Blocks /\ nx' = nx /\ rate' = rate
        /\ store' = FlushedStore /\ stray' = FALSE
    BY <1>0, <1>3, FlushFacts DEF SetCacheSize, Blocks
  <2>6. tag' \in [Slots' -> TagSet]
    BY <2>4, ParametersAssumption DEF Unused, TagSet
  <2>7. line' \in [Slots' -> [Offsets -> Value \cup {Undef}]]
    BY <2>4 DEF Blank
  <2>8. TypeOK'
    BY <1>0, <2>3, <2>5, <2>6, <2>7, FlushFacts DEF TypeOK
  <2> QED
    BY <2>4, <2>5, <2>8, EmptyCache
<1>4. ASSUME NEW r \in Rates, SetRate(r)
      PROVE  CacheInv'
  <2>1. /\ Slots' = Slots /\ Blocks' = Blocks
        /\ tag' = [s \in Slots' |-> Unused] /\ stray' = FALSE
    BY <1>0, <1>4 DEF SetRate, Slots, Blocks
  <2>2. store' \in [Blocks' -> [Offsets -> Value]]
    BY <1>0, <1>4, <2>1, ZeroStoreType DEF SetRate, Blocks, TypeOK
  <2>3. TypeOK'
    BY <1>0, <1>4, <2>1, <2>2, TagsCleared DEF SetRate, TypeOK
  <2> QED
    BY <2>1, <2>3, EmptyCache
<1>5. ASSUME NEW n \in Sizes, NEW clear \in BOOLEAN, Resize(n, clear)
      PROVE  CacheInv'
  <2>1. /\ Slots' = Slots /\ Blocks' = 0 .. (NumBlocks(n) - 1)
        /\ tag' = [s \in Slots' |-> Unused] /\ stray' = FALSE
    BY <1>0, <1>5 DEF Resize, Slots, Blocks
  <2>2. store' \in [Blocks' -> [Offsets -> Value]]
    BY <1>5, <2>1, ZeroStoreType, ParametersAssumption DEF Resize
  <2>3. TypeOK'
    BY <1>0, <1>5, <2>1, <2>2, TagsCleared DEF Resize, TypeOK
  <2> QED
    BY <2>1, <2>3, EmptyCache
<1> QED
  BY <1>1, <1>2, <1>3, <1>4, <1>5

LEMMA NextPreserves ==
  ASSUME CacheInv, SafeUse, [Next]_vars
  PROVE  CacheInv'
<1>1. ASSUME NEW i \in Elements, Get(i)
      PROVE  CacheInv'
  BY <1>1, GetPreserves
<1>2. ASSUME NEW i \in Elements, NEW v \in Value, Set(i, v)
      PROVE  CacheInv'
  BY <1>2, SetPreserves
<1>3. CASE GetArray \/ UNCHANGED vars
  <2>1. UNCHANGED <<nx, rate, store, mask, tag, line, stray>>
    BY <1>3 DEF GetArray, vars
  <2> QED
    BY <2>1
    DEF CacheInv, TypeOK, Placement, LinesDefined, ModifiedIsDirty,
        NoStrayEncode, Slots, Blocks, Width, Primary, Secondary
<1>4. ASSUME NEW a \in Inputs(nx), PutArray(a)
      PROVE  CacheInv'
  BY <1>4, PutArrayPreserves
<1> QED
  BY <1>1, <1>2, <1>3, <1>4, ClearPreserves DEF Next

(***************************************************************************)
(* The cache invariant holds in every state of an array that is used       *)
(* safely, for all sizes of arrays, blocks and caches, all codecs and all  *)
(* hash functions, direct-mapped or two-way: every line in use is a block  *)
(* of the array in a slot where Cache::access looks for it, and no block   *)
(* has two lines.                                                          *)
(***************************************************************************)
THEOREM CacheInvariant ==
  ASSUME SafeUse
  PROVE  Spec => []CacheInv
<1>1. CacheInv /\ [Next]_vars => CacheInv'
  BY NextPreserves
<1> QED
  BY <1>1, InitEstablishes, PTL DEF Spec

\* The write-backs of line() and flush() always go to blocks of the array.
THEOREM WriteBacksInRange ==
  ASSUME SafeUse
  PROVE  Spec => []NoStrayEncode
<1>1. CacheInv => NoStrayEncode
  BY DEF CacheInv
<1> QED
  BY <1>1, CacheInvariant, PTL

\* A cached block that has been modified is dirty: evicting or flushing it
\* writes it back, so no assignment is lost.
THEOREM NoLostModification ==
  ASSUME SafeUse
  PROVE  Spec => [](Placement /\ ModifiedIsDirty)
<1>1. CacheInv => Placement /\ ModifiedIsDirty
  BY DEF CacheInv
<1> QED
  BY <1>1, CacheInvariant, PTL

\* The elements of a line in use that belong to its block have been decoded or
\* assigned (CacheLine): write-backs and reads never use unwritten memory.
THEOREM LinesHoldBlocks ==
  ASSUME SafeUse
  PROVE  Spec => []LinesDefined
<1>1. CacheInv => LinesDefined
  BY DEF CacheInv
<1> QED
  BY <1>1, CacheInvariant, PTL

\* Every line in use is where Cache::access will look for its block, and no
\* block has two lines, in the direct-mapped and in the two-way cache.
THEOREM LinesInPlace ==
  ASSUME SafeUse
  PROVE  Spec => []Placement
<1>1. CacheInv => Placement
  BY DEF CacheInv
<1> QED
  BY <1>1, CacheInvariant, PTL

-----------------------------------------------------------------------------
(* The array with its cache implements the array without one. *)

\* Block b as the user sees it.
Seen(b) ==
  IF SlotsOf(b) # {} THEN line[CHOOSE s \in SlotsOf(b) : TRUE] ELSE store[b]

Content == [i \in Elements |-> Visible(i)]
Saved == [i \in Elements |-> store[BlockOf(i)][i % BlockSize]]

\* Element k of block b is an element of the array, in block b at offset k.
LEMMA InBlock ==
  ASSUME nx \in Nat, NEW b \in Blocks, NEW k \in 0 .. (Width(b) - 1)
  PROVE  /\ k \in Offsets
         /\ b * BlockSize + k \in Elements
         /\ BlockOf(b * BlockSize + k) = b
         /\ (b * BlockSize + k) % BlockSize = k
<1> DEFINE m == b * BlockSize
<1>1. /\ BlockSize \in Nat \ {0}
      /\ b \in Nat
      /\ Width(b) \in 1 .. BlockSize
  BY Shape, ParametersAssumption DEF Blocks
<1>2. m \in Nat /\ Width(b) <= nx - m
  BY <1>1 DEF Width
<1>3. k \in Nat /\ k < BlockSize /\ k < nx - m
  <2> HIDE DEF m
  <2> QED
    BY <1>1, <1>2
<1>4. k \in Offsets /\ m + k \in Elements
  <2> HIDE DEF m
  <2> QED
    BY <1>1, <1>2, <1>3 DEF Offsets, Elements
<1>5. (m + k) \div BlockSize = b /\ (m + k) % BlockSize = k
  <2>1. k \in 0 .. (BlockSize - 1) /\ m + k = BlockSize * b + k
    BY <1>1, <1>3
  <2> HIDE DEF m
  <2> QED
    BY <1>1, <2>1, DivModUnique
<1> QED
  BY <1>4, <1>5 DEF BlockOf

\* Every element is element i % BlockSize of its block.
LEMMA OfBlock ==
  ASSUME nx \in Nat, NEW i \in Elements
  PROVE  /\ BlockOf(i) \in Blocks
         /\ i % BlockSize \in 0 .. (Width(BlockOf(i)) - 1)
         /\ i % BlockSize \in Offsets
         /\ BlockOf(i) * BlockSize + (i % BlockSize) = i
<1>1. BlockSize \in Nat \ {0} /\ i \in Nat
  BY ParametersAssumption DEF Elements
<1>2. /\ i \div BlockSize \in Nat
      /\ i % BlockSize \in 0 .. (BlockSize - 1)
      /\ i = BlockSize * (i \div BlockSize) + (i % BlockSize)
  BY <1>1, DivMod
<1>3. /\ BlockOf(i) \in Blocks
      /\ i % BlockSize \in Offsets
      /\ i % BlockSize < Width(BlockOf(i))
      /\ Width(BlockOf(i)) \in 1 .. BlockSize
  BY Shape
<1>4. i % BlockSize \in 0 .. (Width(BlockOf(i)) - 1)
  BY <1>2, <1>3
<1>5. (i \div BlockSize) * BlockSize + (i % BlockSize) = i
  BY <1>1, <1>2
<1> QED
  BY <1>3, <1>4, <1>5 DEF BlockOf

\* A block with a line is seen as that line, any other as it decodes.
LEMMA SeenFacts ==
  ASSUME CacheInv, NEW b \in Blocks
  PROVE  /\ Seen(b) \in [Offsets -> Value \cup {Undef}]
         /\ \A k \in 0 .. (Width(b) - 1) : Seen(b)[k] \in Value
         /\ \A s \in Slots : tag[s].index = b + 1 => Seen(b) = line[s]
         /\ (\A s \in Slots : tag[s].index # b + 1) => Seen(b) = store[b]
         /\ store[b] \in [Offsets -> Value]
         /\ \A k \in 0 .. (Width(b) - 1) : k \in Offsets
<1>1. store[b] \in [Offsets -> Value]
  BY DEF CacheInv, TypeOK
<1>2. \A k \in 0 .. (Width(b) - 1) : k \in Offsets
  BY InBlock, ParametersAssumption DEF CacheInv, TypeOK
<1>3. ASSUME NEW s \in Slots, tag[s].index = b + 1
      PROVE  /\ Seen(b) = line[s]
             /\ line[s] \in [Offsets -> Value \cup {Undef}]
             /\ \A k \in 0 .. (Width(b) - 1) : line[s][k] \in Value
  <2>1. b \in Nat
    BY DEF Blocks
  <2>2. tag[s] # Unused /\ tag[s].index - 1 = b
    BY <1>3, <2>1 DEF Unused
  <2>3. \A t \in Slots : tag[t].index = b + 1 => t = s
    BY <1>3, <2>2 DEF CacheInv, Placement
  <2>4. SlotsOf(b) = {s}
    BY <1>3, <2>3 DEF SlotsOf
  <2>5. Written(Width(b), line[s])
    BY <2>2, LineWritten
  <2>6. line[s] \in [Offsets -> Value \cup {Undef}]
    BY DEF CacheInv, TypeOK
  <2> QED
    BY <2>4, <2>5, <2>6 DEF Seen, Written
<1>4. ASSUME \A s \in Slots : tag[s].index # b + 1
      PROVE  Seen(b) = store[b]
  BY <1>4 DEF Seen, SlotsOf
<1> QED
  BY <1>1, <1>2, <1>3, <1>4

\* The same of the state after a step.
LEMMA SeenNow ==
  CacheInv => \A b \in Blocks :
    /\ \A s \in Slots : tag[s].index = b + 1 => Seen(b) = line[s]
    /\ (\A s \in Slots : tag[s].index # b + 1) => Seen(b) = store[b]
  BY SeenFacts

LEMMA SeenPrimed ==
  ASSUME CacheInv'
  PROVE  \A b \in Blocks' :
           /\ \A s \in Slots' : tag'[s].index = b + 1 => Seen(b)' = line'[s]
           /\ (\A s \in Slots' : tag'[s].index # b + 1) => Seen(b)' = store'[b]
<1>1. (\A b \in Blocks :
         /\ \A s \in Slots : tag[s].index = b + 1 => Seen(b) = line[s]
         /\ (\A s \in Slots : tag[s].index # b + 1) => Seen(b) = store[b])'
  BY SeenNow, PTL
<1> QED
  BY <1>1

\* The elements the user sees, element by element.
LEMMA ContentFacts ==
  ASSUME CacheInv
  PROVE  /\ \A i \in Elements : Visible(i) = Seen(BlockOf(i))[i % BlockSize]
         /\ Content \in [Elements -> Value]
         /\ Saved \in [Elements -> Value]
         /\ \A b \in Blocks : \A k \in 0 .. (Width(b) - 1) :
              Content[b * BlockSize + k] = Seen(b)[k]
<1>0. nx \in Nat
  BY ParametersAssumption DEF CacheInv, TypeOK
<1>1. \A i : Visible(i) = Seen(BlockOf(i))[i % BlockSize]
  BY DEF Visible, Seen
<1>2. ASSUME NEW i \in Elements
      PROVE  Visible(i) \in Value /\ store[BlockOf(i)][i % BlockSize] \in Value
  BY <1>0, <1>1, OfBlock, SeenFacts
<1>3. ASSUME NEW b \in Blocks, NEW k \in 0 .. (Width(b) - 1)
      PROVE  Content[b * BlockSize + k] = Seen(b)[k]
  BY <1>0, <1>1, InBlock DEF Content
<1> QED
  BY <1>1, <1>2, <1>3 DEF Content, Saved

LEMMA ContentTyped ==
  CacheInv => Content \in [Elements -> Value] /\ Saved \in [Elements -> Value]
  BY ContentFacts

(***************************************************************************)
(* A step that leaves every block either as the user is to see it, with    *)
(* its saved version untouched, or encoded from what the user is to see,   *)
(* is what the abstract array calls showing it.                            *)
(***************************************************************************)
Untouched(b, a) ==
  \A k \in 0 .. (Width(b) - 1) :
    Seen(b)'[k] = a[b * BlockSize + k] /\ store'[b][k] = store[b][k]

Encoded(b, a) ==
  \E d \in [Offsets -> Value \cup {Undef}] :
    \A k \in 0 .. (Width(b) - 1) :
      /\ d[k] = a[b * BlockSize + k]
      /\ store'[b][k] = Codec(rate, Width(b), d)[k]
      /\ Seen(b)'[k] = store'[b][k]

LEMMA ShowBlocks ==
  ASSUME CacheInv, CacheInv', nx' = nx, rate' = rate,
         NEW a \in [Elements -> Value], NEW Kept,
         \A b \in Blocks : Untouched(b, a) \/ (b \notin Kept /\ Encoded(b, a))
  PROVE  Abstract!Show(a, Kept)
<1>0. nx \in Nat /\ rate \in Rates /\ BlockSize \in Nat \ {0}
  BY ParametersAssumption DEF CacheInv, TypeOK
<1>1. /\ Elements' = Elements
      /\ Content' \in [Elements -> Value]
      /\ Saved' \in [Elements -> Value]
      /\ Saved = [i \in Elements |-> store[BlockOf(i)][i % BlockSize]]
  <2>1. Elements' = Elements
    BY DEF Elements
  <2>2. (Content \in [Elements -> Value] /\ Saved \in [Elements -> Value])'
    BY ContentTyped, PTL
  <2> QED
    BY <2>1, <2>2 DEF Saved
<1>2. ASSUME NEW i \in Elements
      PROVE  /\ Content'[i] = Seen(BlockOf(i))'[i % BlockSize]
             /\ Saved'[i] = store'[BlockOf(i)][i % BlockSize]
             /\ Saved[i] = store[BlockOf(i)][i % BlockSize]
  <2>1. Content' = [j \in Elements |-> Visible(j)']
    BY <1>1 DEF Content
  <2>2. Visible(i)' = Seen(BlockOf(i))'[i % BlockSize]
    BY DEF Visible, Seen, BlockOf
  <2>3. Saved' = [j \in Elements |-> store'[BlockOf(j)][j % BlockSize]]
    BY <1>1 DEF Saved, BlockOf
  <2> QED
    BY <1>1, <2>1, <2>2, <2>3
<1>3. ASSUME NEW b \in Blocks, Untouched(b, a),
             NEW i \in Elements, BlockOf(i) = b
      PROVE  Content'[i] = a[i] /\ Saved'[i] = Saved[i]
  <2>1. /\ i % BlockSize \in 0 .. (Width(b) - 1)
        /\ b * BlockSize + (i % BlockSize) = i
    BY <1>0, <1>3, OfBlock
  <2> QED
    BY <1>2, <1>3, <2>1 DEF Untouched
<1>4. ASSUME NEW b \in Blocks, Encoded(b, a),
             NEW i \in Elements, BlockOf(i) = b
      PROVE  Content'[i] = Abstract!Coded(a, i) /\ Saved'[i] = Abstract!Coded(a, i)
  <2> DEFINE w == Width(b)
             e == [k \in Offsets |-> IF k < w THEN a[b * BlockSize + k] ELSE Zero]
  <2>1. /\ i % BlockSize \in 0 .. (w - 1)
        /\ w \in 1 .. BlockSize
    BY <1>0, <1>4, OfBlock, Shape
  <2>2. PICK d \in [Offsets -> Value \cup {Undef}] :
          \A k \in 0 .. (w - 1) :
            /\ d[k] = a[b * BlockSize + k]
            /\ store'[b][k] = Codec(rate, w, d)[k]
            /\ Seen(b)'[k] = store'[b][k]
    BY <1>4 DEF Encoded
  <2>3. \A k \in 0 .. (w - 1) :
          k \in Offsets /\ b * BlockSize + k \in Elements /\ k < w
    BY <1>0, <2>1, InBlock
  <2>4. \A k \in 0 .. (w - 1) : e[k] = d[k] /\ d[k] \in Value
    BY <2>2, <2>3
  <2>5. e \in [Offsets -> Value \cup {Undef}]
    <3>1. \A k \in Offsets : k < w => k \in 0 .. (w - 1)
      BY <2>1 DEF Offsets
    <3> QED
      BY <2>3, <3>1, ParametersAssumption
  <2>6. Abstract!Coded(a, i) = Codec(rate, w, e)[i % BlockSize]
    <3>1. Abstract!BlockOf(i) = b
      BY <1>4 DEF Abstract!BlockOf, BlockOf
    <3>2. Abstract!WidthOf(nx, b) = w
      BY DEF Abstract!WidthOf, Width
    <3>3. Abstract!BlockAt(nx, a, b) = e
      BY <3>2 DEF Abstract!BlockAt, Offsets
    <3> HIDE DEF w, e
    <3> QED
      BY <3>1, <3>2, <3>3 DEF Abstract!Coded
  <2> HIDE DEF w, e
  <2>7. \A k \in 0 .. (w - 1) : Codec(rate, w, e)[k] = Codec(rate, w, d)[k]
    BY <1>0, <2>1, <2>2, <2>4, <2>5, CodecWidthAssumption DEF Written
  <2> QED
    BY <1>2, <1>4, <2>1, <2>2, <2>6, <2>7
<1>5. Abstract!Blocks(nx) = Blocks /\ Abstract!Elements(nx) = Elements
  BY DEF Abstract!Blocks, Abstract!Elements, Blocks, Elements, NumBlocks
<1>6. \A b : Abstract!ElementsOf(b) = {i \in Elements : BlockOf(i) = b}
  BY <1>5 DEF Abstract!ElementsOf, Abstract!BlockOf, BlockOf
<1>7. \A b \in Blocks :
        \/ \A i \in Abstract!ElementsOf(b) :
             Content'[i] = a[i] /\ Saved'[i] = Saved[i]
        \/ /\ b \notin Kept
           /\ \A i \in Abstract!ElementsOf(b) :
                /\ Content'[i] = Abstract!Coded(a, i)
                /\ Saved'[i] = Abstract!Coded(a, i)
  BY <1>3, <1>4, <1>6
<1> QED
  BY <1>1, <1>5, <1>7 DEF Abstract!Show, Content, Saved

\* The write-back that an access makes is never of the block it accesses.
LEMMA OwnBlockKept ==
  ASSUME CacheInv, SafeUse, NEW b \in Blocks
  PROVE  StoreAfter(b)[b] = store[b]
<1> DEFINE s == AccessSlot(b + 1)
<1>1. /\ s \in Slots
      /\ b \in Nat
  BY AccessFinds DEF Blocks
<1>2. CASE WritesBack(b)
  <2>1. tag[s] # Unused /\ tag[s].index # b + 1 /\ tag[s].index \in Nat
    BY <1>1, <1>2, ParametersAssumption
    DEF WritesBack, Hit, Unused, CacheInv, TypeOK, TagSet
  <2>2. tag[s].index - 1 # b
    BY <1>1, <2>1
  <2>3. StoreAfter(b) = Encode(tag[s].index - 1, line[s])
    BY <1>2 DEF StoreAfter, Victim
  <2> QED
    BY <1>1, <2>1, <2>2, <2>3, EncodeLine
<1>3. CASE ~WritesBack(b)
  BY <1>3 DEF StoreAfter
<1> QED
  BY <1>2, <1>3

\* An access shows the block it brings in as the line it leaves there, and
\* saves the block it displaces if that is dirty.
LEMMA AccessShows ==
  ASSUME CacheInv, SafeUse, CacheInv',
         NEW b \in Blocks, NEW write \in BOOLEAN, NEW data,
         Access(b, write, data),
         NEW a \in [Elements -> Value],
         \A c \in Blocks \ {b} : \A k \in 0 .. (Width(c) - 1) :
           a[c * BlockSize + k] = Content[c * BlockSize + k],
         \A k \in 0 .. (Width(b) - 1) : data[k] = a[b * BlockSize + k]
  PROVE  Abstract!Show(a, {b})
<1> DEFINE s == AccessSlot(b + 1)
<1>1. /\ nx' = nx /\ rate' = rate /\ mask' = mask
      /\ store' = StoreAfter(b)
      /\ tag' = [tag EXCEPT ![s] = TagAfter(b, write)]
      /\ line' = [line EXCEPT ![s] = data]
      /\ Slots' = Slots /\ Blocks' = Blocks
      /\ \A c : Width(c)' = Width(c)
  BY DEF Access, Slots, Blocks, Width
<1>2. /\ s \in Slots
      /\ ~Hit(b) => \A t \in Slots : tag[t].index # b + 1
      /\ Hit(b) => tag[s].index = b + 1
      /\ b \in Nat
  BY AccessFinds DEF Hit, Blocks
<1>3. /\ tag \in [Slots -> TagSet]
      /\ line \in [Slots -> [Offsets -> Value \cup {Undef}]]
      /\ \A t \in Slots : tag[t].index \in Nat
  BY ParametersAssumption DEF CacheInv, TypeOK, TagSet
<1>4. /\ tag'[s].index = b + 1
      /\ line'[s] = data
      /\ \A t \in Slots : t # s => tag'[t] = tag[t] /\ line'[t] = line[t]
  <2>1. TagAfter(b, write).index = b + 1
    <3>1. Tag(b + 1, write) = [index |-> b + 1, dirty |-> write]
      BY TagFits DEF CacheInv
    <3>2. CASE ~Hit(b)
      BY <3>1, <3>2 DEF TagAfter
    <3>3. CASE Hit(b)
      BY <1>2, <1>3, <3>3 DEF TagAfter, Marked, TagSet
    <3> QED
      BY <3>2, <3>3
  <2> QED
    BY <1>1, <1>2, <1>3, <2>1
<1>5. \A c \in Blocks :
        /\ \A t \in Slots : tag'[t].index = c + 1 => Seen(c)' = line'[t]
        /\ (\A t \in Slots : tag'[t].index # c + 1) => Seen(c)' = store'[c]
  BY <1>1, SeenPrimed
<1>6. store \in [Blocks -> [Offsets -> Value]]
  BY DEF CacheInv, TypeOK
<1>7. Untouched(b, a)
  <2>1. Seen(b)' = data
    BY <1>2, <1>4, <1>5
  <2>2. store'[b] = store[b]
    BY <1>1, OwnBlockKept
  <2> QED
    BY <2>1, <2>2 DEF Untouched
<1>8. ASSUME NEW c \in Blocks, c # b
      PROVE  Untouched(c, a) \/ Encoded(c, a)
  <2>0. c \in Nat /\ c + 1 # b + 1
    BY <1>2, <1>8 DEF Blocks
  <2>1. \A k \in 0 .. (Width(c) - 1) : a[c * BlockSize + k] = Seen(c)[k]
    BY <1>8, ContentFacts
  <2>2. CASE tag[s].index = c + 1
    <3>1. /\ ~Hit(b)
          /\ tag[s] # Unused
          /\ tag[s].index - 1 = c
          /\ Seen(c) = line[s]
      BY <1>2, <2>0, <2>2, SeenFacts DEF Hit, Unused
    <3>2. \A t \in Slots : tag'[t].index # c + 1
      BY <1>2, <1>4, <2>0, <2>2, <3>1 DEF CacheInv, Placement
    <3>3. Seen(c)' = store'[c]
      BY <1>5, <3>2
    <3>4. CASE tag[s].dirty
      <4>1. store' = Encode(c, line[s])
        BY <1>1, <3>1, <3>4 DEF StoreAfter, WritesBack, Victim
      <4>2. store'[c] = Codec(rate, Width(c), line[s])
        BY <1>6, <4>1 DEF Encode
      <4> QED
        BY <1>2, <1>3, <2>1, <3>1, <3>3, <4>2 DEF Encoded
    <3>5. CASE ~tag[s].dirty
      <4>1. store' = store
        BY <1>1, <3>5 DEF StoreAfter, WritesBack
      <4>2. \A k \in 0 .. (Width(c) - 1) : line[s][k] = store[c][k]
        BY <1>2, <3>1, <3>5 DEF CacheInv, ModifiedIsDirty
      <4> QED
        BY <2>1, <3>1, <3>3, <4>1, <4>2 DEF Untouched
    <3> QED
      BY <3>4, <3>5
  <2>3. CASE tag[s].index # c + 1
    <3>1. store'[c] = store[c]
      <4>1. CASE WritesBack(b)
        <5>1. tag[s] # Unused /\ tag[s].index - 1 # c
          BY <1>2, <1>3, <2>0, <2>3, <4>1 DEF WritesBack, Unused
        <5>2. store' = Encode(tag[s].index - 1, line[s])
          BY <1>1, <4>1 DEF StoreAfter, Victim
        <5> QED
          BY <1>2, <5>1, <5>2, EncodeLine
      <4>2. CASE ~WritesBack(b)
        BY <1>1, <4>2 DEF StoreAfter
      <4> QED
        BY <4>1, <4>2
    <3>2. Seen(c)' = Seen(c)
      <4>1. CASE \E t \in Slots : tag[t].index = c + 1
        <5>1. PICK t \in Slots : tag[t].index = c + 1
          BY <4>1
        <5>2. t # s
          BY <2>3, <5>1
        <5> QED
          BY <1>4, <1>5, <5>1, <5>2, SeenFacts
      <4>2. CASE \A t \in Slots : tag[t].index # c + 1
        <5>1. \A t \in Slots : tag'[t].index # c + 1
          BY <1>4, <2>0, <4>2
        <5> QED
          BY <1>5, <3>1, <4>2, <5>1, SeenFacts
      <4> QED
        BY <4>1, <4>2
    <3> QED
      BY <2>1, <3>1, <3>2 DEF Untouched
  <2> QED
    BY <2>2, <2>3
<1>9. \A c \in Blocks : Untouched(c, a) \/ (c \notin {b} /\ Encoded(c, a))
  BY <1>7, <1>8
<1> QED
  BY <1>1, <1>9, ShowBlocks

\* The line that an access returns is the block as the user saw it.
LEMMA LineSeen ==
  ASSUME CacheInv, SafeUse, NEW b \in Blocks
  PROVE  \A k \in 0 .. (Width(b) - 1) : LineAfter(b)[k] = Seen(b)[k]
<1> DEFINE s == AccessSlot(b + 1)
<1>1. /\ s \in Slots
      /\ ~Hit(b) => \A t \in Slots : tag[t].index # b + 1
      /\ b \in Nat
  BY AccessFinds DEF Blocks
<1>2. CASE Hit(b)
  BY <1>1, <1>2, SeenFacts DEF LineAfter, Hit
<1>3. CASE ~Hit(b)
  <2>1. Seen(b) = store[b]
    BY <1>1, <1>3, SeenFacts
  <2>2. \A k \in 0 .. (Width(b) - 1) : LineAfter(b)[k] = StoreAfter(b)[b][k]
    BY <1>3, LineAfterFacts
  <2>3. StoreAfter(b)[b] = store[b]
    BY OwnBlockKept
  <2> QED
    BY <2>1, <2>2, <2>3
<1> QED
  BY <1>2, <1>3

LEMMA GetRefines ==
  ASSUME CacheInv, SafeUse, CacheInv', NEW i \in Elements, Get(i)
  PROVE  Abstract!Read(i)
<1> DEFINE b == BlockOf(i)
<1>0. nx \in Nat
  BY ParametersAssumption DEF CacheInv, TypeOK
<1>1. b \in Blocks /\ i % BlockSize \in 0 .. (Width(b) - 1)
  BY <1>0, OfBlock
<1>2. \A k \in 0 .. (Width(b) - 1) : LineAfter(b)[k] = Seen(b)[k]
  BY <1>1, LineSeen
<1>3. Content \in [Elements -> Value] /\ Content[i] = Seen(b)[i % BlockSize]
  BY ContentFacts DEF Content
<1>4. ret' = [j \in {i} |-> Content[i]]
  BY <1>1, <1>2, <1>3 DEF Get
<1>5. Abstract!Show(Content, {b})
  <2>1. Access(b, FALSE, LineAfter(b))
    BY DEF Get
  <2>2. \A k \in 0 .. (Width(b) - 1) : LineAfter(b)[k] = Content[b * BlockSize + k]
    BY <1>1, <1>2, ContentFacts
  <2> HIDE DEF b
  <2> QED
    BY <1>1, <1>3, <2>1, <2>2, AccessShows
<1>6. Abstract!BlockOf(i) = b
  BY DEF Abstract!BlockOf, BlockOf
<1> QED
  BY <1>4, <1>5, <1>6 DEF Abstract!Read, Content

LEMMA SetRefines ==
  ASSUME CacheInv, SafeUse, CacheInv', NEW i \in Elements, NEW v \in Value,
         Set(i, v)
  PROVE  Abstract!Write(i, v)
<1> DEFINE b == BlockOf(i)
           a == [Content EXCEPT ![i] = v]
           d == [LineAfter(b) EXCEPT ![i % BlockSize] = v]
<1>0. nx \in Nat
  BY ParametersAssumption DEF CacheInv, TypeOK
<1>1. /\ b \in Blocks
      /\ i % BlockSize \in 0 .. (Width(b) - 1)
      /\ b * BlockSize + (i % BlockSize) = i
  BY <1>0, OfBlock
<1>2. /\ \A k \in 0 .. (Width(b) - 1) : LineAfter(b)[k] = Seen(b)[k]
      /\ LineAfter(b) \in [Offsets -> Value \cup {Undef}]
  BY <1>1, LineSeen, LineAfterFacts
<1>3. Content \in [Elements -> Value]
  BY ContentFacts
<1>4. a \in [Elements -> Value]
  BY <1>3
<1>5. ASSUME NEW c \in Blocks, NEW k \in 0 .. (Width(c) - 1)
      PROVE  /\ c * BlockSize + k \in Elements
             /\ k \in Offsets
             /\ c * BlockSize + k = i <=> c = b /\ k = i % BlockSize
  BY <1>0, <1>1, InBlock
<1>6. \A c \in Blocks \ {b} : \A k \in 0 .. (Width(c) - 1) :
        a[c * BlockSize + k] = Content[c * BlockSize + k]
  BY <1>3, <1>5
<1>7. ASSUME NEW k \in 0 .. (Width(b) - 1)
      PROVE  d[k] = a[b * BlockSize + k]
  <2>1. Content[b * BlockSize + k] = LineAfter(b)[k]
    BY <1>1, <1>2, ContentFacts
  <2>2. b * BlockSize + k \in Elements /\ k \in Offsets
    BY <1>1, <1>5
  <2>3. b * BlockSize + k = i <=> k = i % BlockSize
    BY <1>1, <1>5
  <2> HIDE DEF b
  <2> QED
    BY <1>2, <1>3, <2>1, <2>2, <2>3
<1>8. Access(b, TRUE, d)
  BY DEF Set
<1>9. Abstract!Show(a, {b})
  <2> HIDE DEF a, b, d
  <2> QED
    BY <1>1, <1>4, <1>6, <1>7, <1>8, AccessShows
<1>10. Abstract!BlockOf(i) = b
  BY DEF Abstract!BlockOf, BlockOf
<1> QED
  BY <1>9, <1>10 DEF Set, Abstract!Write, Content

LEMMA GetArrayRefines ==
  ASSUME CacheInv, SafeUse, GetArray
  PROVE  Abstract!ReadAll
<1>0. nx \in Nat
  BY ParametersAssumption DEF CacheInv, TypeOK
<1>1. ASSUME NEW b \in Blocks
      PROVE  Seen(b) = IF LookupSlots(b + 1) # {}
                       THEN line[CHOOSE s \in LookupSlots(b + 1) : TRUE]
                       ELSE store[b]
  <2>1. /\ Primary(b + 1) \in Slots
        /\ Secondary(b + 1) \in Slots
    BY TagFits, SlotRange DEF CacheInv
  <2>2. CASE LookupSlots(b + 1) # {}
    <3>1. PICK s \in Slots : LookupSlots(b + 1) = {s} /\ tag[s].index = b + 1
      BY <2>1, <2>2 DEF LookupSlots
    <3> QED
      BY <3>1, SeenFacts
  <2>3. CASE LookupSlots(b + 1) = {}
    <3>1. ASSUME NEW s \in Slots, tag[s].index = b + 1
          PROVE  FALSE
      <4>1. tag[s] # Unused
        BY <3>1 DEF Unused, Blocks
      <4>2. s = Primary(b + 1) \/ (TwoWay /\ s = Secondary(b + 1))
        BY <3>1, <4>1 DEF CacheInv, Placement
      <4> QED
        BY <2>3, <3>1, <4>2 DEF LookupSlots
    <3> QED
      BY <2>3, <3>1, SeenFacts
  <2> QED
    BY <2>2, <2>3
<1>2. \A i \in Elements : BlockOf(i) \in Blocks
  BY <1>0, OfBlock
<1>3. ret' = Content
  BY <1>1, <1>2, ContentFacts DEF GetArray, Content
<1>4. UNCHANGED <<nx, rate, Content, Saved>>
  BY DEF GetArray, Content, Saved, Visible, SlotsOf, Slots, Elements, BlockOf
<1> QED
  BY <1>3, <1>4 DEF Abstract!ReadAll, Content, Saved

LEMMA PutArrayRefines ==
  ASSUME CacheInv, SafeUse, CacheInv', NEW a \in Inputs(nx), PutArray(a)
  PROVE  Abstract!WriteAll(a)
<1>0. /\ nx \in Sizes /\ nx \in Nat /\ rate \in Rates
      /\ tag \in [Slots -> TagSet]
      /\ line \in [Slots -> [Offsets -> Value \cup {Undef}]]
  BY ParametersAssumption DEF CacheInv, TypeOK
<1>1. ~TwoWay /\ a \in [Elements -> Value]
  BY <1>0, ParametersAssumption DEF SafeUse, Elements
<1>2. /\ nx' = nx /\ rate' = rate /\ Slots' = Slots /\ Blocks' = Blocks
  BY DEF PutArray, Slots, Blocks
<1>3. ASSUME NEW s \in Slots
      PROVE  tag'[s].index = tag[s].index
  <2>1. tag'[s] = tag[s] \/ tag'[s] = Marked(tag[s])
    BY DEF PutArray
  <2> QED
    BY <1>0, <2>1 DEF Marked, TagSet
<1>4. ASSUME NEW b \in Blocks, NEW old, NEW k \in 0 .. (Width(b) - 1)
      PROVE  CopyIn(b, a, old)[k] = a[b * BlockSize + k]
  <2>1. k \in Offsets /\ k < Width(b)
    BY <1>0, InBlock, Shape
  <2> QED
    BY <2>1 DEF CopyIn
<1>5. ASSUME NEW b \in Blocks
      PROVE  Untouched(b, a) \/ Encoded(b, a)
  <2>0. b \in Nat /\ Primary(b + 1) \in Slots
    BY TagFits, SlotRange DEF CacheInv, Blocks
  <2>1. /\ \A t \in Slots : tag'[t].index = b + 1 => Seen(b)' = line'[t]
        /\ (\A t \in Slots : tag'[t].index # b + 1) => Seen(b)' = store'[b]
    BY <1>2, SeenPrimed
  <2>2. CASE \E s \in Slots : tag[s].index = b + 1
    <3>1. PICK s \in Slots : tag[s].index = b + 1
      BY <2>2
    <3>2. tag[s] # Unused
      BY <2>0, <3>1 DEF Unused
    <3>3. s = Primary(b + 1) /\ LookupSlots(b + 1) = {s}
      BY <1>1, <3>1, <3>2 DEF CacheInv, Placement, LookupSlots
    <3>4. ASSUME NEW c \in Blocks, s \in LookupSlots(c + 1)
          PROVE  c = b
      <4>1. c \in Nat /\ tag[s].index = c + 1
        BY <1>1, <3>4 DEF LookupSlots, Blocks
      <4> QED
        BY <2>0, <3>1, <4>1
    <3>5. (CHOOSE c \in Blocks : s \in LookupSlots(c + 1)) = b
      BY <3>3, <3>4
    <3>6. line'[s] = CopyIn(b, a, line[s])
      BY <3>3, <3>5 DEF PutArray
    <3>7. store'[b] = store[b]
      BY <3>3 DEF PutArray
    <3>8. Seen(b)' = CopyIn(b, a, line[s])
      BY <1>3, <2>1, <3>1, <3>6
    <3> QED
      BY <1>4, <3>7, <3>8 DEF Untouched
  <2>3. CASE \A s \in Slots : tag[s].index # b + 1
    <3>1. LookupSlots(b + 1) = {}
      BY <1>1, <2>0, <2>3 DEF LookupSlots
    <3>2. store'[b] = Codec(rate, Width(b), CopyIn(b, a, Blank))
      BY <3>1 DEF PutArray
    <3>3. Seen(b)' = store'[b]
      BY <1>3, <2>1, <2>3
    <3>4. CopyIn(b, a, Blank) \in [Offsets -> Value \cup {Undef}]
      <4>1. ASSUME NEW k \in Offsets, k < Width(b)
            PROVE  b * BlockSize + k \in Elements
        <5>1. k \in 0 .. (Width(b) - 1)
          BY <1>0, <4>1, Shape, ParametersAssumption DEF Offsets
        <5> QED
          BY <1>0, <5>1, InBlock
      <4> QED
        BY <1>1, <4>1 DEF CopyIn, Blank
    <3> QED
      BY <1>4, <3>2, <3>3, <3>4 DEF Encoded
  <2> QED
    BY <2>2, <2>3
<1>6. Abstract!Show(a, {})
  BY <1>1, <1>2, <1>5, ShowBlocks
<1> QED
  BY <1>6 DEF PutArray, Abstract!WriteAll

\* Writing all dirty blocks back and emptying the cache, as a flush and a
\* change of the cache's size do.
LEMMA FlushShows ==
  ASSUME CacheInv, CacheInv', nx' = nx, rate' = rate, store' = FlushedStore,
         \A s \in Slots' : tag'[s] = Unused
  PROVE  Abstract!Show(Content, {})
<1>1. Blocks' = Blocks
  BY DEF Blocks
<1>2. ASSUME NEW b \in Blocks
      PROVE  Untouched(b, Content) \/ Encoded(b, Content)
  <2>0. b \in Nat
    BY DEF Blocks
  <2>1. Seen(b)' = store'[b]
    BY <1>1, <2>0, SeenPrimed DEF Unused
  <2>2. \A k \in 0 .. (Width(b) - 1) : Content[b * BlockSize + k] = Seen(b)[k]
    BY ContentFacts
  <2>3. CASE DirtySlots(b) # {}
    <3>1. PICK s \in Slots : /\ tag[s].index = b + 1
                             /\ LastOf(DirtySlots(b)) = s
      BY <2>3, LastDirty
    <3>2. Seen(b) = line[s]
      BY <3>1, SeenFacts
    <3>3. store'[b] = Codec(rate, Width(b), line[s])
      BY <2>3, <3>1 DEF FlushedStore
    <3>4. line[s] \in [Offsets -> Value \cup {Undef}]
      BY DEF CacheInv, TypeOK
    <3> QED
      BY <2>1, <2>2, <3>2, <3>3, <3>4 DEF Encoded
  <2>4. CASE DirtySlots(b) = {}
    <3>1. store'[b] = store[b]
      BY <2>4 DEF FlushedStore
    <3>2. \A k \in 0 .. (Width(b) - 1) : Seen(b)[k] = store[b][k]
      <4>1. CASE \E s \in Slots : tag[s].index = b + 1
        <5>1. PICK s \in Slots : tag[s].index = b + 1
          BY <4>1
        <5>2. tag[s] # Unused /\ ~tag[s].dirty /\ tag[s].index - 1 = b
          BY <2>0, <2>4, <5>1 DEF Unused, DirtySlots
        <5> QED
          BY <5>1, <5>2, SeenFacts DEF CacheInv, ModifiedIsDirty
      <4>2. CASE \A s \in Slots : tag[s].index # b + 1
        BY <4>2, SeenFacts
      <4> QED
        BY <4>1, <4>2
    <3> QED
      BY <2>1, <2>2, <3>1, <3>2 DEF Untouched
  <2> QED
    BY <2>3, <2>4
<1>3. Content \in [Elements -> Value]
  BY ContentFacts
<1> QED
  BY <1>2, <1>3, ShowBlocks

LEMMA FlushRefines ==
  ASSUME CacheInv, SafeUse, CacheInv',
         FlushCache \/ \E n \in LineRequests : SetCacheSize(n)
  PROVE  Abstract!Save
<1>1. nx' = nx /\ rate' = rate /\ store' = FlushedStore /\ ret' = NoValue
  BY DEF FlushCache, SetCacheSize
<1>2. \A s \in Slots' : tag'[s] = Unused
  <2>1. CASE FlushCache
    BY <2>1 DEF FlushCache, Slots
  <2>2. ASSUME NEW n \in LineRequests, SetCacheSize(n)
        PROVE  \A s \in Slots' : tag'[s] = Unused
    BY <2>2 DEF SetCacheSize, NewCache, Slots
  <2> QED
    BY <2>1, <2>2
<1>3. Abstract!Show(Content, {})
  BY <1>1, <1>2, FlushShows
<1> QED
  BY <1>1, <1>3 DEF Abstract!Save, Content

\* After an operation that empties the cache the user sees the store.
LEMMA EmptyShowsStore ==
  ASSUME CacheInv', \A s \in Slots' : tag'[s] = Unused
  PROVE  Content' = Saved' /\ Saved' \in [Elements' -> Value]
<1>1. (Content \in [Elements -> Value] /\ Saved \in [Elements -> Value])'
  BY ContentTyped, PTL
<1>2. ASSUME NEW i \in Elements'
      PROVE  BlockOf(i) \in Nat
  <2>1. i \in Nat /\ BlockSize \in Nat \ {0}
    BY ParametersAssumption DEF Elements
  <2>2. i \div BlockSize \in Nat
    BY <2>1, DivMod
  <2> QED
    BY <2>2 DEF BlockOf
<1>3. \A i \in Elements' : SlotsOf(BlockOf(i))' = {}
  BY <1>2 DEF SlotsOf, Unused, BlockOf
<1>4. \A i \in Elements' : Visible(i)' = store'[BlockOf(i)][i % BlockSize]
  BY <1>3 DEF Visible, BlockOf
<1>5. /\ Content' = [i \in Elements' |-> Visible(i)']
      /\ Saved' = [i \in Elements' |-> store'[BlockOf(i)][i % BlockSize]]
  BY DEF Content, Saved, BlockOf
<1> QED
  BY <1>1, <1>4, <1>5

LEMMA ClearRefines ==
  ASSUME CacheInv, CacheInv', ClearCache
  PROVE  Abstract!Discard
<1>1. Content' = Saved'
  BY EmptyShowsStore DEF ClearCache, Slots
<1>2. Saved' = Saved /\ UNCHANGED <<nx, rate>> /\ ret' = NoValue
  BY DEF ClearCache, Saved, Elements, BlockOf
<1> QED
  BY <1>1, <1>2 DEF Abstract!Discard, Content, Saved

LEMMA ResetRefines ==
  ASSUME CacheInv, CacheInv',
         \/ \E r \in Rates : SetRate(r)
         \/ \E n \in Sizes, clear \in BOOLEAN : Resize(n, clear)
  PROVE  \E n \in Sizes, r \in Rates : Abstract!Reset(n, r)
<1>1. /\ nx' \in Sizes /\ rate' \in Rates /\ ret' = NoValue
      /\ \A s \in Slots' : tag'[s] = Unused
  BY DEF SetRate, Resize, Slots, CacheInv, TypeOK
<1>2. Content' = Saved' /\ Saved' \in [Elements' -> Value]
  BY <1>1, EmptyShowsStore
<1>3. Abstract!Elements(nx') = Elements'
  BY DEF Abstract!Elements, Elements
<1>4. ASSUME NEW n \in Sizes, NEW r \in Rates, nx' = n, rate' = r
      PROVE  Abstract!Reset(n, r)
  BY <1>1, <1>2, <1>3, <1>4 DEF Abstract!Reset, Content, Saved
<1> QED
  BY <1>1, <1>4

LEMMA InitRefines == Init => Abstract!Init
<1> SUFFICES ASSUME Init PROVE Abstract!Init
  OBVIOUS
<1>1. CacheInv /\ nx \in Nat
  BY InitEstablishes, ParametersAssumption DEF Init
<1>2. \A s \in Slots : tag[s] = Unused
  BY DEF Init, Slots
<1>3. ASSUME NEW i \in Elements
      PROVE  Visible(i) = Zero /\ store[BlockOf(i)][i % BlockSize] = Zero
  <2>1. /\ BlockOf(i) \in Blocks
        /\ BlockOf(i) \in Nat
        /\ i % BlockSize \in Offsets
    BY <1>1, OfBlock DEF Blocks
  <2>2. SlotsOf(BlockOf(i)) = {}
    BY <1>2, <2>1 DEF SlotsOf, Unused
  <2>3. store[BlockOf(i)][i % BlockSize] = Zero
    BY <2>1 DEF Init, ZeroStore, Blocks
  <2> QED
    BY <2>2, <2>3 DEF Visible
<1>4. Abstract!Elements(nx) = Elements
  BY DEF Abstract!Elements, Elements
<1>5. /\ [i \in Elements |-> Visible(i)] = [i \in Elements |-> Zero]
      /\ [i \in Elements |-> store[BlockOf(i)][i % BlockSize]] =
           [i \in Elements |-> Zero]
  BY <1>3
<1> QED
  BY <1>4, <1>5 DEF Init, Abstract!Init

LEMMA StepRefines ==
  ASSUME CacheInv, SafeUse, CacheInv', [Next]_vars
  PROVE  [Abstract!Next]_Abstract!vars
<1>0. Abstract!Elements(nx) = Elements
  BY DEF Abstract!Elements, Elements
<1>1. ASSUME NEW i \in Elements, Get(i)
      PROVE  Abstract!Next
  BY <1>0, <1>1, GetRefines DEF Abstract!Next
<1>2. ASSUME NEW i \in Elements, NEW v \in Value, Set(i, v)
      PROVE  Abstract!Next
  BY <1>0, <1>2, SetRefines DEF Abstract!Next
<1>3. CASE GetArray
  BY <1>3, GetArrayRefines DEF Abstract!Next
<1>4. ASSUME NEW a \in Inputs(nx), PutArray(a)
      PROVE  Abstract!Next
  BY <1>4, PutArrayRefines DEF Abstract!Next
<1>5. CASE FlushCache \/ \E n \in LineRequests : SetCacheSize(n)
  BY <1>5, FlushRefines DEF Abstract!Next
<1>6. CASE ClearCache
  BY <1>6, ClearRefines DEF Abstract!Next
<1>7. CASE \/ \E r \in Rates : SetRate(r)
           \/ \E n \in Sizes, clear \in BOOLEAN : Resize(n, clear)
  BY <1>7, ResetRefines DEF Abstract!Next
<1>8. CASE UNCHANGED vars
  BY <1>8 DEF vars, Abstract!vars, Visible, SlotsOf, Slots, Elements, BlockOf
<1> QED
  BY <1>1, <1>2, <1>3, <1>4, <1>5, <1>6, <1>7, <1>8 DEF Next

(***************************************************************************)
(* The fixed-rate array with its write-back cache implements the array     *)
(* without one, for all sizes, caches, codecs and hash functions: what     *)
(* array1::get returns is what was last assigned, except that a block may  *)
(* pass through the codec when, and only when, it is written back, and     *)
(* flush_cache, clear_cache, set_rate and resize do what LossyArray says.  *)
(***************************************************************************)
THEOREM CachedArrayImplementsArray ==
  ASSUME SafeUse
  PROVE  Spec => ImplementsLossyArray
<1>1. CacheInv /\ CacheInv' /\ [Next]_vars => [Abstract!Next]_Abstract!vars
  BY StepRefines
<1> QED
  BY <1>1, CacheInvariant, InitRefines, PTL
  DEF Spec, ImplementsLossyArray, Abstract!Spec
=============================================================================
