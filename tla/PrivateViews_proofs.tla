------------------------- MODULE PrivateViews_proofs -------------------------
(***************************************************************************)
(* For any number of views, blocks and words per block: threads that use   *)
(* private views as documented never use the array's bit stream at the     *)
(* same time, and never find a block other than as it was last stored.     *)
(*                                                                         *)
(* The heart of the argument is AtMostOneUnsafe: at most one view that     *)
(* exists may ever have seen thread_safety to be false, because the flag   *)
(* is cleared only when at most one view remains and every view that joins *)
(* another has set the flag itself.                                        *)
(***************************************************************************)
EXTENDS PrivateViews, FiniteSetTheorems, TLAPS

\* A view that does not exist has no cache and calls nobody.
DeadIsIdle ==
  \A v \in Views : v \notin live =>
    /\ visible[v] = {}
    /\ call[v] = NoCall
    /\ cache[v] = [b \in Blocks |-> Absent]

AtMostOneUnsafe ==
  \A v, w \in live : FALSE \in visible[v] /\ FALSE \in visible[w] => v = w

\* A call on the shared stream was begun by a view that saw the flag false.
SharedIsUnsafe == \A v \in Views : ~call[v].clone => FALSE \in visible[v]

\* No two views that write share a block.
RegionsDisjoint ==
  mutable => /\ \A v \in live : region[v] \in Regions
             /\ \A v, w \in live : v # w => region[v] # region[w]

\* A cache holds blocks of the view's region, and modified ones only if the
\* view may write.
CachedInRegion ==
  \A v \in Views : \A b \in Blocks :
    /\ cache[v][b] # Absent => b \in region[v] /\ v \in live
    /\ cache[v][b].state = "dirty" => mutable

\* A call is at the word of its block that it codes next.
CallInPlace ==
  \A v \in Views : call[v].sought /\ call[v].count < Words =>
    CallPlace(v) = <<call[v].block, call[v].count>>

\* A call that encodes has written so many words of the block.
EncodeProgress ==
  \A v \in Views : call[v].kind = "encode" =>
    /\ cache[v][call[v].block] = Dirty(stored[call[v].block])
    /\ \A k \in 0 .. (Words - 1) : k < call[v].count =>
         store[<<call[v].block, k>>] = Word(stored[call[v].block], k)

\* A call that decodes has read so many words of the block as last stored.
DecodeProgress ==
  \A v \in Views : call[v].kind = "decode" =>
    /\ call[v].block \in region[v]
    /\ cache[v][call[v].block] = Absent
    /\ \A k \in 0 .. (Words - 1) : k < call[v].count =>
         call[v].words[k] = Word(stored[call[v].block], k)

\* A call that has not begun to code has coded nothing.
Unsought ==
  \A v \in Views :
    /\ call[v].kind = "none" => call[v] = NoCall
    /\ ~call[v].sought => call[v].count = 0

ViewInv ==
  /\ TypeOK
  /\ DeadIsIdle
  /\ AtMostOneUnsafe
  /\ SharedIsUnsafe
  /\ RegionsDisjoint
  /\ CachedInRegion
  /\ CallInPlace
  /\ EncodeProgress
  /\ DecodeProgress
  /\ Unsought
  /\ StoreIntact
  /\ CachesCoherent
-----------------------------------------------------------------------------
\* Proofs
LEMMA NoCallType == NoCall \in Calls
BY ViewsAssumption DEF NoCall, Calls, NoWords, Places, Blocks

LEMMA AbsentType == Absent \in Lines
BY DEF Lines

\* Words that encode a value are decoded to it.
LEMMA DecodedValue ==
  ASSUME NEW words, NEW val \in Value, Encodes(words, val)
  PROVE  Decoded(words) = val
<1>1. \A other \in Value : Encodes(words, other) => other = val
  <2>1. 0 \in 0 .. (Words - 1)
    BY ViewsAssumption
  <2> QED
    BY <2>1 DEF Encodes, Word
<1> QED
  BY <1>1 DEF Decoded

\* The place after a place is a place.
LEMMA AfterType == \A p \in Places : After(p) \in Places
BY ViewsAssumption DEF After, Places, Blocks

\* Two views that share a block and of which one has modified it are one.
LEMMA OneWriter ==
  ASSUME ViewInv, mutable, NEW v \in live, NEW w \in live,
         NEW b \in region[v], b \in region[w]
  PROVE  v = w
BY ViewsAssumption DEF ViewInv, RegionsDisjoint

LEMMA InitInv == Init => ViewInv
<1> SUFFICES ASSUME Init PROVE ViewInv
  OBVIOUS
<1>1. TypeOK
  <2>1. Cardinality({}) = 0
    BY FS_EmptySet
  <2>2. store \in [Places -> StoredWords]
    BY ViewsAssumption DEF Init, StoredWords, Places
  <2>3. cache \in [Views -> [Blocks -> Lines]] /\ call \in [Views -> Calls]
    BY NoCallType, AbsentType DEF Init
  <2>4. position \in Places /\ stored \in [Blocks -> Value]
    BY ViewsAssumption DEF Init, Places, Blocks
  <2>5. region \in [Views -> SUBSET Blocks] /\ visible \in [Views -> SUBSET BOOLEAN]
    BY DEF Init
  <2> QED
    BY <2>1, <2>2, <2>3, <2>4, <2>5 DEF Init, TypeOK
<1>2. DeadIsIdle /\ AtMostOneUnsafe /\ SharedIsUnsafe /\ RegionsDisjoint
  BY DEF Init, DeadIsIdle, AtMostOneUnsafe, SharedIsUnsafe, RegionsDisjoint, NoCall
<1>3. CachedInRegion /\ CachesCoherent
  BY DEF Init, CachedInRegion, CachesCoherent, Absent
<1>4. CallInPlace /\ EncodeProgress /\ DecodeProgress /\ Unsought
  BY DEF Init, CallInPlace, EncodeProgress, DecodeProgress, Unsought, NoCall
<1>5. StoreIntact
  BY DEF Init, StoreIntact, Places
<1> QED
  BY <1>1, <1>2, <1>3, <1>4, <1>5 DEF ViewInv

\* The flag and the count when a view is constructed.
LEMMA ConstructSafety ==
  ASSUME ViewInv, NEW v \in Views, v \notin live,
         live' = live \cup {v}, references' = Reference,
         SetThreadSafety(Reference, live', {v}), UNCHANGED call
  PROVE  /\ live' \in SUBSET Views
         /\ references' = Cardinality(live')
         /\ threadSafety' \in BOOLEAN
         /\ visible' \in [Views -> SUBSET BOOLEAN]
         /\ AtMostOneUnsafe'
         /\ SharedIsUnsafe'
<1>1. IsFiniteSet(live) /\ live \in SUBSET Views /\ references = Cardinality(live)
  BY ViewsAssumption, FS_Subset DEF ViewInv, TypeOK
<1>2. references \in Nat
  BY <1>1, FS_CardinalityType
<1>3. references' = Cardinality(live')
  BY <1>1, <1>2, FS_AddElement DEF Reference
<1>4. visible' \in [Views -> SUBSET BOOLEAN]
  <2> DEFINE flag == Reference > 1
  <2>1. flag \in BOOLEAN
    OBVIOUS
  <2>2. visible' = [w \in Views |->
                      IF w \in {v} THEN {flag}
                      ELSE IF w \in live' THEN visible[w] \cup {flag} ELSE {}]
    BY DEF SetThreadSafety
  <2>3. visible \in [Views -> SUBSET BOOLEAN]
    BY DEF ViewInv, TypeOK
  <2> QED
    BY ONLY <2>1, <2>2, <2>3, Zenon
<1>5. AtMostOneUnsafe'
  <2>1. CASE live = {}
    BY <2>1 DEF AtMostOneUnsafe
  <2>2. CASE live # {}
    <3>1. references # 0
      BY <1>1, <2>2, FS_EmptySet
    <3>2. Reference > 1
      BY <1>2, <3>1 DEF Reference
    <3>3. visible'[v] = {TRUE}
      BY <3>2 DEF SetThreadSafety
    <3>4. \A w \in live : visible'[w] = visible[w] \cup {TRUE}
      BY <1>1, <3>2 DEF SetThreadSafety
    <3> QED
      BY <3>3, <3>4 DEF AtMostOneUnsafe, ViewInv
  <2> QED
    BY <2>1, <2>2
<1>6. SharedIsUnsafe'
  <2> SUFFICES ASSUME NEW w \in Views, ~call[w].clone
               PROVE  FALSE \in visible'[w]
    BY DEF SharedIsUnsafe
  <2>1. w \in live
    BY DEF ViewInv, DeadIsIdle, NoCall
  <2>2. FALSE \in visible[w]
    BY DEF ViewInv, SharedIsUnsafe
  <2>3. visible'[w] = visible[w] \cup {Reference > 1}
    BY <2>1 DEF SetThreadSafety
  <2> QED
    BY <2>2, <2>3
<1>7. threadSafety' \in BOOLEAN
  BY DEF SetThreadSafety
<1> QED
  BY <1>1, <1>3, <1>4, <1>5, <1>6, <1>7

\* A view that did not exist leaves the store, the caches and calls alone.
LEMMA ConstructInv ==
  ASSUME ViewInv, NEW v \in Views, v \notin live,
         live' = live \cup {v}, references' = Reference,
         SetThreadSafety(Reference, live', {v}),
         NEW r \in SUBSET Blocks, region' = [region EXCEPT ![v] = r],
         mutable' \in BOOLEAN, live = {} \/ mutable' = mutable,
         RegionsDisjoint',
         UNCHANGED <<position, store, cache, call, stored>>
  PROVE  ViewInv'
<1>1. TypeOK'
  BY ConstructSafety DEF ViewInv, TypeOK
<1>2. AtMostOneUnsafe' /\ SharedIsUnsafe'
  BY ConstructSafety
<1>3. DeadIsIdle'
  BY DEF ViewInv, DeadIsIdle, SetThreadSafety
<1>4. CachedInRegion'
  <2> SUFFICES ASSUME NEW w \in Views, NEW b \in Blocks
               PROVE  /\ cache[w][b] # Absent => b \in region'[w] /\ w \in live'
                      /\ cache[w][b].state = "dirty" => mutable'
    BY DEF CachedInRegion
  <2>1. w \notin live => cache[w][b] = Absent
    BY DEF ViewInv, DeadIsIdle
  <2>2. w \in live => region'[w] = region[w] /\ mutable' = mutable
    BY DEF ViewInv, TypeOK
  <2> QED
    BY <2>1, <2>2 DEF ViewInv, CachedInRegion, Absent
<1>5. CallInPlace' /\ EncodeProgress' /\ Unsought' /\ StoreIntact' /\ CachesCoherent'
  BY DEF ViewInv, CallInPlace, CallPlace, EncodeProgress, Unsought, StoreIntact,
         CachesCoherent
<1>6. DecodeProgress'
  <2> SUFFICES ASSUME NEW w \in Views, call[w].kind = "decode"
               PROVE  call[w].block \in region'[w]
    BY DEF ViewInv, DecodeProgress
  <2>1. w \in live
    BY DEF ViewInv, DeadIsIdle, NoCall
  <2> QED
    BY <2>1 DEF ViewInv, DecodeProgress, TypeOK
<1> QED
  BY <1>1, <1>2, <1>3, <1>4, <1>5, <1>6 DEF ViewInv

LEMMA ConstructMutableInv ==
  ASSUME ViewInv, NEW v \in Views, NEW r \in Regions, ConstructMutable(v, r)
  PROVE  ViewInv'
<1>1. r \in SUBSET Blocks
  BY ViewsAssumption
<1>2. RegionsDisjoint'
  BY DEF ConstructMutable, RegionsDisjoint, ViewInv, TypeOK
<1> QED
  BY <1>1, <1>2, ConstructInv DEF ConstructMutable, ViewInv, TypeOK

LEMMA ConstructConstInv ==
  ASSUME ViewInv, NEW v \in Views, ConstructConst(v)
  PROVE  ViewInv'
<1>1. RegionsDisjoint'
  BY DEF ConstructConst, RegionsDisjoint
<1>2. Blocks \in SUBSET Blocks
  OBVIOUS
<1> QED
  BY <1>1, <1>2, ConstructInv DEF ConstructConst, ViewInv, TypeOK

LEMMA DestroyInv ==
  ASSUME ViewInv, NEW v \in Views, Destroy(v)
  PROVE  ViewInv'
<1> DEFINE count == references - 1
<1>1. IsFiniteSet(live) /\ live \in SUBSET Views /\ references = Cardinality(live)
  BY ViewsAssumption, FS_Subset DEF ViewInv, TypeOK
<1>2. references \in Nat
  BY <1>1, FS_CardinalityType
<1>3. IsFiniteSet(live') /\ count = Cardinality(live')
  BY <1>1, FS_RemoveElement DEF Destroy
<1>4. TypeOK'
  <2>1. visible' \in [Views -> SUBSET BOOLEAN]
    <3> DEFINE flag == count > 1
    <3>1. flag \in BOOLEAN
      OBVIOUS
    <3>2. visible' = [w \in Views |->
                        IF w \in {} THEN {flag}
                        ELSE IF w \in live' THEN visible[w] \cup {flag} ELSE {}]
      BY DEF Destroy, SetThreadSafety
    <3>3. visible \in [Views -> SUBSET BOOLEAN]
      BY DEF ViewInv, TypeOK
    <3> QED
      BY ONLY <3>1, <3>2, <3>3, Zenon
  <2>4. threadSafety' \in BOOLEAN
    BY DEF Destroy, SetThreadSafety
  <2>2. cache' \in [Views -> [Blocks -> Lines]]
    BY AbsentType DEF Destroy, ViewInv, TypeOK
  <2>3. live' \in SUBSET Views /\ references' = Cardinality(live')
    BY <1>1, <1>3 DEF Destroy
  <2> QED
    BY <2>1, <2>2, <2>3, <2>4 DEF Destroy, ViewInv, TypeOK
<1>5. DeadIsIdle'
  BY DEF Destroy, SetThreadSafety, ViewInv, DeadIsIdle, TypeOK
<1>6. \A w \in live' : visible'[w] = visible[w] \cup {count > 1}
  BY <1>1 DEF Destroy, SetThreadSafety
<1>7. AtMostOneUnsafe'
  <2>1. CASE count > 1
    <3>1. \A w \in live' : visible'[w] = visible[w] \cup {TRUE}
      BY <1>6, <2>1
    <3> QED
      BY <3>1, ZenonT(40) DEF AtMostOneUnsafe, ViewInv, Destroy
  <2>2. CASE ~(count > 1)
    <3>1. count = 0 \/ count = 1
      BY <1>1, <1>2, <1>3, <2>2, FS_CardinalityType
    <3>2. \A x, y \in live' : x = y
      BY <1>3, <3>1, FS_EmptySet, FS_Singleton
    <3> QED
      BY <3>2 DEF AtMostOneUnsafe
  <2> QED
    BY <2>1, <2>2
<1>8. SharedIsUnsafe'
  <2> SUFFICES ASSUME NEW w \in Views, ~call[w].clone
               PROVE  FALSE \in visible'[w]
    BY DEF SharedIsUnsafe, Destroy
  <2>1. w \in live'
    BY DEF ViewInv, DeadIsIdle, NoCall, Destroy
  <2> QED
    BY <1>6, <2>1 DEF ViewInv, SharedIsUnsafe
<1>9. RegionsDisjoint'
  BY <1>1 DEF Destroy, RegionsDisjoint, ViewInv, TypeOK
<1>10. CachedInRegion'
  BY DEF Destroy, CachedInRegion, ViewInv, TypeOK, Absent
<1>11. CallInPlace' /\ Unsought' /\ StoreIntact'
  BY DEF Destroy, ViewInv, CallInPlace, CallPlace, Unsought, StoreIntact
<1>12. EncodeProgress' /\ DecodeProgress'
  BY DEF Destroy, ViewInv, EncodeProgress, DecodeProgress, NoCall, TypeOK
<1>13. CachesCoherent'
  BY DEF Destroy, ViewInv, CachesCoherent, TypeOK, Absent
<1> QED
  BY <1>4, <1>5, <1>7, <1>8, <1>9, <1>10, <1>11, <1>12, <1>13 DEF ViewInv

LEMMA DirtyNotAbsent == \A val : Dirty(val) # Absent
<1> SUFFICES ASSUME NEW val PROVE Dirty(val).state # Absent.state
  OBVIOUS
<1> QED
  BY DEF Dirty, Absent

LEMMA DirtyFields == \A val : Dirty(val).state = "dirty" /\ Dirty(val).val = val
BY DEF Dirty

LEMMA BeginDecodeInv ==
  ASSUME ViewInv, NEW v \in Views, NEW b \in Blocks, BeginDecode(v, b)
  PROVE  ViewInv'
<1> PICK safe \in visible[v] : call' = [call EXCEPT ![v] = Begun("decode", b, safe)]
  BY DEF BeginDecode
<1>1. safe \in BOOLEAN
  BY DEF ViewInv, TypeOK
<1>2. Begun("decode", b, safe) \in Calls
  <2>1. position \in Places
    BY <1>1 DEF ViewInv, TypeOK
  <2> QED
    BY <1>1, <2>1, NoCallType DEF Begun, NoCall, Calls
<1>3. TypeOK'
  BY <1>2 DEF BeginDecode, ViewInv, TypeOK
<1>4. /\ call'[v] = Begun("decode", b, safe)
      /\ \A w \in Views : w # v => call'[w] = call[w]
  BY DEF ViewInv, TypeOK
<1>5. /\ call'[v].kind = "decode" /\ call'[v].block = b
      /\ call'[v].clone = safe
      /\ ~call'[v].sought /\ call'[v].count = 0
  <2>1. /\ Begun("decode", b, safe).kind = "decode"
        /\ Begun("decode", b, safe).block = b
        /\ Begun("decode", b, safe).clone = safe
        /\ Begun("decode", b, safe).sought = FALSE
        /\ Begun("decode", b, safe).count = 0
    BY DEF Begun, NoCall
  <2> QED
    BY <1>4, <2>1
<1>6. DeadIsIdle'
  BY <1>4 DEF BeginDecode, ViewInv, DeadIsIdle
<1>11. AtMostOneUnsafe' /\ RegionsDisjoint' /\ CachedInRegion' /\ CachesCoherent'
  BY DEF BeginDecode, ViewInv, AtMostOneUnsafe, RegionsDisjoint, CachedInRegion,
         CachesCoherent
<1>7. SharedIsUnsafe'
  <2>1. ~call'[v].clone => FALSE \in visible[v]
    BY <1>1, <1>5
  <2> QED
    BY <1>4, <2>1 DEF BeginDecode, ViewInv, SharedIsUnsafe
<1>8. CallInPlace' /\ Unsought'
  BY <1>4, <1>5 DEF BeginDecode, ViewInv, CallInPlace, CallPlace, Unsought
<1>9. EncodeProgress' /\ DecodeProgress'
  BY <1>4, <1>5 DEF BeginDecode, ViewInv, EncodeProgress, DecodeProgress
<1>10. StoreIntact'
  BY <1>4, <1>5 DEF BeginDecode, ViewInv, StoreIntact, NoCall
<1> QED
  BY <1>3, <1>6, <1>7, <1>8, <1>9, <1>10, <1>11 DEF ViewInv

LEMMA BeginEncodeInv ==
  ASSUME ViewInv, NEW v \in Views, NEW b \in Blocks, BeginEncode(v, b)
  PROVE  ViewInv'
<1> PICK safe \in visible[v] : call' = [call EXCEPT ![v] = Begun("encode", b, safe)]
  BY DEF BeginEncode
<1>1. safe \in BOOLEAN
  BY DEF ViewInv, TypeOK
<1>2. Begun("encode", b, safe) \in Calls
  <2>1. position \in Places
    BY <1>1 DEF ViewInv, TypeOK
  <2> QED
    BY <1>1, <2>1, NoCallType DEF Begun, NoCall, Calls
<1>3. cache[v][b] = Dirty(cache[v][b].val) /\ cache[v][b].val \in Value
  BY DEF BeginEncode, ViewInv, TypeOK, Lines, Absent, Clean, Dirty
<1>4. TypeOK'
  BY <1>2, <1>3 DEF BeginEncode, ViewInv, TypeOK
<1>5. /\ call'[v] = Begun("encode", b, safe)
      /\ \A w \in Views : w # v => call'[w] = call[w]
      /\ stored'[b] = cache[v][b].val
      /\ \A c \in Blocks : c # b => stored'[c] = stored[c]
  BY DEF BeginEncode, ViewInv, TypeOK
<1>6. /\ call'[v].kind = "encode" /\ call'[v].block = b
      /\ call'[v].clone = safe
      /\ ~call'[v].sought /\ call'[v].count = 0
  <2>1. /\ Begun("encode", b, safe).kind = "encode"
        /\ Begun("encode", b, safe).block = b
        /\ Begun("encode", b, safe).clone = safe
        /\ Begun("encode", b, safe).sought = FALSE
        /\ Begun("encode", b, safe).count = 0
    BY DEF Begun, NoCall
  <2> QED
    BY <1>5, <2>1
<1>7. DeadIsIdle' /\ AtMostOneUnsafe' /\ RegionsDisjoint' /\ CachedInRegion'
  BY <1>5, ZenonT(40) DEF BeginEncode, ViewInv, DeadIsIdle, AtMostOneUnsafe, RegionsDisjoint,
         CachedInRegion
<1>8. SharedIsUnsafe'
  <2>1. ~call'[v].clone => FALSE \in visible[v]
    BY <1>1, <1>6
  <2> QED
    BY <1>5, <2>1 DEF BeginEncode, ViewInv, SharedIsUnsafe
<1>9. CallInPlace' /\ Unsought'
  BY <1>5, <1>6 DEF BeginEncode, ViewInv, CallInPlace, CallPlace, Unsought
<1>10. v \in live /\ mutable /\ b \in region[v]
  BY DEF BeginEncode, ViewInv, CachedInRegion, Absent
<1>11. \A w \in live : b \in region[w] => w = v
  BY <1>10, OneWriter
<1>12. \A w \in Views : cache[w][b] # Absent => w = v
  BY <1>11 DEF ViewInv, CachedInRegion
<1>13. CachesCoherent'
  BY <1>3, <1>5, <1>12 DEF BeginEncode, ViewInv, CachesCoherent, Absent, Dirty
<1>14. \A w \in Views : w # v /\ call[w].kind # "none" =>
         call[w].block # b /\ call[w].block \in Blocks
  <2> SUFFICES ASSUME NEW w \in Views, w # v, call[w].kind # "none"
               PROVE  call[w].block # b /\ call[w].block \in Blocks
    OBVIOUS
  <2>1. call[w] \in Calls
    BY DEF ViewInv, TypeOK
  <2>2. call[w].block \in Blocks /\ call[w].kind \in {"decode", "encode"}
    BY <2>1 DEF Calls
  <2>3. w \in live
    BY DEF ViewInv, DeadIsIdle, NoCall
  <2>4. CASE call[w].kind = "decode"
    BY <1>11, <2>2, <2>3, <2>4 DEF ViewInv, DecodeProgress
  <2>5. CASE call[w].kind = "encode"
    BY <1>12, <2>2, <2>5, DirtyNotAbsent DEF ViewInv, EncodeProgress
  <2> QED
    BY <2>2, <2>4, <2>5
<1>15. EncodeProgress'
  BY <1>3, <1>5, <1>6, <1>14 DEF BeginEncode, ViewInv, EncodeProgress
<1>16. DecodeProgress'
  BY <1>5, <1>6, <1>14 DEF BeginEncode, ViewInv, DecodeProgress
<1>17. StoreIntact'
  BY <1>5, <1>6 DEF BeginEncode, ViewInv, StoreIntact, NoCall
<1> QED
  BY <1>4, <1>7, <1>8, <1>9, <1>13, <1>15, <1>16, <1>17 DEF ViewInv

LEMMA SharedExclusive == ViewInv => SharedStreamExclusive
BY DEF ViewInv, SharedStreamExclusive, SharedIsUnsafe, AtMostOneUnsafe, DeadIsIdle, NoCall

LEMMA SeekInv ==
  ASSUME ViewInv, NEW v \in Views, Seek(v)
  PROVE  ViewInv'
<1>1. call[v] \in Calls
  BY DEF ViewInv, TypeOK
<1>2. call[v].block \in Blocks /\ <<call[v].block, 0>> \in Places
  BY <1>1, ViewsAssumption DEF Calls, Places
<1>3. call'[v] = [call[v] EXCEPT !.sought = TRUE, !.at = <<call[v].block, 0>>]
  BY DEF Seek, ViewInv, TypeOK
<1>4. \A w \in Views : w # v => call'[w] = call[w]
  BY DEF Seek, ViewInv, TypeOK
<1>5. call'[v] \in Calls
  BY <1>1, <1>2, <1>3 DEF Calls
<1>6. /\ call'[v].kind = call[v].kind /\ call'[v].block = call[v].block
      /\ call'[v].clone = call[v].clone /\ call'[v].count = call[v].count
      /\ call'[v].words = call[v].words /\ call'[v].sought
      /\ call'[v].at = <<call[v].block, 0>>
  BY <1>1, <1>3 DEF Calls
<1>7. TypeOK'
  <2>1. call' \in [Views -> Calls]
    BY <1>4, <1>5 DEF Seek, ViewInv, TypeOK
  <2>2. position' \in Places
    BY <1>2 DEF Seek, ViewInv, TypeOK
  <2> QED
    BY <2>1, <2>2 DEF Seek, ViewInv, TypeOK
<1>8. DeadIsIdle'
  <2>1. v \in live
    BY DEF Seek, ViewInv, DeadIsIdle, NoCall
  <2> QED
    BY <1>4, <2>1 DEF Seek, ViewInv, DeadIsIdle
<1>12. AtMostOneUnsafe' /\ RegionsDisjoint' /\ CachedInRegion' /\ CachesCoherent'
  BY DEF Seek, ViewInv, AtMostOneUnsafe, RegionsDisjoint, CachedInRegion, CachesCoherent
<1>9. SharedIsUnsafe' /\ Unsought'
  BY <1>4, <1>6 DEF Seek, ViewInv, SharedIsUnsafe, Unsought
<1>10. CallInPlace'
  <2> SUFFICES ASSUME NEW w \in Views, call'[w].sought, call'[w].count < Words
               PROVE  CallPlace(w)' = <<call'[w].block, call'[w].count>>
    BY DEF CallInPlace
  <2>1. CASE w = v
    BY <1>6, <2>1 DEF Seek, ViewInv, Unsought, CallPlace
  <2>2. CASE w # v /\ ~call[w].clone /\ ~call[v].clone
    BY <2>2, SharedExclusive DEF SharedStreamExclusive
  <2>3. CASE w # v /\ ~(~call[w].clone /\ ~call[v].clone)
    BY <1>4, <2>3 DEF Seek, ViewInv, CallInPlace, CallPlace
  <2> QED
    BY <2>1, <2>2, <2>3
<1>13. \A w \in Views :
         /\ call'[w].kind = call[w].kind /\ call'[w].block = call[w].block
         /\ call'[w].count = call[w].count /\ call'[w].words = call[w].words
  BY <1>4, <1>6
<1>11. EncodeProgress'
  BY <1>13, ZenonT(40) DEF Seek, ViewInv, EncodeProgress
<1>14. DecodeProgress'
  BY <1>13, ZenonT(40) DEF Seek, ViewInv, DecodeProgress
<1>15. StoreIntact'
  BY <1>13, ZenonT(40) DEF Seek, ViewInv, StoreIntact
<1> QED
  BY <1>7, <1>8, <1>9, <1>10, <1>11, <1>12, <1>14, <1>15 DEF ViewInv

LEMMA CodeWordInv ==
  ASSUME ViewInv, NEW v \in Views, CodeWord(v)
  PROVE  ViewInv'
<1> DEFINE b == call[v].block
           k == call[v].count
<1>1. call[v] \in Calls
  BY DEF ViewInv, TypeOK
<1>2. b \in Blocks /\ k \in 0 .. (Words - 1) /\ k + 1 \in 0 .. Words /\ <<b, k>> \in Places
  BY <1>1, ViewsAssumption DEF Calls, Places, CodeWord
<1>3. CallPlace(v) = <<b, k>>
  BY DEF ViewInv, CallInPlace, CodeWord
<1>4. call[v].kind \in {"decode", "encode"} /\ v \in live
  BY <1>1 DEF Calls, CodeWord, ViewInv, Unsought, NoCall, DeadIsIdle
<1>5. \A w \in Views : w # v => call'[w] = call[w]
  BY DEF CodeWord, ViewInv, TypeOK
<1>6. call'[v] = [call[v] EXCEPT !.count = k + 1, !.at = After(<<b, k>>),
                    !.words = IF call[v].kind = "decode"
                              THEN [@ EXCEPT ![k] = store[<<b, k>>]] ELSE @]
  BY <1>3 DEF CodeWord, ViewInv, TypeOK
<1>7. /\ call'[v].kind = call[v].kind /\ call'[v].block = b
      /\ call'[v].clone = call[v].clone /\ call'[v].sought = call[v].sought
      /\ call'[v].count = k + 1 /\ call'[v].at = After(<<b, k>>)
      /\ call'[v].words = IF call[v].kind = "decode"
                          THEN [call[v].words EXCEPT ![k] = store[<<b, k>>]]
                          ELSE call[v].words
  BY <1>1, <1>6 DEF Calls
<1>8. store' = IF call[v].kind = "encode"
               THEN [store EXCEPT ![<<b, k>>] = Word(cache[v][b].val, k)]
               ELSE store
  BY <1>3 DEF CodeWord
<1>9. position' = IF ~call[v].clone THEN After(<<b, k>>) ELSE position
  BY <1>3 DEF CodeWord
<1>10. call[v].kind = "encode" =>
         cache[v][b].val = stored[b] /\ cache[v][b].val \in Value
  BY <1>2, DirtyFields DEF ViewInv, EncodeProgress, TypeOK
<1>11. TypeOK'
  <2>1. call'[v] \in Calls
    <3>1. call'[v].words \in [0 .. (Words - 1) -> StoredWords \cup {Garbage}]
      BY <1>1, <1>2, <1>7 DEF Calls, ViewInv, TypeOK
    <3> QED
      BY <1>1, <1>2, <1>6, <1>7, <3>1, AfterType DEF Calls
  <2>2. call' \in [Views -> Calls]
    BY <1>5, <2>1 DEF CodeWord, ViewInv, TypeOK
  <2>3. position' \in Places
    BY <1>2, <1>9, AfterType DEF ViewInv, TypeOK
  <2>4. store' \in [Places -> StoredWords]
    BY <1>2, <1>8, <1>10 DEF ViewInv, TypeOK, StoredWords
  <2> QED
    BY <2>2, <2>3, <2>4 DEF CodeWord, ViewInv, TypeOK
<1>12. DeadIsIdle'
  BY <1>4, <1>5 DEF CodeWord, ViewInv, DeadIsIdle
<1>13. AtMostOneUnsafe' /\ RegionsDisjoint' /\ CachedInRegion' /\ CachesCoherent'
  BY DEF CodeWord, ViewInv, AtMostOneUnsafe, RegionsDisjoint, CachedInRegion, CachesCoherent
<1>14. SharedIsUnsafe' /\ Unsought'
  BY <1>4, <1>5, <1>7, ZenonT(40) DEF CodeWord, ViewInv, SharedIsUnsafe, Unsought
<1>15. CallInPlace'
  <2> SUFFICES ASSUME NEW w \in Views, call'[w].sought, call'[w].count < Words
               PROVE  CallPlace(w)' = <<call'[w].block, call'[w].count>>
    BY DEF CallInPlace
  <2>1. CASE w = v
    <3>1. After(<<b, k>>) = <<b, k + 1>>
      BY <1>7, <2>1 DEF After
    <3> QED
      BY <1>7, <1>9, <2>1, <3>1 DEF CallPlace
  <2>2. CASE w # v /\ ~call[w].clone /\ ~call[v].clone
    BY <2>2, SharedExclusive DEF SharedStreamExclusive
  <2>3. CASE w # v /\ ~(~call[w].clone /\ ~call[v].clone)
    BY <1>5, <1>9, <2>3 DEF ViewInv, CallInPlace, CallPlace
  <2> QED
    BY <2>1, <2>2, <2>3
<1>16. \A w \in Views : call[v].kind = "encode" /\ w # v /\ call[w].kind # "none" =>
         call[w].block # b
  <2> SUFFICES ASSUME NEW w \in Views, call[v].kind = "encode", w # v,
                      call[w].kind # "none"
               PROVE  call[w].block # b
    OBVIOUS
  <2>1. call[w] \in Calls
    BY DEF ViewInv, TypeOK
  <2>2. call[w].block \in Blocks /\ call[w].kind \in {"decode", "encode"} /\ w \in live
    BY <2>1 DEF Calls, ViewInv, DeadIsIdle, NoCall
  <2>3. cache[v][b] # Absent /\ cache[v][b].state = "dirty"
    BY <1>2, DirtyNotAbsent, DirtyFields DEF ViewInv, EncodeProgress
  <2>4. b \in region[v] /\ mutable
    BY <1>2, <2>3 DEF ViewInv, CachedInRegion
  <2>5. call[w].block \in region[w]
    <3>1. CASE call[w].kind = "decode"
      BY <3>1 DEF ViewInv, DecodeProgress
    <3>2. CASE call[w].kind = "encode"
      BY <2>2, <3>2, DirtyNotAbsent DEF ViewInv, EncodeProgress, CachedInRegion
    <3> QED
      BY <2>2, <3>1, <3>2
  <2> QED
    BY <1>4, <2>2, <2>4, <2>5, OneWriter
<1>17. \A c \in Blocks : \A j \in 0 .. (Words - 1) :
         <<c, j>> \in Places /\ (c # b => store'[<<c, j>>] = store[<<c, j>>])
  BY <1>8 DEF Places, ViewInv, TypeOK
<1>21. cache' = cache /\ stored' = stored /\ region' = region
  BY DEF CodeWord
<1>18. EncodeProgress'
  <2> SUFFICES ASSUME NEW w \in Views, call'[w].kind = "encode"
               PROVE  /\ cache[w][call'[w].block] = Dirty(stored[call'[w].block])
                      /\ \A j \in 0 .. (Words - 1) : j < call'[w].count =>
                           store'[<<call'[w].block, j>>] = Word(stored[call'[w].block], j)
    BY <1>21 DEF EncodeProgress
  <2>1. CASE w = v
    <3>1. cache[v][b] = Dirty(stored[b])
      BY <1>7, <2>1 DEF ViewInv, EncodeProgress
    <3>2. ASSUME NEW j \in 0 .. (Words - 1), j < k + 1
          PROVE  store'[<<b, j>>] = Word(stored[b], j)
      <4>1. CASE j = k
        BY <1>2, <1>7, <1>8, <1>10, <2>1, <4>1 DEF ViewInv, TypeOK
      <4>2. CASE j # k
        <5>1. store'[<<b, j>>] = store[<<b, j>>]
          BY <1>2, <1>8, <4>2, <1>17 DEF ViewInv, TypeOK
        <5>2. j < k
          BY <1>2, <3>2, <4>2
        <5> QED
          BY <1>7, <2>1, <5>1, <5>2 DEF ViewInv, EncodeProgress
      <4> QED
        BY <4>1, <4>2
    <3> QED
      BY <1>7, <2>1, <3>1, <3>2
  <2>2. CASE w # v
    <3>1. call'[w] = call[w] /\ call[w].block \in Blocks
      BY <1>5, <2>2 DEF ViewInv, TypeOK, Calls
    <3>2. \A j \in 0 .. (Words - 1) : store'[<<call[w].block, j>>] = store[<<call[w].block, j>>]
      BY <1>8, <1>16, <1>17, <2>2, <3>1
    <3> QED
      BY <3>1, <3>2 DEF ViewInv, EncodeProgress
  <2> QED
    BY <2>1, <2>2
<1>19. DecodeProgress'
  <2> SUFFICES ASSUME NEW w \in Views, call'[w].kind = "decode"
               PROVE  /\ call'[w].block \in region[w]
                      /\ cache[w][call'[w].block] = Absent
                      /\ \A j \in 0 .. (Words - 1) : j < call'[w].count =>
                           call'[w].words[j] = Word(stored[call'[w].block], j)
    BY <1>21 DEF DecodeProgress
  <2>1. CASE w = v
    <3>1. b \in region[v] /\ cache[v][b] = Absent
      BY <1>7, <2>1 DEF ViewInv, DecodeProgress
    <3>2. store[<<b, k>>] = Word(stored[b], k)
      <4>1. \A u \in Views : ~(call[u].kind = "encode" /\ call[u].block = b)
        <5> SUFFICES ASSUME NEW u \in Views, call[u].kind = "encode", call[u].block = b
                     PROVE  FALSE
          OBVIOUS
        <5>1. cache[u][b] # Absent /\ cache[u][b].state = "dirty"
          BY DirtyNotAbsent, DirtyFields DEF ViewInv, EncodeProgress
        <5>2. u \in live /\ b \in region[u] /\ mutable
          BY <1>2, <5>1 DEF ViewInv, CachedInRegion
        <5>3. u = v
          BY <1>4, <3>1, <5>2, OneWriter
        <5> QED
          BY <1>7, <2>1, <5>3
      <4> QED
        BY <1>2, <4>1 DEF ViewInv, StoreIntact
    <3>3. ASSUME NEW j \in 0 .. (Words - 1), j < k + 1
          PROVE  call'[v].words[j] = Word(stored[b], j)
      <4>1. call[v].words \in [0 .. (Words - 1) -> StoredWords \cup {Garbage}]
        BY <1>1 DEF Calls
      <4>2. call'[v].words = [call[v].words EXCEPT ![k] = store[<<b, k>>]]
        BY <1>7, <2>1
      <4>3. CASE j = k
        BY <1>2, <3>2, <4>1, <4>2, <4>3
      <4>4. CASE j # k
        <5>1. j < k /\ call'[v].words[j] = call[v].words[j]
          BY <1>2, <3>3, <4>1, <4>2, <4>4
        <5> QED
          BY <1>7, <2>1, <5>1 DEF ViewInv, DecodeProgress
      <4> QED
        BY <4>3, <4>4
    <3> QED
      BY <1>7, <2>1, <3>1, <3>3
  <2>2. CASE w # v
    BY <1>5, <2>2 DEF ViewInv, DecodeProgress
  <2> QED
    BY <2>1, <2>2
<1>20. StoreIntact'
  <2> SUFFICES ASSUME NEW c \in Blocks,
                      \A w \in Views : ~(call'[w].kind = "encode" /\ call'[w].block = c),
                      NEW j \in 0 .. (Words - 1)
               PROVE  store'[<<c, j>>] = Word(stored[c], j)
    BY DEF StoreIntact, CodeWord
  <2>1. \A w \in Views : ~(call[w].kind = "encode" /\ call[w].block = c)
    BY <1>5, <1>7
  <2>2. store'[<<c, j>>] = store[<<c, j>>]
    BY <1>7, <1>8, <1>17
  <2> QED
    BY <2>1, <2>2 DEF ViewInv, StoreIntact
<1> QED
  BY <1>11, <1>12, <1>13, <1>14, <1>15, <1>18, <1>19, <1>20 DEF ViewInv

LEMMA ReturnInv ==
  ASSUME ViewInv, NEW v \in Views, Return(v)
  PROVE  ViewInv'
<1> DEFINE b == call[v].block
<1>1. call[v] \in Calls
  BY DEF ViewInv, TypeOK
<1>2. b \in Blocks /\ call[v].kind \in {"decode", "encode"} /\ v \in live
  BY <1>1, ViewsAssumption DEF Calls, Return, ViewInv, Unsought, NoCall, DeadIsIdle
<1>3. /\ call'[v] = NoCall
      /\ \A w \in Views : w # v => call'[w] = call[w] /\ cache'[w] = cache[w]
      /\ cache'[v][b] = LineAfter(v)
      /\ \A c \in Blocks : c # b => cache'[v][c] = cache[v][c]
  BY <1>2 DEF Return, ViewInv, TypeOK
<1>4. call[v].kind = "decode" => LineAfter(v) = Clean(stored[b])
  <2> SUFFICES ASSUME call[v].kind = "decode" PROVE LineAfter(v) = Clean(stored[b])
    OBVIOUS
  <2>1. Encodes(call[v].words, stored[b])
    BY ViewsAssumption DEF Return, ViewInv, DecodeProgress, Encodes
  <2>2. stored[b] \in Value
    BY <1>2 DEF ViewInv, TypeOK
  <2> QED
    BY <2>1, <2>2, DecodedValue DEF LineAfter
<1>5. call[v].kind = "encode" => LineAfter(v) = Absent
  BY DEF LineAfter
<1>6. LineAfter(v) \in Lines
  BY <1>2, <1>4, <1>5 DEF Lines, ViewInv, TypeOK
<1>7. TypeOK'
  <2>1. cache' \in [Views -> [Blocks -> Lines]]
    BY <1>2, <1>6 DEF Return, ViewInv, TypeOK
  <2>2. call' \in [Views -> Calls]
    BY NoCallType DEF Return, ViewInv, TypeOK
  <2> QED
    BY <2>1, <2>2 DEF Return, ViewInv, TypeOK
<1>8. DeadIsIdle'
  BY <1>2, <1>3 DEF Return, ViewInv, DeadIsIdle
<1>9. AtMostOneUnsafe' /\ RegionsDisjoint'
  BY DEF Return, ViewInv, AtMostOneUnsafe, RegionsDisjoint
<1>10. SharedIsUnsafe' /\ Unsought'
  <2>1. NoCall.clone = TRUE /\ NoCall.count = 0
    BY DEF NoCall
  <2>2. SharedIsUnsafe'
    BY <1>3, <2>1 DEF Return, ViewInv, SharedIsUnsafe
  <2>3. Unsought'
    BY <1>3, <2>1 DEF ViewInv, Unsought
  <2> QED
    BY <2>2, <2>3
<1>11. CallInPlace'
  BY <1>3 DEF Return, ViewInv, CallInPlace, CallPlace, NoCall
<1>12. region' = region /\ live' = live /\ mutable' = mutable /\ stored' = stored /\ store' = store
  BY DEF Return
<1>13. /\ \A val : Clean(val).state = "clean" /\ Clean(val).val = val
       /\ Absent.state = "absent"
  BY DEF Clean, Absent
<1>14. b \in region[v]
  <2>1. CASE call[v].kind = "decode"
    BY <2>1 DEF ViewInv, DecodeProgress
  <2>2. CASE call[v].kind = "encode"
    BY <1>2, <2>2, DirtyNotAbsent DEF ViewInv, EncodeProgress, CachedInRegion
  <2> QED
    BY <1>2, <2>1, <2>2
<1>15. LineAfter(v).state # "dirty"
  BY <1>2, <1>4, <1>5, <1>13
<1>16. CachedInRegion'
  <2> SUFFICES ASSUME NEW w \in Views, NEW c \in Blocks
               PROVE  /\ cache'[w][c] # Absent => c \in region[w] /\ w \in live
                      /\ cache'[w][c].state = "dirty" => mutable
    BY <1>12 DEF CachedInRegion
  <2>1. CASE w = v /\ c = b
    BY <1>2, <1>3, <1>14, <1>15, <2>1
  <2>2. CASE ~(w = v /\ c = b)
    BY <1>3, <2>2 DEF ViewInv, CachedInRegion
  <2> QED
    BY <2>1, <2>2
<1>17. CachesCoherent'
  <2> SUFFICES ASSUME NEW w \in Views, NEW c \in Blocks, cache'[w][c].state = "clean"
               PROVE  cache'[w][c].val = stored[c]
    BY <1>12 DEF CachesCoherent
  <2>1. CASE w = v /\ c = b
    BY <1>2, <1>3, <1>4, <1>5, <1>13, <2>1
  <2>2. CASE ~(w = v /\ c = b)
    BY <1>3, <2>2 DEF ViewInv, CachesCoherent
  <2> QED
    BY <2>1, <2>2
<1>18. EncodeProgress' /\ DecodeProgress'
  <2>1. call'[v].kind = "none"
    BY <1>3 DEF NoCall
  <2>2. EncodeProgress'
    BY <1>3, <1>12, <2>1 DEF ViewInv, EncodeProgress
  <2>3. DecodeProgress'
    BY <1>3, <1>12, <2>1 DEF ViewInv, DecodeProgress
  <2> QED
    BY <2>2, <2>3
<1>19. StoreIntact'
  <2> SUFFICES ASSUME NEW c \in Blocks, NEW k \in 0 .. (Words - 1),
                      \A w \in Views : ~(call'[w].kind = "encode" /\ call'[w].block = c)
               PROVE  store[<<c, k>>] = Word(stored[c], k)
    BY <1>12 DEF StoreIntact
  <2>1. CASE call[v].kind = "encode" /\ b = c
    BY <2>1, ViewsAssumption DEF ViewInv, EncodeProgress, Return
  <2>2. CASE ~(call[v].kind = "encode" /\ b = c)
    BY <1>3, <2>2 DEF ViewInv, StoreIntact
  <2> QED
    BY <2>1, <2>2
<1> QED
  BY <1>7, <1>8, <1>9, <1>10, <1>11, <1>16, <1>17, <1>18, <1>19 DEF ViewInv

\* A view that calls nobody changes lines of its own region: a line that is
\* clean afterwards was so before.
LEMMA CacheInv ==
  ASSUME ViewInv, NEW v \in live, call[v] = NoCall,
         NEW lines \in [Blocks -> Lines], cache' = [cache EXCEPT ![v] = lines],
         \A b \in Blocks : lines[b] # Absent => cache[v][b] # Absent,
         \A b \in Blocks : lines[b].state = "dirty" => mutable,
         \A b \in Blocks : lines[b].state = "clean" => lines[b] = cache[v][b],
         UNCHANGED <<live, region, mutable, references, threadSafety, visible,
                     position, store, call, stored>>
  PROVE  ViewInv'
<1>1. v \in Views
  BY DEF ViewInv, TypeOK
<1>2. cache'[v] = lines /\ \A w \in Views : w # v => cache'[w] = cache[w]
  BY <1>1 DEF ViewInv, TypeOK
<1>3. TypeOK'
  BY <1>1 DEF ViewInv, TypeOK
<1>4. DeadIsIdle'
  BY <1>2 DEF ViewInv, DeadIsIdle
<1>5. AtMostOneUnsafe' /\ SharedIsUnsafe' /\ RegionsDisjoint' /\ Unsought' /\ StoreIntact'
  BY DEF ViewInv, AtMostOneUnsafe, SharedIsUnsafe, RegionsDisjoint, Unsought, StoreIntact
<1>6. CallInPlace'
  BY DEF ViewInv, CallInPlace, CallPlace
<1>7. CachedInRegion'
  BY <1>1, <1>2 DEF ViewInv, CachedInRegion
<1>8. CachesCoherent'
  BY <1>1, <1>2 DEF ViewInv, CachesCoherent
<1>9. call[v].kind = "none"
  BY DEF NoCall
<1>10. EncodeProgress' /\ DecodeProgress'
  BY <1>2, <1>9 DEF ViewInv, EncodeProgress, DecodeProgress
<1> QED
  BY <1>3, <1>4, <1>5, <1>6, <1>7, <1>8, <1>10 DEF ViewInv

LEMMA AbsentState == Absent.state = "absent"
BY DEF Absent

LEMMA SetInv ==
  ASSUME ViewInv, NEW v \in Views, NEW b \in Blocks, NEW val \in Value, Set(v, b, val)
  PROVE  ViewInv'
<1> DEFINE lines == [cache[v] EXCEPT ![b] = Dirty(val)]
<1>1. cache[v] \in [Blocks -> Lines] /\ Dirty(val) \in Lines
  BY DEF ViewInv, TypeOK, Lines
<1>2. lines \in [Blocks -> Lines]
  BY <1>1
<1>3. \A c \in Blocks : lines[c] = IF c = b THEN Dirty(val) ELSE cache[v][c]
  BY <1>1
<1>4. cache' = [cache EXCEPT ![v] = lines]
  BY DEF Set
<1>5. \A c \in Blocks : lines[c] # Absent => cache[v][c] # Absent
  BY <1>3 DEF Set
<1>6. \A c \in Blocks : lines[c].state = "clean" => lines[c] = cache[v][c]
  BY <1>3, DirtyFields
<1>7. v \in live /\ mutable /\ call[v] = NoCall
  BY DEF Set
<1>8. UNCHANGED <<live, region, mutable, references, threadSafety, visible,
                  position, store, call, stored>>
  BY DEF Set
<1> HIDE DEF lines
<1> QED
  BY <1>2, <1>4, <1>5, <1>6, <1>7, <1>8, CacheInv

LEMMA EvictInv ==
  ASSUME ViewInv, NEW v \in Views, NEW b \in Blocks, Evict(v, b)
  PROVE  ViewInv'
<1> DEFINE lines == [cache[v] EXCEPT ![b] = Absent]
<1>1. cache[v] \in [Blocks -> Lines]
  BY DEF ViewInv, TypeOK
<1>2. lines \in [Blocks -> Lines]
  BY <1>1, AbsentType
<1>3. \A c \in Blocks : lines[c] = IF c = b THEN Absent ELSE cache[v][c]
  BY <1>1
<1>4. cache' = [cache EXCEPT ![v] = lines]
  BY DEF Evict
<1>5. \A c \in Blocks : lines[c] # Absent => cache[v][c] # Absent
  BY <1>3
<1>6. \A c \in Blocks : lines[c].state = "clean" => lines[c] = cache[v][c]
  BY <1>3, AbsentState
<1>7. v \in live /\ call[v] = NoCall
  BY DEF Evict
<1>8. UNCHANGED <<live, region, mutable, references, threadSafety, visible,
                  position, store, call, stored>>
  BY DEF Evict
<1>9. \A c \in Blocks : lines[c].state = "dirty" => mutable
  BY <1>3, AbsentState DEF ViewInv, CachedInRegion
<1> HIDE DEF lines
<1> QED
  BY <1>2, <1>4, <1>5, <1>6, <1>7, <1>8, <1>9, CacheInv

LEMMA ClearCacheInv ==
  ASSUME ViewInv, NEW v \in Views, ClearCache(v)
  PROVE  ViewInv'
<1> DEFINE lines == [b \in Blocks |-> Absent]
<1>1. lines \in [Blocks -> Lines] /\ \A c \in Blocks : lines[c] = Absent
  BY AbsentType
<1>2. v \in live /\ call[v] = NoCall /\ cache' = [cache EXCEPT ![v] = lines]
  BY DEF ClearCache
<1>3. UNCHANGED <<live, region, mutable, references, threadSafety, visible,
                  position, store, call, stored>>
  BY DEF ClearCache
<1>4. \A c \in Blocks : lines[c] # Absent => cache[v][c] # Absent
  BY <1>1
<1>5. \A c \in Blocks : lines[c].state = "dirty" => mutable
  BY <1>1, AbsentState
<1>6. \A c \in Blocks : lines[c].state = "clean" => lines[c] = cache[v][c]
  BY <1>1, AbsentState
<1> HIDE DEF lines
<1> QED
  BY <1>1, <1>2, <1>3, <1>4, <1>5, <1>6, CacheInv

\* ViewInv is an invariant: private views are counted, seen and used as the
\* store's reference count and the codec's flag intend.
THEOREM ViewInvariant == Spec => []ViewInv
<1>1. Init => ViewInv
  BY InitInv
<1>2. ViewInv /\ [Next]_vars => ViewInv'
  <2> SUFFICES ASSUME ViewInv, [Next]_vars PROVE ViewInv'
    OBVIOUS
  <2>1. CASE UNCHANGED vars
    <3>1. TypeOK'
      BY <2>1 DEF vars, ViewInv, TypeOK
    <3>2. DeadIsIdle' /\ AtMostOneUnsafe' /\ SharedIsUnsafe' /\ RegionsDisjoint'
      BY <2>1 DEF vars, ViewInv, DeadIsIdle, AtMostOneUnsafe, SharedIsUnsafe,
           RegionsDisjoint
    <3>3. CachedInRegion' /\ CallInPlace' /\ Unsought'
      BY <2>1 DEF vars, ViewInv, CachedInRegion, CallInPlace, CallPlace, Unsought
    <3>4. EncodeProgress' /\ DecodeProgress'
      BY <2>1 DEF vars, ViewInv, EncodeProgress, DecodeProgress
    <3>5. StoreIntact' /\ CachesCoherent'
      BY <2>1 DEF vars, ViewInv, StoreIntact, CachesCoherent
    <3> QED
      BY <3>1, <3>2, <3>3, <3>4, <3>5 DEF ViewInv
  <2>2. CASE Next
    BY <2>2, ConstructMutableInv, ConstructConstInv, DestroyInv, BeginDecodeInv,
       BeginEncodeInv, SeekInv, CodeWordInv, ReturnInv, SetInv, EvictInv, ClearCacheInv
       DEF Next
  <2> QED
    BY <2>1, <2>2
<1> QED
  BY <1>1, <1>2, PTL DEF Spec

\* At no time do two threads use the bit stream of the array, although they
\* read thread_safety (zfpcodec.hpp) without synchronisation.
THEOREM StreamNotShared == Spec => []SharedStreamExclusive
<1>1. ViewInv => SharedStreamExclusive
  BY SharedExclusive
<1> QED
  BY <1>1, ViewInvariant, PTL

\* A block that nobody is encoding is the encoding of what was last stored
\* in it (zfp_base::encode_block).
THEOREM BlocksIntact == Spec => []StoreIntact
<1>1. ViewInv => StoreIntact
  BY DEF ViewInv
<1> QED
  BY <1>1, ViewInvariant, PTL

\* What a private cache holds unmodified is what was last stored
\* (zfp_base::decode_block).
THEOREM CachesMatchStore == Spec => []CachesCoherent
<1>1. ViewInv => CachesCoherent
  BY DEF ViewInv
<1> QED
  BY <1>1, ViewInvariant, PTL
=============================================================================
