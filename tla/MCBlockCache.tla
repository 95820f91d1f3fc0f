---------------------------- MODULE MCBlockCache ----------------------------
(* Small instances of BlockCache. *)
EXTENDS BlockCache

MCValue == 0 .. 1

\* Zeros (set(0)), and two arrays that the codec changes at rate 1.
MCInputs(n) ==
  {[i \in 0 .. (n - 1) |-> 0],
   [i \in 0 .. (n - 1) |-> 1],
   [i \in 0 .. (n - 1) |-> IF i = 0 THEN 0 ELSE 1]}

MCNoise == {[k \in Offsets |-> 1]}

(***************************************************************************)
(* A lossy block codec.  Like zfp's, it treats the block as a whole: at    *)
(* rate 1 an element survives only if those before it are zero.  Rate 2 is *)
(* exact.                                                                  *)
(***************************************************************************)
MCCodec(r, w, d) ==
  [k \in Offsets |->
     IF k >= w \/ (r = 1 /\ \E j \in 0 .. (k - 1) : d[j] # 0) THEN 0
     ELSE d[k]]

\* Cache::secondary, the Jenkins hash, for x = 1 .. 8 and masks 0, 1 and 3.
MCHash(x, m) ==
  CASE m = 0 -> 0
    [] m = 1 -> <<1, 0, 0, 1, 1, 1, 0, 1>>[x]
    [] m = 3 -> <<3, 0, 0, 3, 1, 1, 2, 3>>[x]

(***************************************************************************)
(* The data of an unused line, and of a line beyond the end of the array,  *)
(* are dead: no operation reads them before writing them (LinesDefined),   *)
(* so states that differ only there are one.                               *)
(***************************************************************************)
MCView ==
  <<nx, rate, store, mask, tag, ret, stray,
    [s \in Slots |->
       [k \in Offsets |->
          IF tag[s] # Unused /\ k < Width(tag[s].index - 1)
          THEN line[s][k] ELSE Undef]]>>
=============================================================================
