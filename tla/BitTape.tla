------------------------------ MODULE BitTape ------------------------------
(***************************************************************************)
(* What a bit stream promises: a tape of bits, read or written at a        *)
(* position, least significant bit first.                                  *)
(***************************************************************************)
EXTENDS Integers

CONSTANTS
  Size,         \* number of bits of the tape
  ValueBits,    \* most bits that are read or written at a time
  Values,       \* the values written
  Source        \* Source[k]: bit k of a tape that is copied from

VARIABLES
  unit,         \* a flush or an alignment goes to a multiple of this
  tape,         \* the bits
  pos,          \* position of the next bit to be read or written
  mode,         \* "read", "write", or "both" after a rewind
  ret           \* what the last call returned

vars == <<unit, tape, pos, mode, ret>>

BitOf(value, i) == (value \div 2^i) % 2

\* Sum of f[i] 2^i for i < n.
Weighted(f, n) ==
  LET sum[i \in 0 .. n] == IF i = 0 THEN 0 ELSE sum[i - 1] + f[i - 1] * 2^(i - 1)
  IN  sum[n]

\* The tape with bit i of n bits put down at the position.
Put(n, bit(_)) ==
  [k \in 0 .. (Size - 1) |-> IF pos <= k /\ k < pos + n THEN bit(k - pos) ELSE tape[k]]

Init ==
  /\ unit \in 1 .. ValueBits
  /\ tape \in [0 .. (Size - 1) -> {0, 1}]
  /\ pos = 0
  /\ mode = "both"
  /\ ret = 0

WriteBits(value, n) ==
  /\ mode # "read"
  /\ pos + n <= Size
  /\ tape' = Put(n, LAMBDA i : BitOf(value, i))
  /\ pos' = pos + n
  /\ mode' = "write"
  /\ ret' = value \div 2^n

\* Writing a bit returns the bit.
WriteBit(bit) ==
  /\ mode # "read"
  /\ pos + 1 <= Size
  /\ tape' = Put(1, LAMBDA i : bit)
  /\ pos' = pos + 1
  /\ mode' = "write"
  /\ ret' = bit

Pad(n) ==
  /\ mode # "read"
  /\ pos + n <= Size
  /\ tape' = Put(n, LAMBDA i : 0)
  /\ pos' = pos + n
  /\ mode' = "write"
  /\ ret' = 0

Flush ==
  LET n == (unit - (pos % unit)) % unit
  IN  /\ mode # "read"
      /\ tape' = Put(n, LAMBDA i : 0)
      /\ pos' = pos + n
      /\ mode' = "write"
      /\ ret' = n

Copy(from, n) ==
  /\ mode # "read"
  /\ pos + n <= Size
  /\ tape' = Put(n, LAMBDA i : Source[from + i])
  /\ pos' = pos + n
  /\ mode' = "write"
  /\ ret' = 0

ReadBits(n) ==
  /\ mode # "write"
  /\ pos + n <= Size
  /\ ret' = Weighted([i \in 0 .. (n - 1) |-> tape[pos + i]], n)
  /\ pos' = pos + n
  /\ mode' = "read"
  /\ UNCHANGED tape

Skip(n) ==
  /\ mode # "write"
  /\ pos + n <= Size
  /\ pos' = pos + n
  /\ mode' = "read"
  /\ ret' = 0
  /\ UNCHANGED tape

Align ==
  LET n == (unit - (pos % unit)) % unit
  IN  /\ mode # "write"
      /\ pos' = pos + n
      /\ mode' = "read"
      /\ ret' = n
      /\ UNCHANGED tape

\* No bits are lost when the position is changed.
Seek(k, m) ==
  /\ pos' = k
  /\ mode' = m
  /\ ret' = 0
  /\ UNCHANGED tape

Operation ==
  \/ \E n \in 0 .. ValueBits : \E value \in Values : WriteBits(value, n)
  \/ \E bit \in {0, 1} : WriteBit(bit)
  \/ \E n \in 0 .. Size : Pad(n) \/ Skip(n)
  \/ Flush
  \/ \E from \in DOMAIN Source : \E n \in 0 .. Size :
       from + n - 1 \in DOMAIN Source /\ Copy(from, n)
  \/ \E n \in 0 .. ValueBits : ReadBits(n)
  \/ Align
  \/ \E k \in 0 .. Size : \E m \in {"read", "write"} : Seek(k, m)
  \/ Seek(0, "both")

Next == Operation /\ UNCHANGED unit

Spec == Init /\ [][Next]_vars
=============================================================================
