CONSTANTS
  Views = {v1, v2, v3}
  NumBlocks = 2
  Regions <- MCRegions
  Words = 2
  Value = {d0, d1}
  Initial = d0
  Garbage = Garbage
SYMMETRY Symmetry
SPECIFICATION Spec
INVARIANTS SharedStreamExclusive StoreIntact CachesCoherent
