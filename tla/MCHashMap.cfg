SPECIFICATION HashSpec
CONSTANTS
  Key = {k1, k2, k3, k4, k5}
  Val = {v1, v2}
  Hash = {3, 14}
  Empty = Empty
  Deleted = Deleted
  InitSize = 4
  MaxSize = 16
INVARIANTS ProbesEnd GrowsForKeys
PROPERTY ImplementsMap
SYMMETRY MCSymmetry
