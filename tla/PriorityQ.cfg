SPECIFICATION Spec
CONSTANTS
  Items = {i1, i2, i3, i4, i5, i6}
  Classes = {0, 1}
  Ranks = {0, 1, 2}
  NoItem = NoItem
SYMMETRY ItemSymmetry
INVARIANT IndexesMatch
PROPERTY PeekReturnsBest
