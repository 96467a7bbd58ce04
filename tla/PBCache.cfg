SPECIFICATION MCSpec
CONSTANTS
  b1 = b1
  b2 = b2
  b3 = b3
  PageBlock = {b1, b2, b3}
  PageLen <- MCPageLen
SYMMETRY Symmetry
VIEW View
INVARIANTS TypeOK TagsDistinct WaysExact PlacedOnce VictimNotRecent
