SPECIFICATION MCSpec
CONSTANTS
  Pages = 3
  PageSize = 2
  Infos = {i, j}
  NoInfo = none
  SlabKeys = {x, y, z}
  Absent = absent
  WordBits = 2
  Cap = 7
  KeyMax = 9
SYMMETRY Symmetry
INVARIANTS
  TypeOK
  PagesAgree
  LinksFollowOrder
  SummariesExact
PROPERTIES
  ImplementsTickStore
  ImplementsKeySet
