CONSTANTS
  Folder = {f1, f2}
  Document = {d}
  Root = root
  MaxVersion = 2
  MaxDepth = 2
  f1 = f1
  f2 = f2
  d = d
  root = root
SPECIFICATION Spec
SYMMETRY Symmetric
INVARIANTS TypeOK RoomWhole 
PROPERTIES PublishedAsReviewed WrittenAsSeen
CONSTRAINT FollowedEarly
CHECK_DEADLOCK FALSE
