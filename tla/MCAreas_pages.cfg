SPECIFICATION Spec
CONSTANTS
  s1 = s1  s2 = s2  f1 = f1  f2 = f2  zero = zero  one = one
  Spaces <- MCSpaces
  Frames <- MCFrames
  Data <- MCData
  Zero <- zero
  Limit = 9
  FileLen = 2
  Contents <- MCContents
  Starts <- MCStarts
  MapLens <- TwoOrThree
  CutLens <- OneOrTwo
  ProtLens <- OnePage
  Prots <- MCProts
  Offsets <- FromStart
  NoFrame = NoFrame  NoEntry = NoEntry  NoFile = NoFile
  Unmapped = Unmapped  Untouched = Untouched
VIEW View
SYMMETRY Symmetry
CONSTRAINT FewAreas
INVARIANTS AreasWhole OneOwner TablesAgree
PROPERTY IsPageMap
CHECK_DEADLOCK FALSE
