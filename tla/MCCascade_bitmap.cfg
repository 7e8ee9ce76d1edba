SPECIFICATION FairSpec
CONSTANTS
  Width = 3
  SubCap = 2
  Sizes <- OneToFour
  Aligns <- Powers
INVARIANTS TypeOK SummaryExact SearchExact
PROPERTIES IsBitmap SearchEnds
