SPECIFICATION FairSpec
CONSTANTS
  EStrings <- TwoStrings
  Chars <- BothCases
  SignLimit = 8
INVARIANTS
  ContentsRight
  HeadersIntact
  AnswersRight
PROPERTY
  CopyEnds
