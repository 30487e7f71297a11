SPECIFICATION ServeFairSpec
CONSTANTS
  Builder = {r1, r2}
  MaxVersion = 6
  Interval = 2
  Platform = {TRUE, FALSE}
INVARIANTS
  ServeTypeOK
  StampIsHonest
  PublishedWhole
PROPERTIES
  MappedAnswers
  CatchesUp
