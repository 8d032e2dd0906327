SPECIFICATION FairSpec
CONSTANTS
  kPageWords = 2
  kSectorPages = 2
  Erased = Erased
  Torn = Torn
  kMagic = AvV
  Values = {0, 1}
  kStoreWords = 3
  kSceneWords = 1
  MaxUpdates = 2
  MaxRecords = 1
  MaxLosses = 1
INVARIANTS TypeOK IdleMeansSaved SaveScheduled OneImage
PROPERTIES ProgramsErasedWords Settles
