CONSTANTS
  PageList <- MCPageList
  Folders <- MCFolders
  Contains <- MCContains
  Around <- MCAround
  DefaultOpenLevel = 1
SPECIFICATION Spec
INVARIANTS TypeOK OpenIsVisible CurrentIsMarked OutForAReason OnlyReaderFolds
PROPERTIES NeverPulledAway DrawerGoesAway PutAway
