SPECIFICATION FairSpec
CONSTANTS
  Values <- OneValue
  MaxIndex = 3
INVARIANTS TypeOK QueryWaits
PROPERTIES InOrder EventuallySeen
