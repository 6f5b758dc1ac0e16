SPECIFICATION TextSpec
CONSTANTS
  Texts <- AllTexts
  Length = 5
  Saved <- MCSaved
  Worn <- MCWorn
  Dirs <- MCDirs
  Line <- MCLine
  Changes <- MCChanges
INVARIANTS LexTypeOK SplitsAsRead SnapshotRestores DiffTypeOK DiffIsMinimal ChangesAreShown
PROPERTIES LexProgress LexEnds DiffEnds
