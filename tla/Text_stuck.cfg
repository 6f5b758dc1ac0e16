SPECIFICATION TextSpec
CONSTANTS
  Texts <- Accented
  Length = 0
  Saved = {}
  Worn = {}
  Dirs = {}
  Line <- MCLine
  Changes = {}
PROPERTIES LexAlwaysEnds
