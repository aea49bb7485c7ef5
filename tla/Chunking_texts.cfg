SPECIFICATION Spec
CONSTANTS
  Texts <- MCTexts
  TargetChars = {1, 5}
  OverlapChars = {0, 1, 9}
  MinTarget = 4
  Short = 7
  Long = 13
INVARIANTS
  PhrasesWhole
  FewWindows
  NoChunkInAnother
