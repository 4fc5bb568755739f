CONSTANTS
  Width = 4
SPECIFICATION MultFairSpec
INVARIANT ResultCorrect
PROPERTY AlwaysDone
