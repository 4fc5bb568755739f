CONSTANTS
  Width = 4
SPECIFICATION InterruptedSpec
INVARIANT ResultCorrect
