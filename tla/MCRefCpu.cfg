CONSTANTS
  NumPC = 4
  Misaligned = {3}
  NumRegs = 2
  Val = {0, 1}
  Aligned = {0}
  Alu <- OneBitAlu
  Overflow <- FirstOnly
  HiOf <- OneBitHi
  Equal <- Same
  Link <- LowBit
  Target <- ToFirst
  Boot = 1
  Handler = 4
  Instructions <- RefProgram
  Interrupts = TRUE
SPECIFICATION RefFairSpec
INVARIANT RefTypeOK
INVARIANT NeverTrapped
INVARIANT AskedOnce
PROPERTY RefImplementsMips
PROPERTY InstructionsEnd
