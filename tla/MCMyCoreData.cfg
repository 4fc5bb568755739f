CONSTANTS
  NumPC = 2
  Misaligned = {}
  NumRegs = 2
  Val = {0, 1}
  Aligned = {0, 1}
  Alu <- OneBitAlu
  Overflow <- Never
  HiOf <- OneBitHi
  Equal <- Same
  Link <- LowBit
  Target <- ToFirst
  Boot = 1
  Handler = 1
  Instructions <- DataProgram
  Interrupts = FALSE
SPECIFICATION FairSpec
PROPERTY ImplementsMips
PROPERTY MultOperandsHeld
PROPERTY Progress
