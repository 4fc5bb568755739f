CONSTANTS
  NumPC = 4
  Misaligned = {}
  NumRegs = 2
  Val = {0, 1}
  Aligned = {0, 1}
  Alu <- OneBitAlu
  Overflow <- Never
  HiOf <- OneBitHi
  Equal <- Same
  Link <- LowBit
  Target <- ToFirst
  Boot = 1
  Handler = 4
  Instructions <- LoadProgram
  Interrupts = TRUE
SPECIFICATION Spec
PROPERTY ExceptionsRedirect
