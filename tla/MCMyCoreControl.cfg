CONSTANTS
  NumPC = 4
  Misaligned = {3}
  NumRegs = 2
  Val = {0, 1}
  Aligned = {0}
  Alu <- OneBitAlu
  Overflow <- BothSet
  HiOf <- OneBitHi
  Equal <- Same
  Link <- LowBit
  Target <- ToFirst
  Boot = 1
  Handler = 4
  Instructions <- ExceptionProgram
  Interrupts = FALSE
SPECIFICATION Spec
INVARIANT TypeOK
PROPERTY ImplementsMips
PROPERTY RequestsAreHeld
