\* Single steps and halt requests against a timer; program, bus and clock are fair.
SPECIFICATION FairProgram
CONSTANTS
  SECURE = FALSE
  NPC = 2
  PC <- Word
  ResetPC = 1
  IrqLines = {7}
  Val <- One
  AluF <- OneAluF
  MdF <- OneMdF
  DivBits = 1
  Instrs <- LiveInstrs
  Debugger = TRUE
  ArReqs <- StepReqs
  NoAr = NoAr
PROPERTIES IsHart HaltAnswered InterruptTaken StepHalts
