\* Interrupts, traps, MRET and privilege in the SECURE build; no debugger.
SPECIFICATION Spec
CONSTANTS
  SECURE = TRUE
  NPC = 3
  PC <- PC3
  ResetPC = 1
  IrqLines = {7}
  Val <- MCVal
  AluF <- MCAluF
  MdF <- MCMdF
  DivBits = 2
  Instrs <- IrqInstrs
  Debugger = FALSE
  ArReqs <- NoReqs
  NoAr = NoAr
INVARIANTS RvfiPcConsistent
PROPERTIES IsHart
