\* A debugger: halt requests, register accesses, resume, step, breakpoints.
SPECIFICATION Spec
CONSTANTS
  SECURE = FALSE
  NPC = 3
  PC <- PC3
  ResetPC = 1
  IrqLines = {}
  Val <- MCVal
  AluF <- MCAluF
  MdF <- MCMdF
  DivBits = 2
  Instrs <- DebugInstrs
  Debugger = TRUE
  ArReqs <- DebugReqs
  NoAr = NoAr
INVARIANTS BeatsExactlyOnce
PROPERTIES IsHart
