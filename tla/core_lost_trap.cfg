\* An illegal load is skipped: its trap is lost.
SPECIFICATION Spec
CONSTANTS
  SECURE = FALSE
  NPC = 4
  PC <- MCPC
  ResetPC = 2
  IrqLines = {}
  Val <- MCVal
  AluF <- MCAluF
  MdF <- MCMdF
  DivBits = 2
  Instrs <- LostTrapInstrs
  Debugger = FALSE
  ArReqs <- NoReqs
  NoAr = NoAr
PROPERTIES ExceptionsTrap
