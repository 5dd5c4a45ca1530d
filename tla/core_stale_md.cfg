\* A divide whose trap is lost leaves the divider running.
SPECIFICATION Spec
CONSTANTS
  SECURE = TRUE
  NPC = 4
  PC <- MCPC
  ResetPC = 2
  IrqLines = {}
  Val <- MCVal
  AluF <- MCAluF
  MdF <- MCMdF
  DivBits = 5
  Instrs <- StaleMdInstrs
  Debugger = FALSE
  ArReqs <- NoReqs
  NoAr = NoAr
INVARIANTS MdResultFresh
