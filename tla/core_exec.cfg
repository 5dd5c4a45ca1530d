\* Every path of the FSM under wait states; no interrupts, no debugger.
SPECIFICATION Spec
CONSTANTS
  SECURE = FALSE
  NPC = 4
  PC <- MCPC
  ResetPC = 2
  IrqLines = {}
  Val <- MCVal
  AluF <- MCAluF
  MdF <- MCMdF
  DivBits = 2
  Instrs <- ExecInstrs
  Debugger = FALSE
  ArReqs <- NoReqs
  NoAr = NoAr
INVARIANTS TypeOK BeatsExactlyOnce MdResultFresh
PROPERTIES BusRequestStable
