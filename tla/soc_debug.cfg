\* Debugger, hart and memory on both boards.
SPECIFICATION SocFairSpec
CONSTANTS
  Val <- Bit
  NA = 2
  DmiWrites <- AllWrites
  NoDmi = NoDmi
  Boards <- BothBoards
  Gap = 4
  Sessions <- AllSessions
  NoWord = NoWord
INVARIANTS SocTypeOK EngineConsistent HaltedNeverClash
PROPERTIES CoreContract CommandResult ReadsLastWritten HaltOnReset CommandEnds
