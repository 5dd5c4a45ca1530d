\* A slave that takes the address of a write before its data.
SPECIFICATION UnitsSpec
CONSTANTS
  Units = {"axil"}
  Addr = {1, 2, 3}
  Dram = {2}
  Tohost = 3
  Lane = {1, 2}
  Byte = {0, 1}
  Reqs <- ReqValues
  NoReq = NoReq
  NoReply = NoReply
  Ack = Ack
  Waits = TRUE
  Split = TRUE
  AddrBits = 0
  DataBits = 1
  IrBits = 1
  IrDmi <- One
  IrIdcode <- Zero1
  Apart = 10
  XLEN = 3
  Words <- WordValues
  MaxFlips = 2
  AW = 3
  NPMP = 2
  AddrValues <- PmpAddrs
  Configs <- PmpConfigs
  Chunk = 5
  max_cycles = 35
  MaxText = 1
PROPERTY Answered
