\* Does a status load on the board report a lost byte?
SPECIFICATION SerialSpec
CONSTANTS
  Bits = 2
  Radix = 3
  BaudRst = 4
  Programs <- BenchAndTalk
  EXIT <- X
  Sends <- TwoBytes
PROPERTY OverrunReported
