\* Firmware, UART and host; the divisor is 4 = 1 * 3 + 1.
SPECIFICATION SerialFairSpec
CONSTANTS
  Bits = 2
  Radix = 3
  BaudRst = 4
  Programs <- BenchAndTalk
  EXIT <- X
  Sends <- TwoBytes
INVARIANTS SerialTypeOK ReadyMeansUnread StartsOnTrigger
PROPERTIES SentInOrder HeardRight NeverReadTwice LossFlagged RunReported
