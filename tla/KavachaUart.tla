----------------------------- MODULE KavachaUart -----------------------------
(***************************************************************************)
(* The UART of the FPGA SoC (kavacha_uart.sv): transmitter, receiver,      *)
(* status and divisor.  Its flip-flops are one record, and one clock edge  *)
(* is an operator of them, of what is on the bus and of the serial input.  *)
(*                                                                         *)
(* A frame has Bits data bits (8 in the code); the divisor has two digits  *)
(* in base Radix (256 in the code), and the counters wrap with it.         *)
(***************************************************************************)
EXTENDS Naturals, Sequences, SequencesExt

CONSTANTS Bits, Radix, BaudRst

ASSUME UartAssumption == /\ Bits \in Nat \ {0}
                         /\ Radix \in Nat \ {0, 1}
                         /\ BaudRst \in 1 .. Radix * Radix - 1

Level == {0, 1}
Frame == [1 .. Bits -> Level]             \* the byte, least significant bit first
Count == 0 .. Radix * Radix - 1           \* a 16-bit counter in the code

(* An access on the bus: of the registers at 0x0, 0x4 and 0x8, we or re.   *)
BusOps == {"none", "send", "status", "rxdata", "setbaud", "readbaud"}

Uart ==
  [tx_shift : [1 .. Bits + 2 -> Level], tx_bit_count : 0 .. Bits + 2, tx_baud_cnt : Count,
   tx_busy : BOOLEAN, serial_tx : Level,
   rx_sync : [1 .. 2 -> Level], rx_busy : BOOLEAN, rx_bit_count : 0 .. Bits,
   rx_baud_cnt : Count, rx_shift : Frame,
   rx_data : Frame, rx_ready : BOOLEAN, rx_overrun : BOOLEAN,
   baud_div : Count]

(* mutant: the synchroniser comes out of reset low, as a start bit *)
SyncResetLow == <<0, 0>>

SyncReset == <<1, 1>>

UartReset ==
  [tx_shift |-> [i \in 1 .. Bits + 2 |-> 1], tx_bit_count |-> 0, tx_baud_cnt |-> 0,
   tx_busy |-> FALSE, serial_tx |-> 1,
   rx_sync |-> SyncReset, rx_busy |-> FALSE, rx_bit_count |-> 0,
   rx_baud_cnt |-> 0, rx_shift |-> [i \in 1 .. Bits |-> 0],
   rx_data |-> [i \in 1 .. Bits |-> 0], rx_ready |-> FALSE, rx_overrun |-> FALSE,
   baud_div |-> BaudRst]

(* mutant: a shift register that grows *)
ShiftInGrows(q, bit) == Append(q, bit)

ShiftIn(q, bit) == Append(Tail(q), bit)

(* A bit time, counted down to zero.                                       *)
BitTime(u) == (u.baud_div - 1) % (Radix * Radix)

(* mutant: the data bits are sampled at their edges *)
FirstSampleEarly(u) == (u.baud_div - 1) % (Radix * Radix)

(* From the start bit to the middle of the first data bit.                 *)
FirstSample(u) == (u.baud_div \div 2 + u.baud_div - 1) % (Radix * Radix)

-----------------------------------------------------------------------------
(* The start bit waits one bit time, the stop bit of the byte before.      *)
Load(u, b) ==
  [u EXCEPT !.tx_shift = <<0>> \o b \o <<1>>, !.tx_bit_count = Bits + 2,
            !.tx_baud_cnt = BitTime(u), !.tx_busy = TRUE]

(* mutant: idle before the stop bit is out *)
LastButOne(u) == u.tx_bit_count = 2

LastBit(u) == u.tx_bit_count = 1

(* A byte is taken only while the shifter is idle, and lost otherwise.     *)
Transmit(u, op, b) ==
  IF ~u.tx_busy THEN IF op = "send" THEN Load(u, b) ELSE u
  ELSE IF u.tx_baud_cnt # 0 THEN [u EXCEPT !.tx_baud_cnt = @ - 1]
  ELSE [u EXCEPT !.serial_tx = Head(u.tx_shift), !.tx_shift = ShiftIn(@, 1),
                 !.tx_bit_count = @ - 1, !.tx_baud_cnt = BitTime(u),
                 !.tx_busy = ~LastBit(u)]

(* mutants: a read of rx_data clears ready after the commit has set it; an *)
(* overrun is flagged only if ready was not cleared in the same cycle      *)
CommitClears(u, op) ==
  IF u.rx_busy /\ u.rx_baud_cnt = 0 /\ u.rx_bit_count = 0
  THEN [u EXCEPT !.rx_data = u.rx_shift, !.rx_ready = op # "rxdata",
                 !.rx_overrun = @ \/ u.rx_ready]
  ELSE u

CommitUnflagged(u, op) ==
  IF u.rx_busy /\ u.rx_baud_cnt = 0 /\ u.rx_bit_count = 0
  THEN [u EXCEPT !.rx_data = u.rx_shift, !.rx_ready = TRUE,
                 !.rx_overrun = (@ /\ op # "status") \/ (u.rx_ready /\ op # "rxdata")]
  ELSE [u EXCEPT !.rx_ready = @ /\ op # "rxdata",
                 !.rx_overrun = @ /\ op # "status"]

(* The middle of the stop bit: the byte is committed, whatever the line    *)
(* says, over one that was not read.                                       *)
Commit(u, op) ==
  IF u.rx_busy /\ u.rx_baud_cnt = 0 /\ u.rx_bit_count = 0
  THEN [u EXCEPT !.rx_data = u.rx_shift, !.rx_ready = TRUE,
                 !.rx_overrun = (@ /\ op # "status") \/ u.rx_ready]
  ELSE [u EXCEPT !.rx_ready = @ /\ op # "rxdata",
                 !.rx_overrun = @ /\ op # "status"]

Receive(u) ==
  IF ~u.rx_busy
  THEN IF u.rx_sync[2] = 1 THEN u
       ELSE [u EXCEPT !.rx_busy = TRUE, !.rx_bit_count = Bits,
                      !.rx_baud_cnt = FirstSample(u)]
  ELSE IF u.rx_baud_cnt # 0 THEN [u EXCEPT !.rx_baud_cnt = @ - 1]
  ELSE IF u.rx_bit_count # 0
  THEN [u EXCEPT !.rx_shift = ShiftIn(@, u.rx_sync[2]), !.rx_bit_count = @ - 1,
                 !.rx_baud_cnt = BitTime(u)]
  ELSE [u EXCEPT !.rx_busy = FALSE]

(* A write of the divisor replaces its high digit.                         *)
Divisor(u, op, d) ==
  IF op = "setbaud" THEN d * Radix + (u.baud_div % Radix) ELSE u.baud_div

(* One clock edge: every part reads the registers as they were.            *)
UartEdge(u, op, b, d, serial_rx) ==
  LET tx == Transmit(u, op, b)
      rx == Receive(u)
      cm == Commit(u, op)
  IN [tx_shift |-> tx.tx_shift, tx_bit_count |-> tx.tx_bit_count,
      tx_baud_cnt |-> tx.tx_baud_cnt, tx_busy |-> tx.tx_busy, serial_tx |-> tx.serial_tx,
      rx_sync |-> <<serial_rx, u.rx_sync[1]>>,
      rx_busy |-> rx.rx_busy, rx_bit_count |-> rx.rx_bit_count,
      rx_baud_cnt |-> rx.rx_baud_cnt, rx_shift |-> rx.rx_shift,
      rx_data |-> cm.rx_data, rx_ready |-> cm.rx_ready, rx_overrun |-> cm.rx_overrun,
      baud_div |-> Divisor(u, op, d)]
=============================================================================
