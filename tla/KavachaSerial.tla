---------------------------- MODULE KavachaSerial ----------------------------
(***************************************************************************)
(* The serial link of the FPGA board, one step per clock cycle: firmware   *)
(* that polls the UART over the two-cycle bus of kavacha_fpga.sv, the      *)
(* UART, and the host (run_hil_bench.py behind a USB serial port, whose    *)
(* own UART is taken to be a good one at the same rate and any phase).     *)
(*                                                                         *)
(* Between two accesses the core takes any number of cycles.  A program is *)
(* a sequence of polled puts (_fpga_puts, uart_putchar), polled gets       *)
(* (.Lwait_rx), writes of the divisor, and its end, the spin loop.  READY, *)
(* the output and EXIT are one byte each; every byte is a frame on a line. *)
(***************************************************************************)
EXTENDS KavachaUart

CONSTANTS
  Programs,     \* the programs of the board
  EXIT,         \* the byte that ends a run
  Sends         \* the bytes the host may send, one after the other

Ops == [op : {"put"}, b : Frame] \cup [op : {"get"}] \cup [op : {"baud"}, d : 0 .. Radix - 1]

ASSUME SerialAssumption == /\ Programs \subseteq Seq(Ops)
                           /\ EXIT \in Frame /\ Sends \in Seq(Frame)

(* Host and firmware are at the rate of the reset, which no program leaves  *)
(* (none in the repository writes the divisor), and a bit is long enough   *)
(* to be sampled beside its edges.                                         *)
SameRate ==
  /\ BaudRst >= 3 /\ BaudRst + BaudRst \div 2 <= Radix * Radix
  /\ \A p \in Programs : \A i \in 1 .. Len(p) :
       p[i].op = "baud" => p[i].d = BaudRst \div Radix

VARIABLES
  u,            \* the UART
  prog, pos,    \* program and the operation it is at
  polled,       \* its status was seen ready
  bus,          \* between accesses, first and second cycle of one
  host, left,   \* host script; the bytes it may still send
  out,          \* host's transmitter: the levels to come
  pin,          \* the line a cycle ago
  hrx,          \* host's receiver
  owed,         \* history: bytes put, not yet received by the host
  coming,       \* history: bytes sent, not yet committed by the UART
  stray,        \* history: a reset cut a byte, the UART may be out of step
  unread,       \* history: a byte is committed and no load received it
  missed,       \* history: a byte was lost since a status load ended
  lost          \* history: a reset after the trigger

firmware == <<prog, pos, polled, bus>>
wires    == <<out, pin, hrx, left>>
history  == <<owed, coming, stray, unread, missed, lost>>
vars     == <<u, firmware, host, wires, history>>

-----------------------------------------------------------------------------
(* The firmware and the bus.                                               *)

ended == pos > Len(prog)
cur   == prog[pos]

Asks == IF cur.op = "baud" THEN "setbaud"
        ELSE IF ~polled THEN "status"
        ELSE IF cur.op = "put" THEN "send" ELSE "rxdata"

(* we or re, in both cycles of the access.                                 *)
op == IF bus = "exec" THEN "none" ELSE Asks

wbyte  == IF op = "send" THEN cur.b ELSE EXIT
wdigit == IF op = "setbaud" THEN cur.d ELSE 0

(* mutant: the loop waits for the wrong bit of the status *)
PollBusy == ~u.tx_busy

(* What the loop waits for in the status.                                  *)
PollOk == IF cur.op = "put" THEN ~u.tx_busy ELSE u.rx_ready

Exec == /\ bus = "exec"
        /\ \/ bus' = "exec"
           \/ ~ended /\ bus' = "stall"
        /\ UNCHANGED <<prog, pos, polled>>

(* mem_stall: the first cycle of an access is not sampled.                 *)
Stall == bus = "stall" /\ bus' = "ack" /\ UNCHANGED <<prog, pos, polled>>

Poll == /\ bus = "ack" /\ op = "status"
        /\ bus' = "exec" /\ polled' = PollOk
        /\ UNCHANGED <<prog, pos>>

Act == /\ bus = "ack" /\ op # "status"
       /\ bus' = "exec" /\ polled' = FALSE /\ pos' = pos + 1
       /\ UNCHANGED prog

Restart == bus' = "exec" /\ polled' = FALSE /\ pos' = 1 /\ UNCHANGED prog

-----------------------------------------------------------------------------
(* The host's end of the wires.                                            *)

line == IF out = <<>> THEN 1 ELSE Head(out)

(* Start, data and stop bit, each BaudRst cycles long.                     *)
Levels(b) ==
  [i \in 1 .. (Bits + 2) * BaudRst |-> (<<0>> \o b \o <<1>>)[(i - 1) \div BaudRst + 1]]

Listening == [on |-> FALSE, cnt |-> 0, bits |-> <<>>]

(* The host has a byte, in the middle of its stop bit.                     *)
Gets == hrx.on /\ hrx.cnt = 0 /\ Len(hrx.bits) = Bits

(* It samples every bit in its middle.                                     *)
HostReceiver ==
  hrx' = CASE ~hrx.on /\ u.serial_tx = 1 -> hrx
           [] ~hrx.on /\ u.serial_tx = 0 ->
                [on |-> TRUE, cnt |-> BaudRst + BaudRst \div 2 - 1, bits |-> <<>>]
           [] hrx.on /\ hrx.cnt # 0 -> [hrx EXCEPT !.cnt = @ - 1]
           [] Gets -> Listening
           [] OTHER -> [hrx EXCEPT !.cnt = BaudRst - 1, !.bits = Append(@, u.serial_tx)]

Quiet == out' = (IF out = <<>> THEN out ELSE Tail(out)) /\ UNCHANGED left

(* run_hil_bench.py: the port is opened and what has come is dropped; when *)
(* READY is seen or ten seconds have passed the trigger is sent; the       *)
(* output is read up to EXIT or the timeout.                               *)
HearsExit == host = "sent" /\ Gets /\ hrx.bits = EXIT

HostOpens   == host = "closed" /\ host' = "open" /\ Quiet
HostSends   == /\ host \in {"open", "sent"} /\ ~HearsExit /\ out = <<>> /\ left # <<>>
               /\ out' = Levels(Head(left)) /\ left' = Tail(left)
               /\ host' = "sent"
HostEnds    == HearsExit /\ host' = "done" /\ Quiet
HostGivesUp == host = "sent" /\ ~HearsExit /\ host' = "timeout" /\ Quiet
HostWaits   == ~HearsExit /\ UNCHANGED host /\ Quiet

Host == /\ HostOpens \/ HostSends \/ HostEnds \/ HostGivesUp \/ HostWaits
        /\ pin' = line

-----------------------------------------------------------------------------
(* The synchroniser meets an edge of the line before or after it.          *)
UartTick == \E level \in {line, pin} : u' = UartEdge(u, op, wbyte, wdigit, level)

Commits == u.rx_busy /\ u.rx_baud_cnt = 0 /\ u.rx_bit_count = 0

(* The byte of a put is owed from the first cycle of its store.            *)
Owes == LET rest == IF Gets /\ owed # <<>> THEN Tail(owed) ELSE owed
        IN IF bus = "stall" /\ op = "send" THEN Append(rest, cur.b) ELSE rest

InStep == out = <<>> /\ ~u.rx_busy /\ u.rx_sync = SyncReset

(* The byte on the bus is received in the second cycle of a load, or lost  *)
(* to a reset of the core.                                                 *)
History(core_rst) ==
  LET taken    == op = "rxdata" /\ (bus = "ack" \/ core_rst)
      ackStatus == op = "status" /\ bus = "ack" /\ ~core_rst
      overrun  == Commits /\ unread /\ ~taken
      popped   == IF Commits /\ coming # <<>> THEN Tail(coming) ELSE coming
  IN /\ owed'   = Owes
     /\ stray'  = (stray /\ ~InStep)
     /\ coming' = IF left' # left /\ ~stray' THEN Append(popped, Head(left)) ELSE popped
     /\ unread' = (Commits \/ (unread /\ ~taken))
     /\ missed' = (overrun \/ (missed /\ ~ackStatus))
     /\ lost'   = (lost \/ (core_rst /\ host = "sent"))

Tick == /\ Exec \/ Stall \/ Poll \/ Act
        /\ UartTick /\ Host /\ HostReceiver /\ History(FALSE)

(* ndmreset restarts the core; the UART goes on.                           *)
CoreReset == Restart /\ UartTick /\ Host /\ HostReceiver /\ History(TRUE)

(* The last cycle of rst.  It has lasted longer than a frame, as a reset   *)
(* button and a locking PLL do, so the host is listening again; a byte of  *)
(* the host may be under way.                                              *)
Rst == /\ u' = UartReset /\ Restart
       /\ hrx' = Listening /\ pin' = line
       /\ UNCHANGED <<host, left, out>>
       /\ owed' = <<>> /\ coming' = <<>> /\ stray' = (out # <<>>)
       /\ unread' = FALSE /\ missed' = FALSE /\ lost' = (lost \/ host = "sent")

SerialInit ==
  /\ u = UartReset
  /\ prog \in Programs /\ pos = 1 /\ polled = FALSE /\ bus = "exec"
  /\ host = "closed" /\ left = Sends /\ out = <<>> /\ pin = 1 /\ hrx = Listening
  /\ owed = <<>> /\ coming = <<>>
  /\ stray = FALSE /\ unread = FALSE /\ missed = FALSE /\ lost = FALSE

SerialNext == Tick \/ CoreReset \/ Rst

SerialSpec == SerialInit /\ [][SerialNext]_vars

(* The clock runs and the firmware goes on; nothing is owed to a timeout.  *)
Progress == Tick /\ host' # "timeout" /\ (bus = "exec" /\ ~ended => bus' = "stall")

SerialFairSpec == SerialSpec /\ WF_vars(Progress)

-----------------------------------------------------------------------------
SerialTypeOK ==
  /\ u \in Uart
  /\ prog \in Programs /\ pos \in 1 .. Len(prog) + 1 /\ polled \in BOOLEAN
  /\ bus \in {"exec", "stall", "ack"}
  /\ host \in {"closed", "open", "sent", "done", "timeout"}
  /\ pin \in Level /\ hrx.on \in BOOLEAN /\ hrx.cnt \in Count
  /\ Len(hrx.bits) <= Bits /\ Len(owed) <= 2 /\ Len(coming) <= 2

(* Polled puts (syscalls_fpga.c:25, "poll tx_busy then write byte") reach  *)
(* the host once each, in order, whole, though the store is on the bus for *)
(* two cycles and busy ends before the stop bit does.                      *)
SentInOrder ==
  [][Gets /\ hrx' = Listening /\ ~Rst =>
       u.serial_tx = 1 /\ owed # <<>> /\ hrx.bits = Head(owed)]_vars

(* The byte the receiver commits is the one the host sent, from any phase  *)
(* of the line and whatever comes right after it.                          *)
HeardRight ==
  [][Commits /\ ~stray /\ ~Rst => coming # <<>> /\ u.rx_shift = Head(coming)]_vars

(* rx_ready is up as long as there is a byte that no load has received,    *)
(* but for the second cycle of a load, whose first has cleared it.         *)
ReadyMeansUnread == ~(op = "rxdata" /\ bus = "ack") => u.rx_ready = unread

(* No load of rx_data receives a byte a second time.                       *)
NeverReadTwice == [][Act /\ op = "rxdata" /\ ~CoreReset /\ ~Rst => unread]_vars

(* A byte that is lost raises rx_overrun, in the two cycles of a load, too.*)
LossFlagged ==
  [][Commits /\ unread /\ ~(op = "rxdata" /\ bus = "ack") /\ ~CoreReset /\ ~Rst =>
       u'.rx_overrun]_vars

(* The benchmark waits for the host (crt0_fpga.S, .Lwait_rx): no reset, of *)
(* board or core, lets it start before the host has sent.                  *)
StartsOnTrigger == op = "rxdata" => host \notin {"closed", "open"}

(* Once resets end, a trigger that no reset has cut is followed by the end *)
(* of the run at the host: the script needs its timeout for resets only.   *)
RunReported ==
  <>[][Tick]_vars =>
    (host = "sent" /\ ~lost /\ Last(prog) = [op |-> "put", b |-> EXIT])
      ~> (host # "sent" \/ lost)

(* kavacha_uart.sv:9, "bit3 = rx_overrun (sticky until status read)": a    *)
(* status load that ends reports whether a byte was lost since the last.   *)
OverrunReported == [][Poll /\ ~CoreReset /\ ~Rst => u.rx_overrun = missed]_vars
=============================================================================
