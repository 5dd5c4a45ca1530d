------------------------- MODULE KavachaSerialProofs -------------------------
(***************************************************************************)
(* The serial link for every program, byte width, divisor and host.        *)
(*                                                                         *)
(* First what rx_ready stands for, and what follows from it, at any rate.  *)
(* Then, for two ends at the same rate (SameRate), that every byte put     *)
(* reaches the host (SentInv) and every byte of the host the UART          *)
(* (HeardInv): where in a frame either receiver is, and what it holds.     *)
(***************************************************************************)
EXTENDS KavachaSerial, SequenceTheorems, TLAPS

(* u is a record of the flip-flops, whatever they hold.                    *)
IsUart(x) ==
  x = [tx_shift |-> x.tx_shift, tx_bit_count |-> x.tx_bit_count,
       tx_baud_cnt |-> x.tx_baud_cnt, tx_busy |-> x.tx_busy, serial_tx |-> x.serial_tx,
       rx_sync |-> x.rx_sync, rx_busy |-> x.rx_busy, rx_bit_count |-> x.rx_bit_count,
       rx_baud_cnt |-> x.rx_baud_cnt, rx_shift |-> x.rx_shift,
       rx_data |-> x.rx_data, rx_ready |-> x.rx_ready, rx_overrun |-> x.rx_overrun,
       baud_div |-> x.baud_div]

Types ==
  /\ IsUart(u) /\ u.rx_ready \in BOOLEAN /\ u.rx_busy \in BOOLEAN
  /\ unread \in BOOLEAN /\ polled \in BOOLEAN
  /\ bus \in {"exec", "stall", "ack"}
  /\ host \in {"closed", "open", "sent", "done", "timeout"}

Loading == op = "rxdata"

(* A get that has seen rx_ready has a byte to read.                        *)
HasByte == polled /\ Asks = "rxdata" => unread

(* Before the host has sent, the line has been high since the reset.       *)
Silent ==
  host \in {"closed", "open"} =>
    /\ out = <<>> /\ pin = 1
    /\ u.rx_sync[1] = 1 /\ u.rx_sync[2] = 1
    /\ ~u.rx_busy /\ ~u.rx_ready /\ ~unread

(* Inductive.                                                              *)
RxInv == Types /\ ReadyMeansUnread /\ HasByte /\ Silent

-----------------------------------------------------------------------------
LEMMA EdgeFields ==
  ASSUME NEW x, IsUart(x), NEW o, NEW b, NEW d, NEW level
  PROVE  LET e == UartEdge(x, o, b, d, level)
         IN /\ IsUart(e)
            /\ e.rx_sync = <<level, x.rx_sync[1]>>
            /\ e.rx_busy = Receive(x).rx_busy
            /\ e.rx_ready = Commit(x, o).rx_ready
            /\ e.rx_overrun = Commit(x, o).rx_overrun
BY DEF IsUart, UartEdge

LEMMA CommitFields ==
  ASSUME NEW x, IsUart(x), NEW o
  PROVE  IF x.rx_busy /\ x.rx_baud_cnt = 0 /\ x.rx_bit_count = 0
         THEN /\ Commit(x, o).rx_ready = TRUE
              /\ Commit(x, o).rx_overrun = ((x.rx_overrun /\ o # "status") \/ x.rx_ready)
         ELSE Commit(x, o).rx_ready = (x.rx_ready /\ o # "rxdata")
BY DEF IsUart, Commit

LEMMA ReceiveBusy ==
  ASSUME NEW x, IsUart(x), x.rx_busy \in BOOLEAN
  PROVE  /\ Receive(x).rx_busy \in BOOLEAN
         /\ ~x.rx_busy /\ x.rx_sync[2] = 1 => ~Receive(x).rx_busy
BY DEF IsUart, Receive

(* One clock edge of the UART, seen from the receive side.                 *)
LEMMA EdgeReceive ==
  ASSUME Types, UartTick
  PROVE  /\ IsUart(u') /\ u'.rx_busy \in BOOLEAN /\ u'.rx_ready \in BOOLEAN
         /\ u'.rx_ready <=> Commits \/ (u.rx_ready /\ ~Loading)
         /\ Commits /\ u.rx_ready => u'.rx_overrun
         /\ ~u.rx_busy /\ u.rx_sync[2] = 1 => ~u'.rx_busy
         /\ u'.rx_sync[1] \in {line, pin} /\ u'.rx_sync[2] = u.rx_sync[1]
<1>1. PICK level \in {line, pin} : u' = UartEdge(u, op, wbyte, wdigit, level)
  BY DEF UartTick
<1>2. IsUart(u) /\ u.rx_ready \in BOOLEAN /\ u.rx_busy \in BOOLEAN
  BY DEF Types
<1>3. /\ IsUart(u')
      /\ u'.rx_sync = <<level, u.rx_sync[1]>>
      /\ u'.rx_busy = Receive(u).rx_busy
      /\ u'.rx_ready = Commit(u, op).rx_ready
      /\ u'.rx_overrun = Commit(u, op).rx_overrun
  BY <1>1, <1>2, EdgeFields
<1>4. /\ Receive(u).rx_busy \in BOOLEAN
      /\ ~u.rx_busy /\ u.rx_sync[2] = 1 => ~Receive(u).rx_busy
  BY <1>2, ReceiveBusy
<1>5. u'.rx_sync[1] \in {line, pin} /\ u'.rx_sync[2] = u.rx_sync[1]
  BY <1>1, <1>3
<1>6. u'.rx_busy \in BOOLEAN /\ (~u.rx_busy /\ u.rx_sync[2] = 1 => ~u'.rx_busy)
  BY <1>3, <1>4
<1>7. ASSUME Commits
      PROVE  u'.rx_ready = TRUE /\ (u.rx_ready => u'.rx_overrun)
  <2>1. /\ Commit(u, op).rx_ready = TRUE
        /\ Commit(u, op).rx_overrun = ((u.rx_overrun /\ op # "status") \/ u.rx_ready)
    BY <1>2, <1>7, CommitFields DEF Commits
  <2> QED
    BY <1>3, <2>1
<1>8. ASSUME ~Commits
      PROVE  u'.rx_ready = (u.rx_ready /\ ~Loading)
  <2>1. Commit(u, op).rx_ready = (u.rx_ready /\ op # "rxdata")
    BY <1>2, <1>8, CommitFields DEF Commits
  <2> QED
    BY <1>3, <2>1 DEF Loading
<1>9. u'.rx_ready \in BOOLEAN /\ (u'.rx_ready <=> Commits \/ (u.rx_ready /\ ~Loading))
  BY <1>7, <1>8
<1> QED
  BY <1>3, <1>5, <1>6, <1>7, <1>9

(* What the firmware is at, in the terms of the invariant.                 *)
LEMMA LoadingIs ==
  Types => /\ Loading <=> bus # "exec" /\ Asks = "rxdata"
           /\ Asks = "rxdata" => polled
BY DEF Types, Loading, op, Asks

(* A load that is not sampled yet goes on; the firmware stays where it is. *)
LEMMA LoadGoesOn ==
  ASSUME Types, Exec \/ Stall \/ Poll \/ Act, Loading, bus = "stall"
  PROVE  Loading' /\ bus' = "ack"
<1>1. Stall
  BY DEF Exec, Stall, Poll, Act
<1>2. Asks' = Asks
  BY <1>1 DEF Stall, Asks, cur
<1> QED
  BY <1>1, <1>2 DEF Stall, Loading, op

(* What no step of the host changes before it has sent.                    *)
LEMMA HostSilent ==
  ASSUME Types, Silent, Host
  PROVE  /\ host' \in {"closed", "open", "sent", "done", "timeout"}
         /\ host' \in {"closed", "open"} =>
              host \in {"closed", "open"} /\ out' = <<>> /\ pin' = 1
<1>1. host' \in {"closed", "open", "sent", "done", "timeout"}
  BY DEF Host, HostOpens, HostSends, HostEnds, HostGivesUp, HostWaits, Types
<1>2. ASSUME host' \in {"closed", "open"}
      PROVE  host \in {"closed", "open"} /\ Quiet /\ pin' = line
  BY <1>2 DEF Host, HostOpens, HostSends, HostEnds, HostGivesUp, HostWaits, Types
<1>3. ASSUME host \in {"closed", "open"}, Quiet, pin' = line
      PROVE  out' = <<>> /\ pin' = 1
  BY <1>3 DEF Silent, Quiet, line
<1> QED
  BY <1>1, <1>2, <1>3

(* While the line is high, nothing starts in the receiver.                 *)
LEMMA ReceiverSilent ==
  ASSUME Types, Silent, UartTick, host \in {"closed", "open"}
  PROVE  /\ u'.rx_sync[1] = 1 /\ u'.rx_sync[2] = 1
         /\ ~u'.rx_busy /\ ~u'.rx_ready /\ ~Commits /\ ~unread
<1>1. /\ out = <<>> /\ pin = 1 /\ line = 1
      /\ u.rx_sync[1] = 1 /\ u.rx_sync[2] = 1
      /\ ~u.rx_busy /\ ~u.rx_ready /\ ~unread
  BY DEF Silent, line
<1>2. ~Commits
  BY <1>1 DEF Commits
<1> QED
  BY <1>1, <1>2, EdgeReceive

LEMMA TickKeeps ==
  ASSUME RxInv, Tick
  PROVE  RxInv'
<1>1. /\ Types /\ ReadyMeansUnread /\ HasByte /\ Silent
      /\ Exec \/ Stall \/ Poll \/ Act
      /\ UartTick /\ Host /\ History(FALSE)
  BY DEF RxInv, Tick
<1>2. /\ IsUart(u') /\ u'.rx_busy \in BOOLEAN /\ u'.rx_ready \in BOOLEAN
      /\ u'.rx_ready <=> Commits \/ (u.rx_ready /\ ~Loading)
  BY <1>1, EdgeReceive
<1>3. /\ unread' \in BOOLEAN
      /\ unread' <=> Commits \/ (unread /\ ~(Loading /\ bus = "ack"))
  BY <1>1 DEF History, Loading, Types
<1>4. /\ bus' \in {"exec", "stall", "ack"} /\ polled' \in BOOLEAN
  BY <1>1 DEF Exec, Stall, Poll, Act, PollOk, Types
<1>5. Types'
  BY <1>1, <1>2, <1>3, <1>4, HostSilent DEF Types
<1>6. ~(Loading /\ bus = "ack") => (u.rx_ready <=> unread)
  BY <1>1 DEF ReadyMeansUnread, Loading, Types
<1>7. ReadyMeansUnread'
  <2>1. CASE Loading /\ bus = "stall"
    BY <1>1, <2>1, LoadGoesOn DEF ReadyMeansUnread, Loading
  <2>2. CASE ~(Loading /\ bus = "stall")
    <3>1. Loading => bus = "ack"
      BY <1>1, <2>2, LoadingIs DEF Types
    <3>2. u'.rx_ready <=> unread'
      BY <1>2, <1>3, <1>6, <3>1
    <3> QED
      BY <1>2, <1>3, <3>2 DEF ReadyMeansUnread
  <2> QED
    BY <2>1, <2>2
<1>8. HasByte'
  <2>1. CASE Exec \/ Stall
    <3>1. Asks' = Asks /\ polled' = polled /\ bus # "ack"
      BY <2>1 DEF Exec, Stall, Asks, cur
    <3> QED
      BY <1>1, <1>3, <3>1 DEF HasByte
  <2>2. CASE Poll
    <3>1. ~Loading /\ polled' = PollOk /\ cur' = cur
      BY <2>2 DEF Poll, Loading, cur
    <3>2. polled' /\ Asks' = "rxdata" => u.rx_ready
      BY <3>1 DEF Asks, PollOk
    <3> QED
      BY <1>3, <1>6, <3>1, <3>2 DEF HasByte
  <2>3. CASE Act
    BY <2>3 DEF Act, HasByte
  <2> QED
    BY <1>1, <2>1, <2>2, <2>3
<1>9. Silent'
  <2>1. ASSUME host' \in {"closed", "open"}
        PROVE  /\ out' = <<>> /\ pin' = 1
               /\ u'.rx_sync[1] = 1 /\ u'.rx_sync[2] = 1
               /\ ~u'.rx_busy /\ ~u'.rx_ready /\ ~unread'
    <3>1. host \in {"closed", "open"} /\ out' = <<>> /\ pin' = 1
      BY <1>1, <2>1, HostSilent
    <3>2. /\ u'.rx_sync[1] = 1 /\ u'.rx_sync[2] = 1
          /\ ~u'.rx_busy /\ ~u'.rx_ready /\ ~Commits /\ ~unread
      BY <1>1, <3>1, ReceiverSilent
    <3> QED
      BY <1>3, <3>1, <3>2
  <2> QED
    BY <2>1 DEF Silent
<1> QED
  BY <1>5, <1>7, <1>8, <1>9 DEF RxInv

(* A reset of the core may come in the middle of a load: the byte is lost, *)
(* and rx_ready says so.                                                   *)
LEMMA CoreResetKeeps ==
  ASSUME RxInv, CoreReset
  PROVE  RxInv'
<1>1. /\ Types /\ ReadyMeansUnread /\ HasByte /\ Silent
      /\ Restart /\ UartTick /\ Host /\ History(TRUE)
  BY DEF RxInv, CoreReset
<1>2. /\ IsUart(u') /\ u'.rx_busy \in BOOLEAN /\ u'.rx_ready \in BOOLEAN
      /\ u'.rx_ready <=> Commits \/ (u.rx_ready /\ ~Loading)
  BY <1>1, EdgeReceive
<1>3. /\ unread' \in BOOLEAN
      /\ unread' <=> Commits \/ (unread /\ ~Loading)
  BY <1>1 DEF History, Loading, Types
<1>4. bus' = "exec" /\ polled' = FALSE
  BY <1>1 DEF Restart
<1>5. Types'
  BY <1>1, <1>2, <1>3, <1>4, HostSilent DEF Types
<1>6. ~(Loading /\ bus = "ack") => (u.rx_ready <=> unread)
  BY <1>1 DEF ReadyMeansUnread, Loading, Types
<1>7. ReadyMeansUnread'
  BY <1>2, <1>3, <1>6 DEF ReadyMeansUnread
<1>8. HasByte'
  BY <1>4 DEF HasByte
<1>9. Silent'
  <2>1. ASSUME host' \in {"closed", "open"}
        PROVE  /\ out' = <<>> /\ pin' = 1
               /\ u'.rx_sync[1] = 1 /\ u'.rx_sync[2] = 1
               /\ ~u'.rx_busy /\ ~u'.rx_ready /\ ~unread'
    <3>1. host \in {"closed", "open"} /\ out' = <<>> /\ pin' = 1
      BY <1>1, <2>1, HostSilent
    <3>2. /\ u'.rx_sync[1] = 1 /\ u'.rx_sync[2] = 1
          /\ ~u'.rx_busy /\ ~u'.rx_ready /\ ~Commits /\ ~unread
      BY <1>1, <3>1, ReceiverSilent
    <3> QED
      BY <1>3, <3>1, <3>2
  <2> QED
    BY <2>1 DEF Silent
<1> QED
  BY <1>5, <1>7, <1>8, <1>9 DEF RxInv

LEMMA ResetFields ==
  /\ IsUart(UartReset)
  /\ UartReset.rx_ready = FALSE /\ UartReset.rx_busy = FALSE
  /\ UartReset.rx_sync[1] = 1 /\ UartReset.rx_sync[2] = 1
BY DEF UartReset, SyncReset, IsUart

LEMMA RstKeeps ==
  ASSUME RxInv, Rst
  PROVE  RxInv'
<1>1. Types /\ Silent
  BY DEF RxInv
<1>2. /\ u' = UartReset /\ bus' = "exec" /\ polled' = FALSE /\ unread' = FALSE
      /\ host' = host /\ out' = out /\ pin' = line
  BY DEF Rst, Restart
<1>3. Types'
  BY <1>1, <1>2, ResetFields DEF Types
<1>4. ReadyMeansUnread' /\ HasByte'
  BY <1>2, ResetFields DEF ReadyMeansUnread, HasByte
<1>5. Silent'
  BY <1>1, <1>2, ResetFields DEF Silent, line
<1> QED
  BY <1>3, <1>4, <1>5 DEF RxInv

LEMMA InitHolds == SerialInit => RxInv
<1> SUFFICES ASSUME SerialInit PROVE RxInv
  OBVIOUS
<1>1. /\ u = UartReset /\ polled = FALSE /\ bus = "exec" /\ host = "closed"
      /\ out = <<>> /\ pin = 1 /\ unread = FALSE
  BY DEF SerialInit
<1> QED
  BY <1>1, ResetFields DEF RxInv, Types, ReadyMeansUnread, HasByte, Silent

LEMMA StutterKeeps ==
  ASSUME RxInv, UNCHANGED vars
  PROVE  RxInv'
BY DEF vars, firmware, wires, history, RxInv, Types, ReadyMeansUnread, HasByte,
       Silent, Asks, cur, op

LEMMA Inductive == RxInv /\ [SerialNext]_vars => RxInv'
BY TickKeeps, CoreResetKeeps, RstKeeps, StutterKeeps DEF SerialNext

(* RxInv: rx_ready is up exactly while there is an unread byte, a get that *)
(* has polled it has one, and before the trigger there is none.            *)
THEOREM RxInvariant == SerialSpec => []RxInv
BY InitHolds, Inductive, PTL DEF SerialSpec

(* ReadyMeansUnread, for every program and divisor, across resets.         *)
THEOREM ReadyIsUnread == SerialSpec => []ReadyMeansUnread
<1>1. RxInv => ReadyMeansUnread
  BY DEF RxInv
<1> QED
  BY <1>1, RxInvariant, PTL

(* StartsOnTrigger: no program gets a byte before the host sends one.      *)
THEOREM StartsTriggered == SerialSpec => []StartsOnTrigger
<1>1. RxInv => StartsOnTrigger
  <2> SUFFICES ASSUME RxInv, op = "rxdata" PROVE host \notin {"closed", "open"}
    BY DEF StartsOnTrigger
  <2>1. polled /\ Asks = "rxdata"
    BY LoadingIs DEF RxInv, Loading
  <2>2. unread
    BY <2>1 DEF RxInv, HasByte
  <2> QED
    BY <2>2 DEF RxInv, Silent
<1> QED
  BY <1>1, RxInvariant, PTL

(* NeverReadTwice: a load of rx_data receives a byte that no load has.     *)
THEOREM ReadsOnce == SerialSpec => NeverReadTwice
<1>1. RxInv => (Act /\ op = "rxdata" /\ ~CoreReset /\ ~Rst => unread)
  <2> SUFFICES ASSUME RxInv, op = "rxdata" PROVE unread
    OBVIOUS
  <2>1. polled /\ Asks = "rxdata"
    BY LoadingIs DEF RxInv, Loading
  <2> QED
    BY <2>1 DEF RxInv, HasByte
<1> QED
  BY <1>1, RxInvariant, PTL DEF NeverReadTwice

(* LossFlagged: a byte committed over an unread one raises rx_overrun.     *)
THEOREM LossesFlagged == SerialSpec => LossFlagged
<1>1. RxInv /\ [SerialNext]_vars =>
        [Commits /\ unread /\ ~(op = "rxdata" /\ bus = "ack") /\ ~CoreReset /\ ~Rst
           => u'.rx_overrun]_vars
  <2> SUFFICES ASSUME RxInv, Tick, Commits, unread, ~(op = "rxdata" /\ bus = "ack")
               PROVE  u'.rx_overrun
    BY DEF SerialNext
  <2>1. u.rx_ready
    BY DEF RxInv, ReadyMeansUnread
  <2> QED
    BY <2>1, EdgeReceive DEF RxInv, Tick
<1> QED
  BY <1>1, RxInvariant, PTL DEF SerialSpec, LossFlagged

-----------------------------------------------------------------------------
(* The bytes.  From here on host and firmware are at one rate.             *)

B == BaudRst
Half == BaudRst \div 2

(* A byte on the wire: start bit, data bits, stop bit.                     *)
Shape(b) == <<0>> \o b \o <<1>>

LEMMA RateFacts ==
  ASSUME SameRate
  PROVE  /\ B \in Nat /\ B >= 3 /\ B \in Count /\ Half \in Nat
         /\ Half >= 1 /\ 2 * Half <= B /\ B <= 2 * Half + 1
         /\ B + Half - 1 \in Count /\ B - 1 \in Count
         /\ Radix * Radix \in Nat /\ B < Radix * Radix
         /\ (B - 1) % (Radix * Radix) = B - 1
         /\ (Half + B - 1) % (Radix * Radix) = B + Half - 1
         /\ Bits \in Nat /\ Bits >= 1
<1>1. /\ B \in Nat /\ B >= 3 /\ B + Half <= Radix * Radix /\ B < Radix * Radix
      /\ Bits \in Nat /\ Bits >= 1 /\ Radix \in Nat
  BY UartAssumption DEF SameRate, B, Half
<1>2. Radix * Radix \in Nat
  BY <1>1
<1>3. Half \in Nat /\ 2 * Half <= B /\ B <= 2 * Half + 1
  BY <1>1 DEF B, Half
<1>4. PICK q \in Nat : q = Radix * Radix
  BY <1>2
<1>. HIDE DEF B, Half
<1>5. (B - 1) % q = B - 1 /\ (Half + B - 1) % q = B + Half - 1
  BY <1>1, <1>3, <1>4
<1>6. QED
  BY <1>1, <1>2, <1>3, <1>4, <1>5 DEF Count

LEMMA FrameIs ==
  ASSUME NEW b \in Frame
  PROVE  b \in Seq(Level) /\ Len(b) = Bits /\ \A i \in 1 .. Bits : b[i] \in Level
<1>1. Bits \in Nat
  BY UartAssumption
<1>2. b \in Seq(Level)
  BY <1>1, SeqDef DEF Frame
<1>3. DOMAIN b = 1 .. Bits /\ DOMAIN b = 1 .. Len(b) /\ Len(b) \in Nat
  BY <1>2, LenProperties DEF Frame
<1>4. QED
  BY <1>1, <1>2, <1>3 DEF Frame

LEMMA FrameEqual ==
  ASSUME NEW b \in Frame, NEW s \in Seq(Level), Len(s) = Bits, \A i \in 1 .. Bits : s[i] = b[i]
  PROVE  s = b
BY FrameIs, SeqEqual

LEMMA ShapeIs ==
  ASSUME NEW b \in Frame
  PROVE  /\ Shape(b) \in [1 .. Bits + 2 -> Level] /\ Len(Shape(b)) = Bits + 2
         /\ Shape(b) \in Seq(Level)
         /\ Shape(b)[1] = 0 /\ Shape(b)[Bits + 2] = 1
         /\ \A i \in 1 .. Bits : Shape(b)[i + 1] = b[i]
<1>. DEFINE a == <<0>> \o b
<1>1. /\ b \in Seq(Level) /\ Len(b) = Bits /\ Bits \in Nat
      /\ <<0>> \in Seq(Level) /\ <<1>> \in Seq(Level)
      /\ Len(<<0>>) = 1 /\ Len(<<1>>) = 1
  BY FrameIs, UartAssumption DEF Level
<1>2. /\ a \in Seq(Level) /\ Len(a) = 1 + Bits
      /\ \A i \in 1 .. 1 + Bits : a[i] = IF i <= 1 THEN 0 ELSE b[i - 1]
  <2>1. /\ a \in Seq(Level) /\ Len(a) = Len(<<0>>) + Len(b)
        /\ \A i \in 1 .. Len(<<0>>) + Len(b) :
             a[i] = IF i <= Len(<<0>>) THEN <<0>>[i] ELSE b[i - Len(<<0>>)]
    BY <1>1, ConcatProperties
  <2>2. \A i \in 1 .. 1 + Bits : i <= 1 => i = 1
    BY <1>1
  <2>. HIDE DEF a
  <2>3. QED
    BY <1>1, <2>1, <2>2
<1>. HIDE DEF a
<1>3. /\ Shape(b) \in Seq(Level) /\ Len(Shape(b)) = Bits + 2
      /\ \A i \in 1 .. Bits + 2 : Shape(b)[i] = IF i <= 1 + Bits THEN a[i] ELSE <<1>>[i - (1 + Bits)]
  <2>1. Shape(b) = a \o <<1>>
    BY DEF Shape, a
  <2>2. /\ a \o <<1>> \in Seq(Level) /\ Len(a \o <<1>>) = Len(a) + Len(<<1>>)
        /\ \A i \in 1 .. Len(a) + Len(<<1>>) :
             (a \o <<1>>)[i] = IF i <= Len(a) THEN a[i] ELSE <<1>>[i - Len(a)]
    BY <1>1, <1>2, ConcatProperties
  <2>3. Len(a) + Len(<<1>>) = Bits + 2
    BY <1>1, <1>2
  <2>4. QED
    BY <1>1, <1>2, <2>1, <2>2, <2>3
<1>4. Shape(b) \in [1 .. Bits + 2 -> Level]
  BY <1>3, LenProperties
<1>5. Shape(b)[1] = 0
  BY <1>1, <1>2, <1>3
<1>6. Shape(b)[Bits + 2] = 1
  BY <1>1, <1>3
<1>7. ASSUME NEW i \in 1 .. Bits PROVE Shape(b)[i + 1] = b[i]
  BY <1>1, <1>2, <1>3
<1>8. QED
  BY <1>3, <1>4, <1>5, <1>6, <1>7

(* A shift register keeps its length.                                      *)
LEMMA ShiftInIs ==
  ASSUME NEW n \in Nat, n >= 1, NEW q \in [1 .. n -> Level], NEW x \in Level
  PROVE  /\ ShiftIn(q, x) \in [1 .. n -> Level]
         /\ \A i \in 1 .. n - 1 : ShiftIn(q, x)[i] = q[i + 1]
         /\ ShiftIn(q, x)[n] = x
         /\ Head(q) = q[1] /\ Head(q) \in Level
<1>1. q \in Seq(Level) /\ Len(q) = n /\ q # <<>>
  <2>1. q \in Seq(Level)
    BY SeqDef
  <2>2. Len(q) = n
    BY <2>1, LenProperties
  <2>3. QED
    BY <2>1, <2>2, EmptySeq
<1>2. /\ Tail(q) \in Seq(Level) /\ Len(Tail(q)) = n - 1
      /\ \A i \in 1 .. n - 1 : Tail(q)[i] = q[i + 1]
  BY <1>1, HeadTailProperties
<1>. DEFINE t == Tail(q)
<1>3. /\ t \in Seq(Level) /\ Len(t) = n - 1 /\ \A i \in 1 .. n - 1 : t[i] = q[i + 1]
  BY <1>2
<1>. HIDE DEF t
<1>4. /\ Append(t, x) \in Seq(Level) /\ Len(Append(t, x)) = n
      /\ \A i \in 1 .. n - 1 : Append(t, x)[i] = t[i]
      /\ Append(t, x)[n] = x
  BY <1>3
<1>5. ShiftIn(q, x) = Append(t, x)
  BY DEF ShiftIn, t
<1>6. Append(t, x) \in [1 .. n -> Level]
  BY <1>4, LenProperties
<1>7. Head(q) = q[1]
  BY <1>1
<1>8. QED
  BY <1>3, <1>4, <1>5, <1>6, <1>7

-----------------------------------------------------------------------------
(* A clock edge of the transmitter, from the registers x to e.             *)
TxStep(x, e, o, b) ==
  \/ /\ ~x.tx_busy /\ o = "send"
     /\ e.tx_shift = Shape(b) /\ e.tx_bit_count = Bits + 2 /\ e.tx_baud_cnt = BitTime(x)
     /\ e.tx_busy = TRUE /\ e.serial_tx = x.serial_tx
  \/ /\ ~x.tx_busy /\ o # "send"
     /\ e.tx_shift = x.tx_shift /\ e.tx_bit_count = x.tx_bit_count
     /\ e.tx_baud_cnt = x.tx_baud_cnt /\ e.tx_busy = x.tx_busy /\ e.serial_tx = x.serial_tx
  \/ /\ x.tx_busy /\ x.tx_baud_cnt # 0
     /\ e.tx_shift = x.tx_shift /\ e.tx_bit_count = x.tx_bit_count
     /\ e.tx_baud_cnt = x.tx_baud_cnt - 1 /\ e.tx_busy = x.tx_busy /\ e.serial_tx = x.serial_tx
  \/ /\ x.tx_busy /\ x.tx_baud_cnt = 0
     /\ e.tx_shift = ShiftIn(x.tx_shift, 1) /\ e.tx_bit_count = x.tx_bit_count - 1
     /\ e.tx_baud_cnt = BitTime(x) /\ e.tx_busy = (x.tx_bit_count # 1)
     /\ e.serial_tx = Head(x.tx_shift)

(* And of the receiver.                                                    *)
RxStep(x, e) ==
  \/ /\ ~x.rx_busy /\ x.rx_sync[2] = 1
     /\ e.rx_busy = x.rx_busy /\ e.rx_bit_count = x.rx_bit_count
     /\ e.rx_baud_cnt = x.rx_baud_cnt /\ e.rx_shift = x.rx_shift
  \/ /\ ~x.rx_busy /\ x.rx_sync[2] # 1
     /\ e.rx_busy = TRUE /\ e.rx_bit_count = Bits
     /\ e.rx_baud_cnt = FirstSample(x) /\ e.rx_shift = x.rx_shift
  \/ /\ x.rx_busy /\ x.rx_baud_cnt # 0
     /\ e.rx_busy = x.rx_busy /\ e.rx_bit_count = x.rx_bit_count
     /\ e.rx_baud_cnt = x.rx_baud_cnt - 1 /\ e.rx_shift = x.rx_shift
  \/ /\ x.rx_busy /\ x.rx_baud_cnt = 0 /\ x.rx_bit_count # 0
     /\ e.rx_busy = x.rx_busy /\ e.rx_bit_count = x.rx_bit_count - 1
     /\ e.rx_baud_cnt = BitTime(x) /\ e.rx_shift = ShiftIn(x.rx_shift, x.rx_sync[2])
  \/ /\ x.rx_busy /\ x.rx_baud_cnt = 0 /\ x.rx_bit_count = 0
     /\ e.rx_busy = FALSE /\ e.rx_bit_count = x.rx_bit_count
     /\ e.rx_baud_cnt = x.rx_baud_cnt /\ e.rx_shift = x.rx_shift

LEMMA TransmitIs ==
  ASSUME NEW x, IsUart(x), x.tx_busy \in BOOLEAN, NEW o, NEW b
  PROVE  TxStep(x, Transmit(x, o, b), o, b)
<1>1. CASE ~x.tx_busy /\ o = "send"
  BY <1>1 DEF IsUart, TxStep, Transmit, Load, Shape
<1>2. CASE ~x.tx_busy /\ o # "send"
  BY <1>2 DEF IsUart, TxStep, Transmit
<1>3. CASE x.tx_busy /\ x.tx_baud_cnt # 0
  BY <1>3 DEF IsUart, TxStep, Transmit
<1>4. CASE x.tx_busy /\ x.tx_baud_cnt = 0
  BY <1>4 DEF IsUart, TxStep, Transmit, LastBit
<1>5. QED
  BY <1>1, <1>2, <1>3, <1>4

LEMMA ReceiveIs ==
  ASSUME NEW x, IsUart(x), x.rx_busy \in BOOLEAN
  PROVE  RxStep(x, Receive(x))
<1>1. CASE ~x.rx_busy
  BY <1>1 DEF IsUart, RxStep, Receive
<1>2. CASE x.rx_busy /\ x.rx_baud_cnt # 0
  BY <1>2 DEF IsUart, RxStep, Receive
<1>3. CASE x.rx_busy /\ x.rx_baud_cnt = 0 /\ x.rx_bit_count # 0
  BY <1>3 DEF IsUart, RxStep, Receive
<1>4. CASE x.rx_busy /\ x.rx_baud_cnt = 0 /\ x.rx_bit_count = 0
  BY <1>4 DEF IsUart, RxStep, Receive
<1>5. QED
  BY <1>1, <1>2, <1>3, <1>4

(* Both, and the registers of the bus.                                     *)
LEMMA EdgeSteps ==
  ASSUME NEW x, IsUart(x), x.tx_busy \in BOOLEAN, x.rx_busy \in BOOLEAN,
         x.rx_ready \in BOOLEAN, x.rx_overrun \in BOOLEAN,
         NEW o, NEW b, NEW d, NEW level
  PROVE  LET e == UartEdge(x, o, b, d, level)
         IN /\ TxStep(x, e, o, b) /\ RxStep(x, e)
            /\ e.rx_sync = <<level, x.rx_sync[1]>>
            /\ e.rx_data \in {x.rx_data, x.rx_shift}
            /\ e.rx_ready \in BOOLEAN /\ e.rx_overrun \in BOOLEAN
            /\ e.baud_div = Divisor(x, o, d)
<1>. DEFINE e == UartEdge(x, o, b, d, level)
            tx == Transmit(x, o, b)
            rx == Receive(x)
            cm == Commit(x, o)
<1>1. /\ e.tx_shift = tx.tx_shift /\ e.tx_bit_count = tx.tx_bit_count
      /\ e.tx_baud_cnt = tx.tx_baud_cnt /\ e.tx_busy = tx.tx_busy /\ e.serial_tx = tx.serial_tx
      /\ e.rx_sync = <<level, x.rx_sync[1]>>
      /\ e.rx_busy = rx.rx_busy /\ e.rx_bit_count = rx.rx_bit_count
      /\ e.rx_baud_cnt = rx.rx_baud_cnt /\ e.rx_shift = rx.rx_shift
      /\ e.rx_data = cm.rx_data /\ e.rx_ready = cm.rx_ready /\ e.rx_overrun = cm.rx_overrun
      /\ e.baud_div = Divisor(x, o, d)
  BY DEF UartEdge
<1>2. /\ cm.rx_data \in {x.rx_data, x.rx_shift}
      /\ cm.rx_ready \in BOOLEAN /\ cm.rx_overrun \in BOOLEAN
  BY DEF IsUart, Commit
<1>3. TxStep(x, tx, o, b) /\ RxStep(x, rx)
  BY TransmitIs, ReceiveIs
<1>. HIDE DEF e, tx, rx, cm
<1>4. TxStep(x, e, o, b)
  BY <1>1, <1>3 DEF TxStep
<1>5. RxStep(x, e)
  BY <1>1, <1>3 DEF RxStep
<1>6. QED
  BY <1>1, <1>2, <1>4, <1>5 DEF e

-----------------------------------------------------------------------------
(* Types of the link.                                                      *)

LinkTypes ==
  /\ u \in Uart /\ (u.tx_busy => u.tx_bit_count # 0)
  /\ prog \in Programs /\ pos \in 1 .. Len(prog) + 1 /\ polled \in BOOLEAN
  /\ bus \in {"exec", "stall", "ack"} /\ (bus # "exec" => pos <= Len(prog))
  /\ host \in {"closed", "open", "sent", "done", "timeout"}
  /\ left \in Seq(Frame) /\ out \in Seq(Level) /\ pin \in Level
  /\ hrx = [on |-> hrx.on, cnt |-> hrx.cnt, bits |-> hrx.bits]
  /\ hrx.on \in BOOLEAN /\ hrx.cnt \in 0 .. B + Half - 1
  /\ hrx.bits \in Seq(Level) /\ Len(hrx.bits) <= Bits

LEMMA UartIs ==
  ASSUME NEW x \in Uart
  PROVE  /\ IsUart(x)
         /\ x.tx_shift \in [1 .. Bits + 2 -> Level] /\ x.tx_bit_count \in 0 .. Bits + 2
         /\ x.tx_baud_cnt \in Count /\ x.tx_busy \in BOOLEAN /\ x.serial_tx \in Level
         /\ x.rx_sync \in [1 .. 2 -> Level] /\ x.rx_busy \in BOOLEAN
         /\ x.rx_bit_count \in 0 .. Bits /\ x.rx_baud_cnt \in Count /\ x.rx_shift \in Frame
         /\ x.rx_data \in Frame /\ x.rx_ready \in BOOLEAN /\ x.rx_overrun \in BOOLEAN
         /\ x.baud_div \in Count
BY DEF Uart, IsUart

LEMMA CountIs ==
  ASSUME NEW x \in Uart
  PROVE  /\ BitTime(x) \in Count /\ FirstSample(x) \in Count
         /\ Count \subseteq Nat
         /\ \A c \in Count : c # 0 => c - 1 \in Count
<1>1. Radix \in Nat /\ BaudRst \in 1 .. Radix * Radix - 1 /\ Radix * Radix \in Nat
  BY UartAssumption
<1>2. PICK q \in Nat : q = Radix * Radix
  BY <1>1
<1>3. q > 0 /\ x.baud_div \in 0 .. q - 1
  BY <1>1, <1>2, UartIs DEF Count
<1>4. x.baud_div \div 2 \in Nat
  BY <1>3
<1>5. /\ (x.baud_div - 1) % q \in 0 .. q - 1
      /\ (x.baud_div \div 2 + x.baud_div - 1) % q \in 0 .. q - 1
  BY <1>3, <1>4
<1>6. QED
  BY <1>2, <1>3, <1>5 DEF BitTime, FirstSample, Count

(* A write of the divisor replaces a digit.                                *)
LEMMA DivisorType ==
  ASSUME NEW x \in Uart, NEW o, NEW d \in 0 .. Radix - 1
  PROVE  Divisor(x, o, d) \in Count
<1>1. Radix \in Nat /\ Radix >= 1 /\ x.baud_div \in 0 .. Radix * Radix - 1 /\ d \in 0 .. Radix - 1
  BY UartAssumption, UartIs DEF Count
<1>2. x.baud_div % Radix \in 0 .. Radix - 1
  BY <1>1
<1>3. d * Radix \in Nat /\ d * Radix <= (Radix - 1) * Radix
  BY <1>1
<1>4. (Radix - 1) * Radix = Radix * Radix - Radix
  BY <1>1
<1>5. Radix * Radix \in Nat
  BY <1>1
<1>6. d * Radix + (x.baud_div % Radix) \in 0 .. Radix * Radix - 1
  BY <1>1, <1>2, <1>3, <1>4, <1>5
<1>7. QED
  BY <1>1, <1>6 DEF Divisor, Count

LEMMA TxType ==
  ASSUME NEW x \in Uart, x.tx_busy => x.tx_bit_count # 0,
         NEW e, NEW o, NEW b \in Frame, TxStep(x, e, o, b)
  PROVE  /\ e.tx_shift \in [1 .. Bits + 2 -> Level] /\ e.tx_bit_count \in 0 .. Bits + 2
         /\ e.tx_baud_cnt \in Count /\ e.tx_busy \in BOOLEAN /\ e.serial_tx \in Level
         /\ e.tx_busy => e.tx_bit_count # 0
<1>1. /\ Bits \in Nat /\ Bits + 2 \in Nat /\ Bits + 2 >= 1
      /\ x.tx_shift \in [1 .. Bits + 2 -> Level] /\ x.tx_bit_count \in 0 .. Bits + 2
      /\ x.tx_baud_cnt \in Count /\ x.tx_busy \in BOOLEAN /\ x.serial_tx \in Level
      /\ BitTime(x) \in Count /\ (x.tx_baud_cnt # 0 => x.tx_baud_cnt - 1 \in Count)
  BY UartAssumption, UartIs, CountIs
<1>2. Shape(b) \in [1 .. Bits + 2 -> Level]
  BY ShapeIs
<1>3. ShiftIn(x.tx_shift, 1) \in [1 .. Bits + 2 -> Level] /\ Head(x.tx_shift) \in Level
  <2>1. 1 \in Level
    BY DEF Level
  <2>2. PICK n \in Nat : n = Bits + 2 /\ n >= 1
    BY <1>1
  <2>3. x.tx_shift \in [1 .. n -> Level]
    BY <1>1, <2>2
  <2>4. QED
    BY <2>1, <2>2, <2>3, ShiftInIs
<1>4. CASE ~x.tx_busy /\ o = "send"
  <2>1. /\ e.tx_shift = Shape(b) /\ e.tx_bit_count = Bits + 2 /\ e.tx_baud_cnt = BitTime(x)
        /\ e.tx_busy = TRUE /\ e.serial_tx = x.serial_tx
    BY <1>4 DEF TxStep
  <2>2. Bits + 2 \in 0 .. Bits + 2 /\ Bits + 2 # 0
    BY <1>1
  <2>3. QED
    BY <1>1, <1>2, <2>1, <2>2
<1>5. CASE ~x.tx_busy /\ o # "send"
  BY <1>1, <1>5 DEF TxStep
<1>6. CASE x.tx_busy /\ x.tx_baud_cnt # 0
  BY <1>1, <1>6 DEF TxStep
<1>7. CASE x.tx_busy /\ x.tx_baud_cnt = 0
  <2>1. /\ e.tx_shift = ShiftIn(x.tx_shift, 1) /\ e.tx_bit_count = x.tx_bit_count - 1
        /\ e.tx_baud_cnt = BitTime(x) /\ e.tx_busy = (x.tx_bit_count # 1)
        /\ e.serial_tx = Head(x.tx_shift)
    BY <1>7 DEF TxStep
  <2>2. e.tx_bit_count \in 0 .. Bits + 2 /\ (e.tx_busy => e.tx_bit_count # 0)
    <3>1. PICK n \in 0 .. Bits + 2 : n = x.tx_bit_count
      BY <1>1
    <3>2. n # 0
      BY <1>7, <3>1
    <3>3. n - 1 \in 0 .. Bits + 2 /\ (n # 1 => n - 1 # 0)
      BY <1>1, <3>2
    <3>4. QED
      BY <2>1, <3>1, <3>3
  <2>3. QED
    BY <1>1, <1>3, <2>1, <2>2
<1>8. QED
  BY <1>1, <1>4, <1>5, <1>6, <1>7

LEMMA RxType ==
  ASSUME NEW x \in Uart, NEW e, RxStep(x, e)
  PROVE  /\ e.rx_busy \in BOOLEAN /\ e.rx_bit_count \in 0 .. Bits
         /\ e.rx_baud_cnt \in Count /\ e.rx_shift \in Frame
<1>1. /\ Bits \in Nat /\ Bits >= 1
      /\ x.rx_busy \in BOOLEAN /\ x.rx_bit_count \in 0 .. Bits /\ x.rx_baud_cnt \in Count
      /\ x.rx_shift \in Frame /\ x.rx_sync[2] \in Level
      /\ BitTime(x) \in Count /\ FirstSample(x) \in Count
      /\ (x.rx_baud_cnt # 0 => x.rx_baud_cnt - 1 \in Count)
  BY UartAssumption, UartIs, CountIs
<1>2. ShiftIn(x.rx_shift, x.rx_sync[2]) \in Frame
  BY <1>1, ShiftInIs DEF Frame
<1>3. CASE ~x.rx_busy
  <2>1. \/ /\ e.rx_busy = x.rx_busy /\ e.rx_bit_count = x.rx_bit_count
           /\ e.rx_baud_cnt = x.rx_baud_cnt /\ e.rx_shift = x.rx_shift
        \/ /\ e.rx_busy = TRUE /\ e.rx_bit_count = Bits
           /\ e.rx_baud_cnt = FirstSample(x) /\ e.rx_shift = x.rx_shift
    BY <1>3 DEF RxStep
  <2>2. Bits \in 0 .. Bits
    BY <1>1
  <2>3. QED
    BY <1>1, <2>1, <2>2
<1>4. CASE x.rx_busy /\ x.rx_baud_cnt # 0
  BY <1>1, <1>4 DEF RxStep
<1>5. CASE x.rx_busy /\ x.rx_baud_cnt = 0 /\ x.rx_bit_count # 0
  <2>1. /\ e.rx_busy = x.rx_busy /\ e.rx_bit_count = x.rx_bit_count - 1
        /\ e.rx_baud_cnt = BitTime(x) /\ e.rx_shift = ShiftIn(x.rx_shift, x.rx_sync[2])
    BY <1>5 DEF RxStep
  <2>2. e.rx_bit_count \in 0 .. Bits
    BY <1>1, <1>5, <2>1
  <2>3. QED
    BY <1>1, <1>2, <2>1, <2>2
<1>6. CASE x.rx_busy /\ x.rx_baud_cnt = 0 /\ x.rx_bit_count = 0
  BY <1>1, <1>6 DEF RxStep
<1>7. QED
  BY <1>1, <1>3, <1>4, <1>5, <1>6

LEMMA OpTypes ==
  ASSUME LinkTypes
  PROVE  /\ op \in BusOps /\ wbyte \in Frame /\ wdigit \in 0 .. Radix - 1
         /\ op = "send" => cur.op = "put" /\ wbyte = cur.b /\ polled /\ Asks = "send"
         /\ op = "setbaud" => cur.op = "baud" /\ wdigit = cur.d /\ pos \in 1 .. Len(prog)
<1>1. prog \in Seq(Ops) /\ Len(prog) \in Nat /\ 0 \in 0 .. Radix - 1 /\ EXIT \in Frame
  <2>1. prog \in Seq(Ops) /\ EXIT \in Frame
    BY SerialAssumption DEF LinkTypes
  <2>2. QED
    BY <2>1, LenProperties, UartAssumption
<1>2. CASE bus = "exec"
  BY <1>1, <1>2 DEF op, wbyte, wdigit, BusOps
<1>3. CASE bus # "exec"
  <2>1. pos \in 1 .. Len(prog)
    BY <1>1, <1>3 DEF LinkTypes
  <2>2. cur \in Ops
    BY <1>1, <2>1, ElementOfSeq DEF cur
  <2>3. /\ op = Asks
        /\ Asks = "send" => cur.op = "put" /\ polled
        /\ Asks = "setbaud" => cur.op = "baud"
        /\ Asks \in BusOps
    BY <1>3, <2>2 DEF op, Asks, Ops, BusOps
  <2>4. cur.op = "put" => cur.b \in Frame
    BY <2>2 DEF Ops
  <2>5. cur.op = "baud" => cur.d \in 0 .. Radix - 1
    BY <2>2 DEF Ops
  <2>6. QED
    BY <1>1, <2>1, <2>3, <2>4, <2>5 DEF wbyte, wdigit
<1>4. QED
  BY <1>2, <1>3

LEMMA LineType ==
  ASSUME LinkTypes
  PROVE  /\ line \in Level
         /\ out = <<>> => line = 1
         /\ out # <<>> => /\ line = Head(out) /\ Len(out) >= 1 /\ Head(out) = out[1]
                          /\ Tail(out) \in Seq(Level) /\ Len(Tail(out)) = Len(out) - 1
                          /\ \A i \in 1 .. Len(out) - 1 : Tail(out)[i] = out[i + 1]
<1>1. out \in Seq(Level)
  BY DEF LinkTypes
<1>2. CASE out = <<>>
  BY <1>2 DEF line, Level
<1>3. CASE out # <<>>
  <2>1. /\ Head(out) \in Level /\ Tail(out) \in Seq(Level) /\ Len(Tail(out)) = Len(out) - 1
        /\ \A i \in 1 .. Len(Tail(out)) : Tail(out)[i] = out[i + 1]
    BY <1>1, <1>3, HeadTailProperties
  <2>2. Len(out) \in Nat \ {0}
    BY <1>1, <1>3, EmptySeq
  <2>3. Head(out) = out[1]
    BY <1>1, <1>3
  <2>4. QED
    BY <1>3, <2>1, <2>2, <2>3 DEF line
<1>4. QED
  BY <1>2, <1>3

(* The clock edge of the UART on the board.                                *)
LEMMA UartTicks ==
  ASSUME LinkTypes, UartTick
  PROVE  /\ u' \in Uart /\ (u'.tx_busy => u'.tx_bit_count # 0)
         /\ TxStep(u, u', op, wbyte) /\ RxStep(u, u')
         /\ u'.rx_sync[1] \in {line, pin} /\ u'.rx_sync[2] = u.rx_sync[1]
         /\ u'.baud_div = Divisor(u, op, wdigit)
<1>1. PICK level \in {line, pin} : u' = UartEdge(u, op, wbyte, wdigit, level)
  BY DEF UartTick
<1>2. level \in Level /\ wbyte \in Frame /\ wdigit \in 0 .. Radix - 1
  BY LineType, OpTypes DEF LinkTypes
<1>3. u \in Uart /\ (u.tx_busy => u.tx_bit_count # 0)
  BY DEF LinkTypes
<1>4. /\ TxStep(u, u', op, wbyte) /\ RxStep(u, u')
      /\ u'.rx_sync = <<level, u.rx_sync[1]>>
      /\ u'.rx_data \in {u.rx_data, u.rx_shift}
      /\ u'.rx_ready \in BOOLEAN /\ u'.rx_overrun \in BOOLEAN
      /\ u'.baud_div = Divisor(u, op, wdigit)
  BY <1>1, <1>3, UartIs, EdgeSteps
<1>5. IsUart(u')
  BY <1>1, <1>3, UartIs, EdgeFields
<1>6. /\ u'.tx_shift \in [1 .. Bits + 2 -> Level] /\ u'.tx_bit_count \in 0 .. Bits + 2
      /\ u'.tx_baud_cnt \in Count /\ u'.tx_busy \in BOOLEAN /\ u'.serial_tx \in Level
      /\ u'.tx_busy => u'.tx_bit_count # 0
  BY <1>2, <1>3, <1>4, TxType
<1>7. /\ u'.rx_busy \in BOOLEAN /\ u'.rx_bit_count \in 0 .. Bits
      /\ u'.rx_baud_cnt \in Count /\ u'.rx_shift \in Frame
  BY <1>3, <1>4, RxType
<1>8. u'.rx_sync \in [1 .. 2 -> Level]
  BY <1>2, <1>3, <1>4, UartIs
<1>9. u'.rx_data \in Frame /\ u'.baud_div \in Count
  BY <1>2, <1>3, <1>4, UartIs, DivisorType
<1>10. u' \in Uart
  BY <1>4, <1>5, <1>6, <1>7, <1>8, <1>9 DEF Uart, IsUart
<1>11. QED
  BY <1>1, <1>4, <1>6, <1>10

-----------------------------------------------------------------------------
(* The levels of a byte, one a cycle.                                      *)

LEMMA SameRange ==
  ASSUME NEW m \in Nat, NEW n \in Nat, 1 .. m = 1 .. n
  PROVE  m = n
OBVIOUS

LEMMA Place ==
  ASSUME NEW x \in Nat, NEW k \in Nat, NEW d \in Nat, d >= 1, k * d <= x, x < k * d + d
  PROVE  x \div d = k
<1>1. PICK q \in Nat, r \in 0 .. d - 1 : q = x \div d /\ x = d * q + r
  BY Z3
<1>2. ~(q >= k + 1)
  <2>1. SUFFICES ASSUME q >= k + 1 PROVE FALSE
    OBVIOUS
  <2>2. PICK m \in Nat : q = k + 1 + m
    BY <2>1
  <2>3. d * q = k * d + d + d * m /\ d * m >= 0
    BY <2>2
  <2>4. QED
    BY <1>1, <2>3
<1>3. ~(k >= q + 1)
  <2>1. SUFFICES ASSUME k >= q + 1 PROVE FALSE
    OBVIOUS
  <2>2. PICK m \in Nat : k = q + 1 + m
    BY <2>1
  <2>3. k * d = d * q + d + d * m /\ d * m >= 0
    BY <2>2
  <2>4. QED
    BY <1>1, <2>3
<1>4. QED
  BY <1>1, <1>2, <1>3

Length == (Bits + 2) * B

LEMMA LengthIs ==
  ASSUME SameRate
  PROVE  /\ Length \in Nat /\ Length = Bits * B + 2 * B /\ Length = (Bits + 1) * B + B
         /\ Bits * B \in Nat /\ Length >= 1 /\ (Bits + 1) * B \in Nat
         /\ \A i \in 0 .. Bits : /\ i * B \in Nat /\ (i + 1) * B = i * B + B
                                 /\ (i + 2) * B = i * B + 2 * B
                                 /\ i * B <= Bits * B
<1>1. B \in Nat /\ B >= 3 /\ Bits \in Nat
  BY RateFacts
<1>. HIDE DEF B
<1>2. /\ Length \in Nat /\ Length = Bits * B + 2 * B /\ Length = (Bits + 1) * B + B
      /\ Bits * B \in Nat /\ (Bits + 1) * B \in Nat
  BY <1>1 DEF Length
<1>3. Length >= 1
  BY <1>1, <1>2
<1>4. ASSUME NEW i \in 0 .. Bits
      PROVE  /\ i * B \in Nat /\ (i + 1) * B = i * B + B /\ (i + 2) * B = i * B + 2 * B
             /\ i * B <= Bits * B
  <2>1. i * B \in Nat /\ (i + 1) * B = i * B + B /\ (i + 2) * B = i * B + 2 * B
    BY <1>1
  <2>2. PICK m \in Nat : Bits = i + m
    BY <1>1
  <2>3. Bits * B = i * B + m * B /\ m * B >= 0
    BY <1>1, <2>2
  <2>4. QED
    BY <1>1, <2>1, <2>3
<1>5. QED
  BY <1>2, <1>3, <1>4

LEMMA LevelsAre ==
  ASSUME SameRate, NEW b \in Frame
  PROVE  /\ Levels(b) \in Seq(Level) /\ Len(Levels(b)) = Length
         /\ \A x \in 0 .. B - 1 : Levels(b)[x + 1] = 0
         /\ \A i \in 1 .. Bits : \A x \in i * B .. i * B + B - 1 : Levels(b)[x + 1] = b[i]
         /\ \A x \in (Bits + 1) * B .. Length - 1 : Levels(b)[x + 1] = 1
<1>1. B \in Nat /\ B >= 3 /\ Bits \in Nat /\ Length \in Nat /\ Length = (Bits + 1) * B + B
  BY RateFacts, LengthIs
<1>2. Levels(b) = [j \in 1 .. Length |-> Shape(b)[(j - 1) \div B + 1]]
  BY DEF Levels, Shape, Length, B
<1>. HIDE DEF B, Length
<1>3. ASSUME NEW k \in 0 .. Bits + 1, NEW x \in k * B .. k * B + B - 1
      PROVE  x + 1 \in 1 .. Length /\ Levels(b)[x + 1] = Shape(b)[k + 1]
  <2>1. k * B \in Nat /\ x \in Nat /\ k * B <= x /\ x < k * B + B
    BY <1>1
  <2>2. PICK m \in Nat : Bits + 1 = k + m
    BY <1>1
  <2>3. (Bits + 1) * B = k * B + m * B /\ m * B >= 0
    BY <1>1, <2>2
  <2>4. x + 1 \in 1 .. Length
    BY <1>1, <2>1, <2>3
  <2>5. x \div B = k
    BY <1>1, <2>1, Place
  <2>6. (x + 1) - 1 = x
    BY <2>1
  <2>7. QED
    BY <1>2, <2>4, <2>5, <2>6
<1>4. ASSUME NEW j \in 1 .. Length PROVE Shape(b)[(j - 1) \div B + 1] \in Level
  <2>1. PICK k \in Nat, r \in 0 .. B - 1 : k = (j - 1) \div B /\ j - 1 = B * k + r
    <3>1. j - 1 \in Nat
      BY <1>1
    <3>2. QED
      BY <1>1, <3>1, Z3
  <2>2. ~(k >= Bits + 2)
    <3>1. SUFFICES ASSUME k >= Bits + 2 PROVE FALSE
      OBVIOUS
    <3>2. PICK m \in Nat : k = Bits + 2 + m
      BY <1>1, <3>1
    <3>3. B * k = (Bits + 1) * B + B + B * m /\ B * m >= 0
      BY <1>1, <3>2
    <3>4. QED
      BY <1>1, <2>1, <3>3
  <2>3. k + 1 \in 1 .. Bits + 2
    BY <1>1, <2>2
  <2>4. QED
    BY <2>1, <2>3, ShapeIs
<1>5. Levels(b) \in [1 .. Length -> Level]
  BY <1>2, <1>4
<1>6. Levels(b) \in Seq(Level) /\ Len(Levels(b)) = Length
  <2>1. Levels(b) \in Seq(Level)
    BY <1>1, <1>5, SeqDef
  <2>2. DOMAIN Levels(b) = 1 .. Len(Levels(b)) /\ Len(Levels(b)) \in Nat
        /\ DOMAIN Levels(b) = 1 .. Length
    BY <1>5, <2>1, LenProperties
  <2>3. QED
    BY <1>1, <2>1, <2>2, SameRange
<1>7. ASSUME NEW x \in 0 .. B - 1 PROVE Levels(b)[x + 1] = 0
  <2>1. x \in 0 * B .. 0 * B + B - 1 /\ 0 \in 0 .. Bits + 1 /\ 0 + 1 = 1
    BY <1>1
  <2>2. QED
    BY <1>3, <2>1, ShapeIs
<1>8. ASSUME NEW i \in 1 .. Bits, NEW x \in i * B .. i * B + B - 1
      PROVE  Levels(b)[x + 1] = b[i]
  <2>1. i \in 0 .. Bits + 1
    BY <1>1
  <2>2. QED
    BY <1>3, <2>1, ShapeIs
<1>9. ASSUME NEW x \in (Bits + 1) * B .. Length - 1 PROVE Levels(b)[x + 1] = 1
  <2>1. Bits + 1 \in 0 .. Bits + 1 /\ x \in (Bits + 1) * B .. (Bits + 1) * B + B - 1
        /\ (Bits + 1) + 1 = Bits + 2
    BY <1>1
  <2>2. QED
    BY <1>3, <2>1, ShapeIs
<1>10. QED
  BY <1>6, <1>7, <1>8, <1>9

-----------------------------------------------------------------------------
(* What a step of each part does to its types.                             *)

(* The host's receiver: it waits, finds a start bit, counts, has a byte or *)
(* takes a bit.                                                            *)
LEMMA HostReceives ==
  ASSUME LinkTypes, HostReceiver
  PROVE  \/ ~hrx.on /\ u.serial_tx = 1 /\ hrx' = hrx
         \/ /\ ~hrx.on /\ u.serial_tx = 0
            /\ hrx' = [on |-> TRUE, cnt |-> B + Half - 1, bits |-> <<>>]
         \/ /\ hrx.on /\ hrx.cnt # 0
            /\ hrx' = [on |-> TRUE, cnt |-> hrx.cnt - 1, bits |-> hrx.bits]
         \/ hrx.on /\ hrx.cnt = 0 /\ Len(hrx.bits) = Bits /\ hrx' = Listening
         \/ /\ hrx.on /\ hrx.cnt = 0 /\ Len(hrx.bits) < Bits
            /\ hrx' = [on |-> TRUE, cnt |-> B - 1, bits |-> Append(hrx.bits, u.serial_tx)]
<1>1. /\ u.serial_tx \in Level
      /\ hrx = [on |-> hrx.on, cnt |-> hrx.cnt, bits |-> hrx.bits]
      /\ hrx.on \in BOOLEAN /\ Len(hrx.bits) <= Bits
      /\ Len(hrx.bits) \in Nat /\ Bits \in Nat
  BY UartIs, LenProperties, UartAssumption DEF LinkTypes
<1>2. CASE ~hrx.on
  BY <1>1, <1>2 DEF HostReceiver, Level, Gets, B, Half
<1>3. CASE hrx.on /\ hrx.cnt # 0
  <2>1. hrx' = [hrx EXCEPT !.cnt = @ - 1]
    BY <1>1, <1>3, Zenon DEF HostReceiver, Gets
  <2>2. QED
    BY <1>1, <1>3, <2>1
<1>4. CASE hrx.on /\ hrx.cnt = 0 /\ Len(hrx.bits) = Bits
  BY <1>4 DEF HostReceiver, Gets
<1>5. CASE hrx.on /\ hrx.cnt = 0 /\ Len(hrx.bits) # Bits
  <2>1. hrx' = [hrx EXCEPT !.cnt = BaudRst - 1, !.bits = Append(@, u.serial_tx)]
    BY <1>5 DEF HostReceiver, Gets
  <2>2. hrx' = [on |-> hrx.on, cnt |-> BaudRst - 1, bits |-> Append(hrx.bits, u.serial_tx)]
    BY <1>1, <2>1
  <2>3. hrx.on = TRUE /\ BaudRst - 1 = B - 1 /\ Len(hrx.bits) < Bits
    BY <1>1, <1>5 DEF B
  <2>4. QED
    BY <1>5, <2>2, <2>3
<1>6. QED
  BY <1>1, <1>2, <1>3, <1>4, <1>5

LEMMA HrxType ==
  ASSUME SameRate, LinkTypes, HostReceiver
  PROVE  /\ hrx' = [on |-> hrx'.on, cnt |-> hrx'.cnt, bits |-> hrx'.bits]
         /\ hrx'.on \in BOOLEAN /\ hrx'.cnt \in 0 .. B + Half - 1
         /\ hrx'.bits \in Seq(Level) /\ Len(hrx'.bits) <= Bits
<1>1. /\ B \in Nat /\ B >= 3 /\ Half \in Nat /\ Bits \in Nat
      /\ 0 \in 0 .. B + Half - 1 /\ B - 1 \in 0 .. B + Half - 1
      /\ B + Half - 1 \in 0 .. B + Half - 1
  BY RateFacts
<1>. HIDE DEF B, Half
<1>2. /\ hrx = [on |-> hrx.on, cnt |-> hrx.cnt, bits |-> hrx.bits]
      /\ hrx.on \in BOOLEAN /\ hrx.cnt \in 0 .. B + Half - 1
      /\ hrx.bits \in Seq(Level) /\ Len(hrx.bits) <= Bits /\ u.serial_tx \in Level
  BY UartIs DEF LinkTypes
<1>3. /\ <<>> \in Seq(Level) /\ Len(<<>>) = 0
  BY EmptySeq
<1>4. CASE ~hrx.on /\ u.serial_tx = 1 /\ hrx' = hrx
  BY <1>2, <1>4
<1>5. CASE hrx' = [on |-> TRUE, cnt |-> B + Half - 1, bits |-> <<>>]
  BY <1>1, <1>3, <1>5
<1>6. CASE hrx.cnt # 0 /\ hrx' = [on |-> TRUE, cnt |-> hrx.cnt - 1, bits |-> hrx.bits]
  <2>1. hrx.cnt - 1 \in 0 .. B + Half - 1
    BY <1>1, <1>2, <1>6
  <2>2. QED
    BY <1>2, <1>6, <2>1
<1>7. CASE hrx' = Listening
  BY <1>1, <1>3, <1>7 DEF Listening
<1>8. CASE /\ Len(hrx.bits) < Bits
           /\ hrx' = [on |-> TRUE, cnt |-> B - 1, bits |-> Append(hrx.bits, u.serial_tx)]
  <2>1. /\ Append(hrx.bits, u.serial_tx) \in Seq(Level)
        /\ Len(Append(hrx.bits, u.serial_tx)) = Len(hrx.bits) + 1 /\ Len(hrx.bits) \in Nat
    BY <1>2
  <2>2. QED
    BY <1>1, <1>8, <2>1
<1>9. QED
  BY <1>4, <1>5, <1>6, <1>7, <1>8, HostReceives

(* The host's transmitter goes on, or starts a byte that is left to send.  *)
LEMMA HostTransmits ==
  ASSUME SameRate, LinkTypes, Host
  PROVE  /\ host' \in {"closed", "open", "sent", "done", "timeout"}
         /\ left' \in Seq(Frame) /\ out' \in Seq(Level) /\ pin' \in Level /\ pin' = line
         /\ \/ left' = left /\ out' = (IF out = <<>> THEN <<>> ELSE Tail(out))
            \/ /\ out = <<>> /\ left # <<>> /\ left' = Tail(left) /\ left' # left
               /\ Head(left) \in Frame /\ out' = Levels(Head(left))
<1>1. /\ left \in Seq(Frame) /\ out \in Seq(Level)
      /\ host \in {"closed", "open", "sent", "done", "timeout"}
  BY DEF LinkTypes
<1>2. pin' = line /\ pin' \in Level
  BY LineType DEF Host
<1>3. host' \in {"closed", "open", "sent", "done", "timeout"}
  BY <1>1 DEF Host, HostOpens, HostSends, HostEnds, HostGivesUp, HostWaits
<1>4. CASE Quiet
  <2>1. left' = left /\ out' = (IF out = <<>> THEN <<>> ELSE Tail(out))
    BY <1>4 DEF Quiet
  <2>2. out' \in Seq(Level)
    BY <1>1, <2>1, LineType
  <2>3. QED
    BY <1>1, <1>2, <1>3, <2>1, <2>2
<1>5. CASE HostSends
  <2>1. out = <<>> /\ left # <<>> /\ out' = Levels(Head(left)) /\ left' = Tail(left)
    BY <1>5 DEF HostSends
  <2>2. /\ Head(left) \in Frame /\ Tail(left) \in Seq(Frame)
        /\ Len(Tail(left)) = Len(left) - 1 /\ Len(left) \in Nat
    BY <1>1, <2>1, HeadTailProperties, LenProperties
  <2>3. Len(left) - 1 # Len(left)
    <3>1. \A n \in Nat : n - 1 # n
      OBVIOUS
    <3>2. QED
      BY <2>2, <3>1
  <2>4. out' \in Seq(Level)
    BY <2>1, <2>2, LevelsAre
  <2>5. QED
    BY <1>2, <1>3, <2>1, <2>2, <2>3, <2>4
<1>6. QED
  BY <1>4, <1>5 DEF Host, HostOpens, HostEnds, HostGivesUp, HostWaits

LEMMA FirmwareType ==
  ASSUME LinkTypes, Exec \/ Stall \/ Poll \/ Act \/ Restart
  PROVE  /\ prog' \in Programs /\ pos' \in 1 .. Len(prog') + 1 /\ polled' \in BOOLEAN
         /\ bus' \in {"exec", "stall", "ack"} /\ (bus' # "exec" => pos' <= Len(prog'))
<1>1. /\ prog \in Programs /\ pos \in 1 .. Len(prog) + 1 /\ polled \in BOOLEAN
      /\ bus \in {"exec", "stall", "ack"} /\ (bus # "exec" => pos <= Len(prog))
      /\ Len(prog) \in Nat /\ u.tx_busy \in BOOLEAN /\ u.rx_ready \in BOOLEAN
  <2>1. prog \in Seq(Ops)
    BY SerialAssumption DEF LinkTypes
  <2>2. QED
    BY <2>1, LenProperties, UartIs DEF LinkTypes
<1>2. CASE Exec
  BY <1>1, <1>2 DEF Exec, ended
<1>3. CASE Stall
  BY <1>1, <1>3 DEF Stall
<1>4. CASE Poll
  BY <1>1, <1>4 DEF Poll, PollOk
<1>5. CASE Act
  <2>1. pos' = pos + 1 /\ prog' = prog /\ bus' = "exec" /\ polled' = FALSE /\ bus = "ack"
    BY <1>5 DEF Act
  <2>2. pos + 1 \in 1 .. Len(prog) + 1
    BY <1>1, <2>1
  <2>3. QED
    BY <1>1, <2>1, <2>2
<1>6. CASE Restart
  <2>1. pos' = 1 /\ prog' = prog /\ bus' = "exec" /\ polled' = FALSE
    BY <1>6 DEF Restart
  <2>2. 1 \in 1 .. Len(prog) + 1
    BY <1>1
  <2>3. QED
    BY <1>1, <2>1, <2>2
<1>7. QED
  BY <1>2, <1>3, <1>4, <1>5, <1>6

LEMMA ResetType ==
  UartReset \in Uart /\ ~UartReset.tx_busy /\ UartReset.tx_bit_count = 0
  /\ UartReset.serial_tx = 1 /\ UartReset.baud_div = B /\ ~UartReset.rx_busy
  /\ UartReset.rx_sync[1] = 1 /\ UartReset.rx_sync[2] = 1
<1>1. /\ Bits \in Nat /\ 0 \in 0 .. Bits /\ 0 \in 0 .. Bits + 2
      /\ 0 \in Count /\ BaudRst \in Count /\ 0 \in Level /\ 1 \in Level
  <2>1. /\ Bits \in Nat /\ Radix \in Nat /\ BaudRst \in 1 .. Radix * Radix - 1
        /\ Radix * Radix \in Nat
    BY UartAssumption
  <2>2. QED
    BY <2>1 DEF Count, Level
<1>2. [i \in 1 .. Bits + 2 |-> 1] \in [1 .. Bits + 2 -> Level]
  BY <1>1
<1>3. [i \in 1 .. Bits |-> 0] \in Frame
  BY <1>1 DEF Frame
<1>4. SyncReset \in [1 .. 2 -> Level] /\ SyncReset[1] = 1 /\ SyncReset[2] = 1
  BY <1>1 DEF SyncReset
<1>5. QED
  BY <1>1, <1>2, <1>3, <1>4 DEF UartReset, Uart, B

LEMMA LinkStep ==
  ASSUME SameRate, LinkTypes, SerialNext
  PROVE  LinkTypes'
<1>1. CASE Tick \/ CoreReset
  <2>1. /\ UartTick /\ Host /\ HostReceiver
        /\ Exec \/ Stall \/ Poll \/ Act \/ Restart
    BY <1>1 DEF Tick, CoreReset
  <2>2. QED
    BY <2>1, UartTicks, HrxType, HostTransmits, FirmwareType DEF LinkTypes
<1>2. CASE Rst
  <2>1. /\ u' = UartReset /\ Restart /\ hrx' = Listening /\ pin' = line
        /\ host' = host /\ left' = left /\ out' = out
    BY <1>2 DEF Rst
  <2>2. /\ <<>> \in Seq(Level) /\ Len(<<>>) = 0 /\ Bits \in Nat /\ Bits >= 1
        /\ 0 \in 0 .. B + Half - 1
    BY EmptySeq, RateFacts
  <2>3. /\ hrx' = [on |-> hrx'.on, cnt |-> hrx'.cnt, bits |-> hrx'.bits]
        /\ hrx'.on \in BOOLEAN /\ hrx'.cnt \in 0 .. B + Half - 1
        /\ hrx'.bits \in Seq(Level) /\ Len(hrx'.bits) <= Bits
    BY <2>1, <2>2 DEF Listening
  <2>4. QED
    BY <2>1, <2>3, ResetType, LineType, FirmwareType DEF LinkTypes
<1>3. QED
  BY <1>1, <1>2 DEF SerialNext

LEMMA LinkInit == ASSUME SameRate, SerialInit PROVE LinkTypes
<1>1. /\ u = UartReset /\ prog \in Programs /\ pos = 1 /\ polled = FALSE /\ bus = "exec"
      /\ host = "closed" /\ left = Sends /\ out = <<>> /\ pin = 1 /\ hrx = Listening
  BY DEF SerialInit
<1>2. prog \in Seq(Ops) /\ Sends \in Seq(Frame)
  BY <1>1, SerialAssumption
<1>3. /\ <<>> \in Seq(Level) /\ Len(<<>>) = 0 /\ Bits \in Nat /\ Bits >= 1
      /\ 0 \in 0 .. B + Half - 1 /\ Len(prog) \in Nat
  BY <1>2, EmptySeq, RateFacts, LenProperties
<1>4. /\ hrx = [on |-> hrx.on, cnt |-> hrx.cnt, bits |-> hrx.bits]
      /\ hrx.on \in BOOLEAN /\ hrx.cnt \in 0 .. B + Half - 1
      /\ hrx.bits \in Seq(Level) /\ Len(hrx.bits) <= Bits
  BY <1>1, <1>3 DEF Listening
<1>5. pos \in 1 .. Len(prog) + 1
  BY <1>1, <1>3
<1>6. u \in Uart /\ ~u.tx_busy
  BY <1>1, ResetType
<1>7. out \in Seq(Level) /\ pin \in Level
  BY <1>1, <1>3 DEF Level
<1>8. QED
  BY <1>1, <1>2, <1>4, <1>5, <1>6, <1>7 DEF LinkTypes

LEMMA LinkStutter == ASSUME LinkTypes, UNCHANGED vars PROVE LinkTypes'
BY DEF vars, firmware, wires, LinkTypes

LEMMA LinkInvariant == ASSUME SameRate PROVE SerialSpec => []LinkTypes
<1>1. LinkTypes /\ [SerialNext]_vars => LinkTypes'
  BY LinkStep, LinkStutter
<1>2. SerialInit => LinkTypes
  BY LinkInit
<1>3. QED
  BY <1>1, <1>2, PTL DEF SerialSpec

-----------------------------------------------------------------------------
(* From the firmware to the host.                                          *)

(* The divisor stays; a put that has seen the transmitter idle finds it    *)
(* idle, and in the second cycle of its store busy with its byte.          *)
PutWaits ==
  /\ u.baud_div = B
  /\ polled /\ Asks = "send" /\ bus # "ack" => ~u.tx_busy
  /\ op = "send" /\ bus = "ack" => u.tx_busy

(* The host has all data bits of a byte.                                   *)
Ending == Len(hrx.bits) = Bits

(* Nothing is being sent; the host may be in a stop bit.                   *)
Idle == /\ ~u.tx_busy /\ u.serial_tx = 1
        /\ IF hrx.on THEN Ending /\ hrx.cnt <= Half /\ owed = <<hrx.bits>>
           ELSE owed = <<>>

(* b is in the shifter, and its start bit to come: the host will be done   *)
(* with the stop bit of the byte before.                                   *)
Loaded(b) ==
  /\ u.tx_busy /\ u.serial_tx = 1 /\ u.tx_bit_count = Bits + 2 /\ u.tx_baud_cnt <= B - 1
  /\ \A i \in 1 .. Bits + 2 : u.tx_shift[i] = Shape(b)[i]
  /\ IF hrx.on THEN Ending /\ hrx.cnt + B <= u.tx_baud_cnt + Half /\ owed = <<hrx.bits, b>>
     ELSE owed = <<b>>

(* The host has the bits of b before the one it will sample; the line is   *)
(* at that one or still at the one before.                                 *)
Hears(b) ==
  /\ \A i \in 1 .. Len(hrx.bits) : hrx.bits[i] = b[i]
  /\ \/ /\ u.tx_bit_count + Len(hrx.bits) = Bits + 1
        /\ hrx.cnt = u.tx_baud_cnt + 1 + Half
     \/ /\ u.tx_bit_count + Len(hrx.bits) = Bits
        /\ hrx.cnt + B - 1 = u.tx_baud_cnt + Half

(* b is on the line.                                                       *)
Sending(b) ==
  /\ u.tx_busy /\ u.tx_bit_count \in 1 .. Bits + 1 /\ u.tx_baud_cnt <= B - 1
  /\ owed = <<b>>
  /\ u.serial_tx = Shape(b)[Bits + 2 - u.tx_bit_count]
  /\ \A i \in 1 .. u.tx_bit_count :
       u.tx_shift[i] = Shape(b)[Bits + 2 - u.tx_bit_count + i]
  /\ IF hrx.on THEN Hears(b)
     ELSE u.tx_bit_count = Bits + 1 /\ u.tx_baud_cnt = B - 1

(* Inductive with LinkTypes.                                               *)
SentInv == PutWaits /\ (Idle \/ \E b \in Frame : Loaded(b) \/ Sending(b))

(* What a step of the link is to the transmitter.                          *)
SendStep ==
  /\ SameRate /\ LinkTypes /\ LinkTypes' /\ PutWaits
  /\ TxStep(u, u', op, wbyte) /\ HostReceiver /\ owed' = Owes
  /\ BitTime(u) = B - 1

LEMMA ShortQueues ==
  ASSUME NEW a, NEW b
  PROVE  /\ Tail(<<a>>) = <<>> /\ Tail(<<a, b>>) = <<b>> /\ <<a>> # <<>> /\ <<a, b>> # <<>>
         /\ Append(<<>>, b) = <<b>> /\ Append(<<a>>, b) = <<a, b>>
<1>. DEFINE S == {a, b}
            one == <<a>>
            two == <<a, b>>
            last2 == <<b>>
<1>1. /\ one \in Seq(S) /\ two \in Seq(S) /\ last2 \in Seq(S) /\ <<>> \in Seq(S)
      /\ Len(one) = 1 /\ Len(two) = 2 /\ Len(last2) = 1 /\ Len(<<>>) = 0
      /\ one[1] = a /\ two[1] = a /\ two[2] = b /\ last2[1] = b
  OBVIOUS
<1>. HIDE DEF S, one, two, last2
<1>2. one # <<>> /\ two # <<>>
  <2>1. Len(<<>>) # Len(one) /\ Len(<<>>) # Len(two)
    BY <1>1
  <2>2. QED
    BY <2>1
<1>3. Tail(one) = <<>>
  <2>1. Tail(one) \in Seq(S) /\ Len(Tail(one)) = 0
    BY <1>1, <1>2, HeadTailProperties
  <2>2. QED
    BY <2>1, EmptySeq
<1>4. Tail(two) = last2
  <2>1. PICK t : t = Tail(two)
    OBVIOUS
  <2>2. t \in Seq(S) /\ Len(t) = 1 /\ t[1] = b
    BY <1>1, <1>2, <2>1, HeadTailProperties
  <2>3. \A i \in 1 .. Len(t) : t[i] = last2[i]
    BY <1>1, <2>2
  <2>4. t = last2
    BY <1>1, <2>2, <2>3, SeqEqual
  <2>5. QED
    BY <2>1, <2>4
<1>5. Append(<<>>, b) = last2
  <2>1. b \in S
    BY DEF S
  <2>2. Append(<<>>, b) \in Seq(S) /\ Len(Append(<<>>, b)) = 1 /\ Append(<<>>, b)[1] = b
    BY <1>1, <2>1
  <2>3. QED
    BY <1>1, <2>2, SeqEqual
<1>6. Append(one, b) = two
  <2>1. b \in S
    BY DEF S
  <2>2. PICK t : t = Append(one, b)
    OBVIOUS
  <2>3. t \in Seq(S) /\ Len(t) = 2
    <3>1. one \in Seq(S) /\ b \in S /\ Len(one) + 1 = 2
      BY <1>1, <2>1
    <3>2. Append(one, b) \in Seq(S) /\ Len(Append(one, b)) = Len(one) + 1
      BY <3>1
    <3>3. QED
      BY <2>2, <3>1, <3>2
  <2>4. t[1] = a
    BY <1>1, <2>1, <2>2
  <2>5. t[2] = b
    BY <1>1, <2>1, <2>2
  <2>6. \A i \in 1 .. Len(t) : t[i] = two[i]
    BY <1>1, <2>3, <2>4, <2>5
  <2>7. t = two
    BY <1>1, <2>3, <2>6, SeqEqual
  <2>8. QED
    BY <2>2, <2>7
<1>7. QED
  BY <1>2, <1>3, <1>4, <1>5, <1>6 DEF one, two, last2

(* The queue of the bytes owed, from the head that the host may have got.  *)
LEMMA OwesIs ==
  /\ owed = <<>> /\ ~(op = "send" /\ bus = "stall") => Owes = <<>>
  /\ owed = <<>> /\ op = "send" /\ bus = "stall" => Owes = <<cur.b>>
  /\ \A a : owed = <<a>> =>
       /\ ~Gets /\ ~(op = "send" /\ bus = "stall") => Owes = <<a>>
       /\ Gets /\ ~(op = "send" /\ bus = "stall") => Owes = <<>>
       /\ ~Gets /\ op = "send" /\ bus = "stall" => Owes = <<a, cur.b>>
       /\ Gets /\ op = "send" /\ bus = "stall" => Owes = <<cur.b>>
  /\ \A a, b : owed = <<a, b>> /\ ~(op = "send" /\ bus = "stall") =>
       Owes = IF Gets THEN <<b>> ELSE <<a, b>>
<1>. DEFINE stores == op = "send" /\ bus = "stall"
            rest == IF Gets /\ owed # <<>> THEN Tail(owed) ELSE owed
<1>1. Owes = IF stores THEN Append(rest, cur.b) ELSE rest
  BY DEF Owes
<1>2. owed = <<>> => rest = <<>>
  OBVIOUS
<1>3. ASSUME NEW a, owed = <<a>> PROVE rest = IF Gets THEN <<>> ELSE <<a>>
  BY <1>3, ShortQueues
<1>4. ASSUME NEW a, NEW b, owed = <<a, b>> PROVE rest = IF Gets THEN <<b>> ELSE <<a, b>>
  BY <1>4, ShortQueues
<1>5. /\ Append(<<>>, cur.b) = <<cur.b>>
      /\ \A a : Append(<<a>>, cur.b) = <<a, cur.b>>
  BY ShortQueues
<1>. HIDE DEF rest
<1>6. QED
  BY <1>1, <1>2, <1>3, <1>4, <1>5

(* Everything SMT needs of a step.                                         *)
LEMMA SendFacts ==
  ASSUME SendStep
  PROVE  /\ B \in Nat /\ B >= 3 /\ Half \in Nat /\ Half >= 1 /\ 2 * Half <= B
         /\ B <= 2 * Half + 1 /\ Bits \in Nat /\ Bits >= 1
         /\ u.tx_busy \in BOOLEAN /\ u.tx_bit_count \in Nat /\ u.tx_baud_cnt \in Nat
         /\ u'.tx_busy \in BOOLEAN /\ u'.tx_bit_count \in Nat /\ u'.tx_baud_cnt \in Nat
         /\ hrx.on \in BOOLEAN /\ hrx.cnt \in Nat /\ hrx.bits \in Seq(Level)
         /\ Len(hrx.bits) \in Nat /\ Len(hrx.bits) <= Bits
         /\ hrx'.on \in BOOLEAN /\ hrx'.cnt \in Nat
         /\ Gets <=> hrx.on /\ hrx.cnt = 0 /\ Ending
         /\ op = "send" => polled /\ Asks = "send" /\ wbyte = cur.b /\ cur.b \in Frame
                           /\ bus \in {"stall", "ack"}
<1>1. LinkTypes /\ LinkTypes' /\ SameRate
  BY DEF SendStep
<1>2. /\ u \in Uart /\ u' \in Uart /\ Bits \in Nat
      /\ 0 .. Bits + 2 \subseteq Nat /\ Count \subseteq Nat
      /\ 0 .. B + Half - 1 \subseteq Nat
  <2>1. u \in Uart /\ u' \in Uart
    BY <1>1 DEF LinkTypes
  <2>2. Count \subseteq Nat /\ Bits \in Nat /\ B \in Nat /\ Half \in Nat
    BY <1>1, <2>1, RateFacts, CountIs
  <2>3. QED
    BY <2>1, <2>2
<1>3. op = "send" => polled /\ Asks = "send" /\ wbyte = cur.b /\ wbyte \in Frame
                     /\ bus \in {"stall", "ack"}
  <2>1. op = "send" => bus # "exec"
    BY DEF op
  <2>2. QED
    BY <1>1, <2>1, OpTypes DEF LinkTypes
<1>4. /\ hrx.on \in BOOLEAN /\ hrx.cnt \in Nat /\ hrx.bits \in Seq(Level)
      /\ Len(hrx.bits) <= Bits /\ hrx'.on \in BOOLEAN /\ hrx'.cnt \in Nat
  BY <1>1, <1>2 DEF LinkTypes
<1>5. Len(hrx.bits) \in Nat
  BY <1>4, LenProperties
<1>6. /\ u.tx_busy \in BOOLEAN /\ u.tx_bit_count \in Nat /\ u.tx_baud_cnt \in Nat
      /\ u'.tx_busy \in BOOLEAN /\ u'.tx_bit_count \in Nat /\ u'.tx_baud_cnt \in Nat
  BY <1>2, UartIs
<1>7. QED
  BY <1>1, <1>3, <1>4, <1>5, <1>6, RateFacts DEF Gets, Ending

LEMMA IdleStep ==
  ASSUME SendStep, Idle
  PROVE  Idle' \/ \E b \in Frame : Loaded(b)'
<1>1. op = "send" => bus = "stall"
  BY SendFacts DEF SendStep, PutWaits, Idle
<1>2. ~u.tx_busy /\ u.serial_tx = 1 /\ u'.serial_tx = 1
  BY DEF SendStep, TxStep, Idle
<1>3. \/ ~hrx.on /\ hrx' = hrx
      \/ /\ hrx.on /\ hrx.cnt # 0
         /\ hrx' = [on |-> TRUE, cnt |-> hrx.cnt - 1, bits |-> hrx.bits]
      \/ hrx.on /\ hrx.cnt = 0 /\ hrx' = Listening
  BY <1>2, HostReceives, SendFacts DEF SendStep, Idle, Ending
<1>4. hrx.on => Ending /\ hrx.cnt <= Half /\ owed = <<hrx.bits>>
  BY DEF Idle
<1>5. ~hrx.on => owed = <<>>
  BY DEF Idle
<1>6. CASE op # "send"
  <2>1. ~u'.tx_busy
    BY <1>2, <1>6 DEF SendStep, TxStep
  <2>2. IF hrx'.on THEN Ending' /\ hrx'.cnt <= Half /\ owed' = <<hrx'.bits>> ELSE owed' = <<>>
    <3>1. CASE ~hrx.on
      BY <1>3, <1>5, <1>6, <3>1, OwesIs DEF SendStep
    <3>2. CASE hrx.on /\ hrx.cnt # 0
      <4>1. ~Gets /\ owed' = <<hrx.bits>>
        BY <1>4, <1>6, <3>2, OwesIs DEF SendStep, Gets
      <4>2. hrx'.on /\ hrx'.cnt = hrx.cnt - 1 /\ hrx'.bits = hrx.bits
        BY <1>3, <3>2
      <4>3. QED
        BY <1>4, <3>2, <4>1, <4>2, SendFacts DEF Ending
    <3>3. CASE hrx.on /\ hrx.cnt = 0
      <4>1. Gets /\ owed' = <<>>
        BY <1>4, <1>6, <3>3, OwesIs DEF SendStep, Gets, Ending
      <4>2. QED
        BY <1>3, <3>3, <4>1 DEF Listening
    <3>4. QED
      BY <3>1, <3>2, <3>3, SendFacts
  <2>3. QED
    BY <1>2, <2>1, <2>2 DEF Idle
<1>7. CASE op = "send"
  <2>1. PICK b \in Frame : b = wbyte /\ b = cur.b
    BY <1>7, SendFacts
  <2>2. /\ u'.tx_busy /\ u'.tx_shift = Shape(b) /\ u'.tx_bit_count = Bits + 2
        /\ u'.tx_baud_cnt = B - 1
    BY <1>2, <1>7, <2>1 DEF SendStep, TxStep
  <2>3. IF hrx'.on THEN Ending' /\ hrx'.cnt + B <= u'.tx_baud_cnt + Half
                        /\ owed' = <<hrx'.bits, b>>
        ELSE owed' = <<b>>
    <3>1. CASE ~hrx.on
      BY <1>1, <1>3, <1>5, <1>7, <2>1, <3>1, OwesIs DEF SendStep
    <3>2. CASE hrx.on /\ hrx.cnt # 0
      <4>1. ~Gets /\ owed' = <<hrx.bits, b>>
        <5>1. ~Gets
          BY <3>2, SendFacts
        <5>2. owed = <<hrx.bits>> /\ op = "send" /\ bus = "stall"
          BY <1>1, <1>4, <1>7, <3>2
        <5>3. Owes = <<hrx.bits, cur.b>>
          BY <5>1, <5>2, OwesIs
        <5>4. QED
          BY <2>1, <5>1, <5>3 DEF SendStep
      <4>2. hrx'.on /\ hrx'.cnt = hrx.cnt - 1 /\ hrx'.bits = hrx.bits
        BY <1>3, <3>2
      <4>3. QED
        BY <1>4, <2>2, <3>2, <4>1, <4>2, SendFacts DEF Ending
    <3>3. CASE hrx.on /\ hrx.cnt = 0
      <4>1. Gets /\ owed' = <<b>>
        BY <1>1, <1>4, <1>7, <2>1, <3>3, OwesIs DEF SendStep, Gets, Ending
      <4>2. QED
        BY <1>3, <3>3, <4>1 DEF Listening
    <3>4. QED
      BY <3>1, <3>2, <3>3, SendFacts
  <2>4. u'.tx_baud_cnt <= B - 1
    BY <2>2, SendFacts
  <2>5. Loaded(b)'
    BY <1>2, <2>2, <2>3, <2>4 DEF Loaded
  <2>6. QED
    BY <2>5
<1>8. QED
  BY <1>6, <1>7

(* The numbers among them.                                                 *)
LEMMA SendNumbers ==
  ASSUME SendStep
  PROVE  /\ B \in Nat /\ B >= 3 /\ Half \in Nat /\ Half >= 1 /\ 2 * Half <= B
         /\ B <= 2 * Half + 1 /\ Bits \in Nat /\ Bits >= 1
         /\ u.tx_bit_count \in Nat /\ u.tx_baud_cnt \in Nat
         /\ u'.tx_bit_count \in Nat /\ u'.tx_baud_cnt \in Nat
         /\ hrx.cnt \in Nat /\ hrx'.cnt \in Nat
         /\ Len(hrx.bits) \in Nat /\ Len(hrx.bits) <= Bits
BY SendFacts

(* The end of a bit time: the next bit is on the line.                     *)
LEMMA ShiftOut ==
  ASSUME LinkTypes, TxStep(u, u', op, wbyte), u.tx_busy, u.tx_baud_cnt = 0
  PROVE  /\ u'.serial_tx = u.tx_shift[1] /\ u'.tx_bit_count = u.tx_bit_count - 1
         /\ \A i \in 1 .. Bits + 1 : u'.tx_shift[i] = u.tx_shift[i + 1]
         /\ u'.tx_baud_cnt = BitTime(u) /\ u'.tx_busy = (u.tx_bit_count # 1)
<1>1. /\ u'.tx_shift = ShiftIn(u.tx_shift, 1) /\ u'.tx_bit_count = u.tx_bit_count - 1
      /\ u'.tx_baud_cnt = BitTime(u) /\ u'.tx_busy = (u.tx_bit_count # 1)
      /\ u'.serial_tx = Head(u.tx_shift)
  BY DEF TxStep
<1>2. PICK n \in Nat : n = Bits + 2 /\ n >= 1 /\ n - 1 = Bits + 1
  BY UartAssumption
<1>3. u.tx_shift \in [1 .. n -> Level] /\ 1 \in Level
  BY <1>2, UartIs DEF LinkTypes, Level
<1>4. /\ \A i \in 1 .. n - 1 : ShiftIn(u.tx_shift, 1)[i] = u.tx_shift[i + 1]
      /\ Head(u.tx_shift) = u.tx_shift[1]
  <2>1. PICK q \in [1 .. n -> Level] : q = u.tx_shift
    BY <1>3
  <2>2. PICK x \in Level : x = 1
    BY <1>3
  <2>3. /\ \A i \in 1 .. n - 1 : ShiftIn(q, x)[i] = q[i + 1]
        /\ Head(q) = q[1]
    <3>1. n \in Nat /\ n >= 1 /\ q \in [1 .. n -> Level] /\ x \in Level
      BY <1>2, <2>1, <2>2
    <3>2. QED
      BY <3>1, ShiftInIs
  <2>4. QED
    BY <2>1, <2>2, <2>3
<1>5. QED
  <2>1. \A i \in 1 .. Bits + 1 : u'.tx_shift[i] = u.tx_shift[i + 1]
    BY <1>1, <1>2, <1>4
  <2>2. QED
    BY <1>1, <1>4, <2>1

LEMMA LoadedStep ==
  ASSUME SendStep, NEW b \in Frame, Loaded(b)
  PROVE  Loaded(b)' \/ Sending(b)'
<1>n. PICK n \in Nat, r \in Nat, h \in Nat, k0 \in Nat, c0 \in Nat, k1 \in Nat,
           c1 \in Nat, w0 \in Nat, w1 \in Nat, l \in Nat :
        /\ n = Bits /\ r = B /\ h = Half /\ k0 = u.tx_bit_count /\ c0 = u.tx_baud_cnt
        /\ k1 = u'.tx_bit_count /\ c1 = u'.tx_baud_cnt /\ w0 = hrx.cnt /\ w1 = hrx'.cnt
        /\ l = Len(hrx.bits) /\ l <= n /\ n >= 1
        /\ r >= 3 /\ h >= 1 /\ 2 * h <= r /\ r <= 2 * h + 1
  BY SendNumbers
<1>1. ~(op = "send" /\ bus = "stall")
  BY SendFacts DEF SendStep, PutWaits, Loaded
<1>2. /\ u.tx_busy /\ u.serial_tx = 1 /\ u.tx_bit_count = Bits + 2
      /\ u.tx_baud_cnt <= B - 1
      /\ \A i \in 1 .. Bits + 2 : u.tx_shift[i] = Shape(b)[i]
      /\ hrx.on => Ending /\ hrx.cnt + B <= u.tx_baud_cnt + Half /\ owed = <<hrx.bits, b>>
      /\ ~hrx.on => owed = <<b>>
  BY DEF Loaded
<1>3. \/ ~hrx.on /\ hrx' = hrx
      \/ /\ hrx.on /\ hrx.cnt # 0
         /\ hrx' = [on |-> TRUE, cnt |-> hrx.cnt - 1, bits |-> hrx.bits]
      \/ hrx.on /\ hrx.cnt = 0 /\ hrx' = Listening
  <2>1. LinkTypes /\ HostReceiver
    BY DEF SendStep
  <2>2. u.serial_tx # 0 /\ (hrx.on => ~(Len(hrx.bits) < Bits))
    BY <1>2, <1>n DEF Ending
  <2>3. QED
    BY <2>1, <2>2, HostReceives
<1>4. CASE u.tx_baud_cnt # 0
  <2>1. /\ u'.tx_shift = u.tx_shift /\ u'.tx_bit_count = u.tx_bit_count
        /\ u'.tx_baud_cnt = u.tx_baud_cnt - 1 /\ u'.tx_busy /\ u'.serial_tx = 1
    BY <1>2, <1>4 DEF SendStep, TxStep
  <2>2. IF hrx'.on THEN Ending' /\ hrx'.cnt + B <= u'.tx_baud_cnt + Half
                        /\ owed' = <<hrx'.bits, b>>
        ELSE owed' = <<b>>
    <3>1. CASE ~hrx.on
      BY <1>1, <1>2, <1>3, <3>1, OwesIs DEF SendStep, Gets
    <3>2. CASE hrx.on /\ hrx.cnt # 0
      <4>1. ~Gets /\ owed' = <<hrx.bits, b>>
        BY <1>1, <1>2, <3>2, OwesIs DEF SendStep, Gets
      <4>2. hrx'.on /\ hrx'.cnt = hrx.cnt - 1 /\ hrx'.bits = hrx.bits
        BY <1>3, <3>2
      <4>3. w0 + r <= c0 + h /\ c0 # 0 /\ w0 # 0 /\ w1 = w0 - 1 /\ c1 = c0 - 1
        BY <1>2, <1>4, <2>1, <3>2, <4>2, <1>n
      <4>4. w1 + r <= c1 + h
        BY <4>3
      <4>5. hrx'.cnt + B <= u'.tx_baud_cnt + Half
        BY <4>4, <1>n
      <4>6. QED
        BY <1>2, <3>2, <4>1, <4>2, <4>5 DEF Ending
    <3>3. CASE hrx.on /\ hrx.cnt = 0
      <4>1. Gets /\ owed' = <<b>>
        BY <1>1, <1>2, <3>3, OwesIs DEF SendStep, Gets, Ending
      <4>2. QED
        BY <1>3, <3>3, <4>1 DEF Listening
    <3>4. QED
      BY <3>1, <3>2, <3>3
  <2>3. u'.tx_baud_cnt <= B - 1
    BY <1>2, <2>1, <1>n
  <2>4. Loaded(b)'
    BY <1>2, <2>1, <2>2, <2>3 DEF Loaded
  <2>5. QED
    BY <2>4
<1>5. CASE u.tx_baud_cnt = 0
  <2>1. ~hrx.on /\ hrx' = hrx /\ ~Gets
    <3>1. ~hrx.on
      <4>1. c0 = 0 /\ (hrx.on => w0 + r <= c0 + h)
        BY <1>2, <1>5, <1>n
      <4>2. QED
        BY <4>1, <1>n
    <3>2. QED
      BY <1>3, <3>1, SendFacts
  <2>2. owed' = <<b>>
    BY <1>1, <1>2, <2>1, OwesIs DEF SendStep
  <2>3. /\ u'.serial_tx = u.tx_shift[1] /\ u'.tx_bit_count = u.tx_bit_count - 1
        /\ \A i \in 1 .. Bits + 1 : u'.tx_shift[i] = u.tx_shift[i + 1]
        /\ u'.tx_baud_cnt = B - 1 /\ u'.tx_busy = (u.tx_bit_count # 1)
    BY <1>2, <1>5, ShiftOut DEF SendStep
  <2>4. /\ u'.tx_bit_count = Bits + 1 /\ u'.tx_busy /\ u'.tx_bit_count \in 1 .. Bits + 1
        /\ Bits + 2 - u'.tx_bit_count = 1
    <3>1. k0 = n + 2 /\ k1 = k0 - 1
      BY <1>2, <2>3, <1>n
    <3>2. k1 = n + 1 /\ k0 # 1 /\ k1 \in 1 .. n + 1 /\ n + 2 - k1 = 1
      BY <3>1
    <3>3. QED
      BY <2>3, <3>2, <1>n
  <2>5. u'.serial_tx = Shape(b)[Bits + 2 - u'.tx_bit_count]
    BY <1>2, <2>3, <2>4, <1>n
  <2>6. ASSUME NEW i \in 1 .. u'.tx_bit_count
        PROVE  u'.tx_shift[i] = Shape(b)[Bits + 2 - u'.tx_bit_count + i]
    <3>1. i \in 1 .. Bits + 1 /\ i + 1 \in 1 .. Bits + 2
          /\ Bits + 2 - u'.tx_bit_count + i = i + 1
      BY <2>4, <1>n
    <3>2. QED
      BY <1>2, <2>3, <3>1
  <2>7. u'.tx_baud_cnt <= B - 1
    BY <2>3, <1>n
  <2>8. Sending(b)'
    BY <2>1, <2>2, <2>3, <2>4, <2>5, <2>6, <2>7 DEF Sending
  <2>9. QED
    BY <2>8
<1>6. QED
  BY <1>4, <1>5

LEMMA SendingStep ==
  ASSUME SendStep, NEW b \in Frame, Sending(b)
  PROVE  Sending(b)' \/ Idle'
<1>n. PICK n \in Nat, r \in Nat, h \in Nat, k0 \in Nat, c0 \in Nat, k1 \in Nat,
           c1 \in Nat, w0 \in Nat, w1 \in Nat, l \in Nat :
        /\ n = Bits /\ r = B /\ h = Half /\ k0 = u.tx_bit_count /\ c0 = u.tx_baud_cnt
        /\ k1 = u'.tx_bit_count /\ c1 = u'.tx_baud_cnt /\ w0 = hrx.cnt /\ w1 = hrx'.cnt
        /\ l = Len(hrx.bits) /\ l <= n /\ n >= 1
        /\ r >= 3 /\ h >= 1 /\ 2 * h <= r /\ r <= 2 * h + 1
  BY SendNumbers
<1>1. ~(op = "send" /\ bus = "stall")
  BY SendFacts DEF SendStep, PutWaits, Sending
<1>2. /\ u.tx_busy /\ u.tx_bit_count \in 1 .. Bits + 1 /\ u.tx_baud_cnt <= B - 1
      /\ owed = <<b>>
      /\ u.serial_tx = Shape(b)[Bits + 2 - u.tx_bit_count]
      /\ \A i \in 1 .. u.tx_bit_count :
           u.tx_shift[i] = Shape(b)[Bits + 2 - u.tx_bit_count + i]
      /\ hrx.on => Hears(b)
      /\ ~hrx.on => u.tx_bit_count = Bits + 1 /\ u.tx_baud_cnt = B - 1
  BY DEF Sending
<1>3. ~Gets /\ owed' = <<b>>
  <2>1. ~Gets
    <3>1. SUFFICES ASSUME Gets PROVE FALSE
      OBVIOUS
    <3>2. Hears(b) /\ w0 = 0 /\ l = n
      BY <1>2, <1>n, <3>1, SendFacts DEF Ending
    <3>3. k0 \in 1 .. n + 1
      BY <1>2, <1>n
    <3>4. (k0 + l = n + 1 /\ w0 = c0 + 1 + h) \/ k0 + l = n
      BY <1>n, <3>2 DEF Hears
    <3>5. CASE k0 + l = n + 1 /\ w0 = c0 + 1 + h
      BY <3>2, <3>5
    <3>6. CASE k0 + l = n
      BY <3>2, <3>3, <3>6
    <3>7. QED
      BY <3>4, <3>5, <3>6
  <2>2. QED
    BY <1>1, <1>2, <2>1, OwesIs DEF SendStep
<1>4. CASE u.tx_baud_cnt # 0
  <2>1. /\ u'.tx_shift = u.tx_shift /\ u'.tx_bit_count = u.tx_bit_count
        /\ u'.tx_baud_cnt = u.tx_baud_cnt - 1 /\ u'.tx_busy /\ u'.serial_tx = u.serial_tx
    BY <1>2, <1>4 DEF SendStep, TxStep
  <2>2. hrx'.on /\ Hears(b)'
    <3>1. CASE ~hrx.on
      <4>1. u.serial_tx = 0
        <5>1. Bits + 2 - u.tx_bit_count = 1
          BY <1>2, <3>1, <1>n
        <5>2. QED
          BY <1>2, <5>1, ShapeIs
      <4>2. hrx' = [on |-> TRUE, cnt |-> B + Half - 1, bits |-> <<>>]
        BY <3>1, <4>1, HostReceives DEF SendStep
      <4>3. hrx'.on /\ hrx'.cnt = B + Half - 1 /\ hrx'.bits = <<>> /\ Len(hrx'.bits) = 0
        BY <4>2, EmptySeq
      <4>4. /\ u'.tx_bit_count + 0 = Bits + 1 /\ hrx'.cnt = u'.tx_baud_cnt + 1 + Half
            /\ 1 .. 0 = {}
        <5>1. k0 = n + 1 /\ c0 = r - 1 /\ k1 = k0 /\ c1 = c0 - 1 /\ w1 = r + h - 1
          BY <1>2, <2>1, <3>1, <4>3, <1>n
        <5>2. k1 + 0 = n + 1 /\ w1 = c1 + 1 + h
          BY <5>1
        <5>3. QED
          BY <5>2, <1>n
      <4>5. QED
        BY <4>3, <4>4 DEF Hears
    <3>2. CASE hrx.on /\ hrx.cnt # 0
      <4>1. hrx' = [on |-> TRUE, cnt |-> hrx.cnt - 1, bits |-> hrx.bits]
        BY <3>2, HostReceives DEF SendStep
      <4>2. hrx'.on /\ hrx'.cnt = hrx.cnt - 1 /\ hrx'.bits = hrx.bits
        BY <4>1
      <4>3. /\ \A i \in 1 .. Len(hrx.bits) : hrx.bits[i] = b[i]
            /\ \/ k0 + l = n + 1 /\ w0 = c0 + 1 + h
               \/ k0 + l = n /\ w0 + r - 1 = c0 + h
        BY <1>2, <3>2, <1>n DEF Hears
      <4>4. k1 = k0 /\ c1 = c0 - 1 /\ w1 = w0 - 1 /\ c0 # 0 /\ w0 # 0
        BY <1>4, <2>1, <3>2, <4>2, <1>n
      <4>5. \/ k1 + l = n + 1 /\ w1 = c1 + 1 + h
            \/ k1 + l = n /\ w1 + r - 1 = c1 + h
        <5>1. CASE k0 + l = n + 1 /\ w0 = c0 + 1 + h
          BY <4>4, <5>1
        <5>2. CASE k0 + l = n /\ w0 + r - 1 = c0 + h
          <6>1. (w0 - 1) + r - 1 = (c0 - 1) + h
            BY <5>2
          <6>2. QED
            BY <4>4, <5>2, <6>1
        <5>3. QED
          BY <4>3, <5>1, <5>2
      <4>6. \/ u'.tx_bit_count + Len(hrx'.bits) = Bits + 1 /\ hrx'.cnt = u'.tx_baud_cnt + 1 + Half
            \/ u'.tx_bit_count + Len(hrx'.bits) = Bits /\ hrx'.cnt + B - 1 = u'.tx_baud_cnt + Half
        BY <4>2, <4>5, <1>n
      <4>7. QED
        BY <4>2, <4>3, <4>6 DEF Hears
    <3>3. CASE hrx.on /\ hrx.cnt = 0
      <4>1. Len(hrx.bits) < Bits
        BY <1>3, <3>3, <1>n, SendFacts DEF Ending
      <4>2. hrx' = [on |-> TRUE, cnt |-> B - 1, bits |-> Append(hrx.bits, u.serial_tx)]
        BY <3>3, <4>1, HostReceives DEF SendStep
      <4>3. PICK m \in Nat : m = Len(hrx.bits) /\ m < Bits
        BY <4>1, <1>n
      <4>4. u.tx_bit_count + m = Bits /\ B - 1 = u.tx_baud_cnt + Half
        BY <1>2, <3>3, <4>3, <1>n DEF Hears
      <4>5. u.serial_tx = b[m + 1]
        <5>1. Bits + 2 - u.tx_bit_count = (m + 1) + 1 /\ m + 1 \in 1 .. Bits
          <6>1. k0 + m = n /\ m < n
            BY <4>3, <4>4, <1>n
          <6>2. n + 2 - k0 = (m + 1) + 1 /\ m + 1 \in 1 .. n
            BY <6>1
          <6>3. QED
            BY <6>2, <1>n
        <5>2. QED
          BY <1>2, <5>1, ShapeIs
      <4>6. /\ hrx'.on /\ hrx'.cnt = B - 1 /\ Len(hrx'.bits) = m + 1
            /\ \A i \in 1 .. m : hrx'.bits[i] = hrx.bits[i]
            /\ hrx'.bits[m + 1] = u.serial_tx
        <5>1. hrx'.on /\ hrx'.cnt = B - 1 /\ hrx'.bits = Append(hrx.bits, u.serial_tx)
          BY <4>2
        <5>2. hrx.bits \in Seq(Level) /\ u.serial_tx \in Level
          BY UartIs DEF SendStep, LinkTypes
        <5>3. QED
          BY <4>3, <5>1, <5>2
      <4>7. ASSUME NEW i \in 1 .. Len(hrx'.bits) PROVE hrx'.bits[i] = b[i]
        <5>1. i \in 1 .. m \/ i = m + 1
          BY <4>3, <4>6
        <5>2. \A j \in 1 .. m : hrx.bits[j] = b[j]
          BY <1>2, <3>3, <4>3 DEF Hears
        <5>3. QED
          BY <4>5, <4>6, <5>1, <5>2
      <4>8. u'.tx_bit_count + (m + 1) = Bits + 1 /\ hrx'.cnt = u'.tx_baud_cnt + 1 + Half
        <5>1. k0 + m = n /\ r - 1 = c0 + h /\ k1 = k0 /\ c1 = c0 - 1 /\ w1 = r - 1 /\ c0 # 0
          BY <1>4, <2>1, <4>3, <4>4, <4>6, <1>n
        <5>2. k1 + (m + 1) = n + 1 /\ w1 = c1 + 1 + h
          BY <5>1
        <5>3. QED
          BY <5>2, <1>n
      <4>9. QED
        BY <4>6, <4>7, <4>8 DEF Hears
    <3>4. QED
      BY <3>1, <3>2, <3>3
  <2>3. u'.tx_baud_cnt <= B - 1
    BY <1>2, <2>1, <1>n
  <2>4. Sending(b)'
    BY <1>2, <1>3, <2>1, <2>2, <2>3 DEF Sending
  <2>5. QED
    BY <2>4
<1>5. CASE u.tx_baud_cnt = 0
  <2>1. /\ u'.serial_tx = u.tx_shift[1] /\ u'.tx_bit_count = u.tx_bit_count - 1
        /\ \A i \in 1 .. Bits + 1 : u'.tx_shift[i] = u.tx_shift[i + 1]
        /\ u'.tx_baud_cnt = B - 1 /\ u'.tx_busy = (u.tx_bit_count # 1)
    BY <1>2, <1>5, ShiftOut DEF SendStep
  <2>2. hrx.on /\ u.tx_bit_count + Len(hrx.bits) = Bits + 1 /\ hrx.cnt = 1 + Half
    <3>1. c0 = 0 /\ (~hrx.on => c0 = r - 1)
      BY <1>2, <1>5, <1>n
    <3>2. hrx.on
      BY <3>1, <1>n
    <3>3. \/ k0 + l = n + 1 /\ w0 = c0 + 1 + h
          \/ k0 + l = n /\ w0 + r - 1 = c0 + h
      BY <1>2, <3>2, <1>n DEF Hears
    <3>4. k0 + l = n + 1 /\ w0 = 1 + h
      BY <3>1, <3>3, <1>n
    <3>5. QED
      BY <3>2, <3>4, <1>n
  <2>3. hrx'.on /\ hrx'.cnt = Half /\ hrx'.bits = hrx.bits
    <3>1. hrx' = [on |-> TRUE, cnt |-> hrx.cnt - 1, bits |-> hrx.bits]
      <4>1. hrx.cnt # 0
        BY <2>2, <1>n
      <4>2. QED
        BY <2>2, <4>1, HostReceives DEF SendStep
    <3>2. hrx.cnt - 1 = Half
      BY <2>2, <1>n
    <3>3. hrx' = [on |-> TRUE, cnt |-> Half, bits |-> hrx.bits]
      BY <3>1, <3>2, Zenon
    <3>4. QED
      BY <3>3, Zenon
  <2>4. \A i \in 1 .. Len(hrx.bits) : hrx.bits[i] = b[i]
    BY <1>2, <2>2 DEF Hears
  <2>5. CASE u.tx_bit_count = 1
    <3>1. Len(hrx.bits) = Bits /\ ~u'.tx_busy
      <4>1. k0 = 1 /\ k0 + l = n + 1
        BY <2>2, <2>5, <1>n
      <4>2. l = n
        BY <4>1
      <4>3. QED
        BY <2>1, <2>5, <4>2, <1>n
    <3>2. hrx.bits = b
      <4>1. hrx.bits \in Seq(Level)
        BY SendFacts
      <4>2. QED
        BY <2>4, <3>1, <4>1, FrameEqual
    <3>3. u'.serial_tx = 1
      <4>1. Bits + 2 - u.tx_bit_count + 1 = Bits + 2 /\ 1 \in 1 .. u.tx_bit_count
        BY <2>5, <1>n
      <4>2. QED
        BY <1>2, <2>1, <4>1, ShapeIs
    <3>4. Idle'
      BY <1>3, <2>3, <3>1, <3>2, <3>3, <1>n DEF Idle, Ending
    <3>5. QED
      BY <3>4
  <2>6. CASE u.tx_bit_count # 1
    <3>1. PICK k \in 1 .. Bits : k = u'.tx_bit_count /\ u.tx_bit_count = k + 1
      <4>1. k0 \in 1 .. n + 1 /\ k1 = k0 - 1 /\ k0 # 1
        BY <1>2, <2>1, <2>6, <1>n
      <4>2. k1 \in 1 .. n /\ k0 = k1 + 1
        BY <4>1
      <4>3. QED
        BY <4>2, <1>n
    <3>2. u'.tx_busy
      BY <2>1, <2>6
    <3>3. u'.serial_tx = Shape(b)[Bits + 2 - k]
      <4>1. Bits + 2 - u.tx_bit_count + 1 = Bits + 2 - k /\ 1 \in 1 .. u.tx_bit_count
        <5>1. k0 = k + 1 /\ k \in 1 .. n
          BY <3>1, <1>n
        <5>2. n + 2 - k0 + 1 = n + 2 - k /\ 1 \in 1 .. k0
          BY <5>1
        <5>3. QED
          BY <5>2, <1>n
      <4>2. QED
        BY <1>2, <2>1, <4>1
    <3>4. ASSUME NEW i \in 1 .. k PROVE u'.tx_shift[i] = Shape(b)[Bits + 2 - k + i]
      <4>1. /\ i \in 1 .. Bits + 1 /\ i + 1 \in 1 .. u.tx_bit_count
            /\ Bits + 2 - u.tx_bit_count + (i + 1) = Bits + 2 - k + i
        <5>1. k0 = k + 1 /\ k \in 1 .. n
          BY <3>1, <1>n
        <5>2. /\ i \in 1 .. n + 1 /\ i + 1 \in 1 .. k0
              /\ n + 2 - k0 + (i + 1) = n + 2 - k + i
          BY <5>1
        <5>3. QED
          BY <5>2, <1>n
      <4>2. QED
        BY <1>2, <2>1, <4>1
    <3>5. Hears(b)'
      <4>1. k + Len(hrx'.bits) = Bits /\ hrx'.cnt + B - 1 = u'.tx_baud_cnt + Half
        <5>1. k0 = k + 1 /\ k0 + l = n + 1 /\ w1 = h /\ c1 = r - 1
          BY <2>1, <2>2, <2>3, <3>1, <1>n
        <5>2. k + l = n /\ w1 + r - 1 = c1 + h
          BY <5>1, <3>1
        <5>3. QED
          BY <2>3, <5>2, <1>n
      <4>2. QED
        BY <2>3, <2>4, <3>1, <4>1 DEF Hears
    <3>6. u'.tx_bit_count \in 1 .. Bits + 1 /\ u'.tx_baud_cnt <= B - 1
      BY <2>1, <3>1, <1>n
    <3>7. Sending(b)'
      BY <1>3, <2>3, <3>1, <3>2, <3>3, <3>4, <3>5, <3>6 DEF Sending
    <3>8. QED
      BY <3>7
  <2>7. QED
    BY <2>5, <2>6
<1>6. QED
  BY <1>4, <1>5

(* A write of the divisor in the program writes the digit that is there.   *)
LEMMA DivisorStays ==
  ASSUME SameRate, LinkTypes, u.baud_div = B
  PROVE  Divisor(u, op, wdigit) = B /\ BitTime(u) = B - 1
<1>1. BitTime(u) = B - 1
  BY RateFacts DEF BitTime
<1>2. CASE op = "setbaud"
  <2>1. cur.op = "baud" /\ wdigit = cur.d /\ pos \in 1 .. Len(prog) /\ prog \in Programs
    BY <1>2, OpTypes DEF LinkTypes
  <2>2. wdigit = BaudRst \div Radix
    BY <2>1 DEF SameRate, cur
  <2>3. PICK a \in Nat, r \in Nat : a = B /\ a = BaudRst /\ r = Radix /\ r > 0
    BY UartAssumption DEF B
  <2>4. (a \div r) * r + (a % r) = a
    BY <2>3
  <2>5. QED
    BY <1>1, <1>2, <2>2, <2>3, <2>4 DEF Divisor
<1>3. CASE op # "setbaud"
  BY <1>1, <1>3 DEF Divisor
<1>4. QED
  BY <1>2, <1>3

LEMMA PutStep ==
  ASSUME SameRate, LinkTypes, PutWaits, UartTick, Exec \/ Stall \/ Poll \/ Act \/ Restart
  PROVE  PutWaits'
<1>1. u'.baud_div = B
  BY UartTicks, DivisorStays DEF PutWaits
<1>2. TxStep(u, u', op, wbyte) /\ u.tx_busy \in BOOLEAN
  BY UartTicks, UartIs DEF LinkTypes
<1>3. /\ op # "send" /\ ~u.tx_busy => ~u'.tx_busy
      /\ op = "send" /\ ~u.tx_busy => u'.tx_busy
  BY <1>2 DEF TxStep
<1>4. /\ bus = "exec" => op # "send"
      /\ bus # "exec" => op = Asks
      /\ Asks = "send" => polled
  BY DEF op, Asks
<1>5. /\ op' = "send" => bus' # "exec" /\ Asks' = "send"
      /\ Asks' = "send" => polled' /\ cur'.op = "put"
  <2>1. op' = "send" => bus' # "exec" /\ Asks' = "send"
    BY DEF op
  <2>2. Asks' = "send" => polled' /\ cur'.op = "put"
    BY DEF Asks
  <2>3. QED
    BY <2>1, <2>2
<1>6. CASE Exec
  <2>1. /\ bus = "exec" /\ bus' \in {"exec", "stall"} /\ polled' = polled
        /\ Asks' = Asks
    BY <1>6 DEF Exec, Asks, cur
  <2>2. QED
    BY <1>1, <1>3, <1>4, <2>1 DEF PutWaits
<1>7. CASE Stall
  <2>1. bus = "stall" /\ bus' = "ack" /\ polled' = polled /\ Asks' = Asks
    BY <1>7 DEF Stall, Asks, cur
  <2>2. QED
    BY <1>1, <1>3, <1>4, <1>5, <2>1 DEF PutWaits
<1>8. CASE Poll
  <2>1. op = "status" /\ bus' = "exec" /\ polled' = PollOk /\ cur' = cur
    BY <1>8 DEF Poll, cur
  <2>2. polled' /\ Asks' = "send" => ~u.tx_busy
    BY <1>5, <2>1 DEF PollOk
  <2>3. QED
    BY <1>1, <1>3, <1>5, <2>1, <2>2 DEF PutWaits
<1>9. CASE Act \/ Restart
  <2>1. bus' = "exec" /\ polled' = FALSE
    BY <1>9 DEF Act, Restart
  <2>2. QED
    BY <1>1, <1>5, <2>1 DEF PutWaits
<1>10. QED
  BY <1>6, <1>7, <1>8, <1>9

LEMMA SentStep ==
  ASSUME SameRate, LinkTypes, SentInv, SerialNext
  PROVE  SentInv'
<1>1. LinkTypes'
  BY LinkStep
<1>2. CASE Tick \/ CoreReset
  <2>1. /\ UartTick /\ HostReceiver /\ owed' = Owes
        /\ Exec \/ Stall \/ Poll \/ Act \/ Restart
    BY <1>2 DEF Tick, CoreReset, History
  <2>2. PutWaits'
    BY <2>1, PutStep DEF SentInv
  <2>3. SendStep
    BY <1>1, <2>1, UartTicks, DivisorStays DEF SendStep, SentInv, PutWaits
  <2>4. CASE Idle
    BY <2>2, <2>3, <2>4, IdleStep DEF SentInv
  <2>5. ASSUME NEW b \in Frame, Loaded(b) PROVE SentInv'
    BY <2>2, <2>3, <2>5, LoadedStep DEF SentInv
  <2>6. ASSUME NEW b \in Frame, Sending(b) PROVE SentInv'
    BY <2>2, <2>3, <2>6, SendingStep DEF SentInv
  <2>7. QED
    BY <2>4, <2>5, <2>6 DEF SentInv
<1>3. CASE Rst
  <2>1. u' = UartReset /\ Restart /\ hrx' = Listening /\ owed' = <<>>
    BY <1>3 DEF Rst
  <2>2. bus' = "exec" /\ polled' = FALSE /\ op' # "send"
    BY <2>1 DEF Restart, op
  <2>3. PutWaits'
    BY <2>1, <2>2, ResetType DEF PutWaits
  <2>4. Idle'
    BY <2>1, ResetType DEF Idle, Listening
  <2>5. QED
    BY <2>3, <2>4 DEF SentInv
<1>4. QED
  BY <1>2, <1>3 DEF SerialNext

LEMMA SentInit == ASSUME SerialInit PROVE SentInv
<1>1. /\ u = UartReset /\ polled = FALSE /\ bus = "exec" /\ hrx = Listening /\ owed = <<>>
  BY DEF SerialInit
<1>2. op # "send"
  BY <1>1 DEF op
<1>3. QED
  BY <1>1, <1>2, ResetType DEF SentInv, PutWaits, Idle, Listening

LEMMA SentStutter == ASSUME SentInv, UNCHANGED vars PROVE SentInv'
<1>1. u' = u /\ prog' = prog /\ pos' = pos /\ polled' = polled /\ bus' = bus
      /\ hrx' = hrx /\ owed' = owed
  BY DEF vars, firmware, wires, history
<1>2. PutWaits'
  BY <1>1 DEF SentInv, PutWaits, Asks, op, cur
<1>3. Idle => Idle'
  BY <1>1 DEF Idle, Ending
<1>4. \A b \in Frame : (Loaded(b) => Loaded(b)') /\ (Sending(b) => Sending(b)')
  BY <1>1 DEF Loaded, Sending, Ending, Hears
<1>5. QED
  BY <1>2, <1>3, <1>4 DEF SentInv

(* Every byte that a put stores reaches the host once, in order and whole, *)
(* at any rate and length of a byte: the bytes that the host receives are  *)
(* the head of the queue of those stored, in the middle of their stop bit. *)
THEOREM BytesArrive == ASSUME SameRate PROVE SerialSpec => SentInOrder
<1>. DEFINE Inv == LinkTypes /\ SentInv
<1>1. SerialInit => Inv
  BY LinkInit, SentInit
<1>2. Inv /\ [SerialNext]_vars => Inv'
  BY LinkStep, LinkStutter, SentStep, SentStutter
<1>3. ASSUME Inv, Gets
      PROVE  u.serial_tx = 1 /\ owed # <<>> /\ hrx.bits = Head(owed)
  <2>1. hrx.on /\ hrx.cnt = 0 /\ Ending
    BY <1>3 DEF Gets, Ending
  <2>2. ASSUME NEW b \in Frame PROVE ~Sending(b)
    <3>1. SUFFICES ASSUME Sending(b) PROVE FALSE
      OBVIOUS
    <3>2. /\ u.tx_bit_count \in Nat /\ u.tx_bit_count >= 1 /\ u.tx_baud_cnt \in Nat
          /\ B \in Nat /\ Half \in Nat /\ Bits \in Nat
      <4>1. u \in Uart /\ u.tx_bit_count \in 1 .. Bits + 1
        BY <1>3, <3>1 DEF LinkTypes, Sending
      <4>2. Bits \in Nat /\ B \in Nat /\ Half \in Nat
        BY RateFacts
      <4>3. u.tx_baud_cnt \in Nat
        BY <4>1, UartIs, CountIs
      <4>4. QED
        BY <4>1, <4>2, <4>3
    <3>3. /\ u.tx_baud_cnt <= B - 1
          /\ \/ u.tx_bit_count + Len(hrx.bits) = Bits + 1 /\ hrx.cnt = u.tx_baud_cnt + 1 + Half
             \/ u.tx_bit_count + Len(hrx.bits) = Bits /\ hrx.cnt + B - 1 = u.tx_baud_cnt + Half
      BY <2>1, <3>1 DEF Sending, Hears
    <3>4. PICK k \in Nat, c \in Nat, n \in Nat, h \in Nat :
             k = u.tx_bit_count /\ c = u.tx_baud_cnt /\ n = Bits /\ h = Half
      BY <3>2
    <3>5. k >= 1 /\ ((k + n = n + 1 /\ 0 = c + 1 + h) \/ k + n = n)
      BY <2>1, <3>2, <3>3, <3>4 DEF Ending
    <3>6. QED
      BY <3>5
  <2>3. u.serial_tx = 1 /\ (owed = <<hrx.bits>> \/ \E b \in Frame : owed = <<hrx.bits, b>>)
    BY <1>3, <2>1, <2>2 DEF SentInv, Idle, Loaded
  <2>4. QED
    BY <2>3, ShortQueues
<1>4. Inv /\ [SerialNext]_vars =>
        [Gets /\ hrx' = Listening /\ ~Rst =>
           u.serial_tx = 1 /\ owed # <<>> /\ hrx.bits = Head(owed)]_vars
  BY <1>3
<1>5. QED
  BY <1>1, <1>2, <1>4, PTL DEF SerialSpec, SentInOrder

-----------------------------------------------------------------------------
(* From the host to the UART.                                              *)

(* The levels of b around its frame, from three cycles before it.          *)
At(b, x) == IF 3 <= x /\ x <= Length + 2 THEN Levels(b)[x - 2] ELSE 1

(* p cycles of b are over.  The synchroniser meets an edge of the line a   *)
(* cycle sooner or later.                                                  *)
Seen(b, p) ==
  /\ Len(out) = Length - p
  /\ \A x \in 1 .. Length - p : out[x] = Levels(b)[p + x]
  /\ pin = At(b, p + 2)
  /\ u.rx_sync[1] \in {At(b, p + 1), At(b, p + 2)}
  /\ u.rx_sync[2] \in {At(b, p), At(b, p + 1)}

(* The start bit has not been seen.                                        *)
Before(b, p) == ~u.rx_busy /\ p <= 3 /\ coming = <<b>>

(* The next sample is in the middle of its bit; what has been sampled is   *)
(* the first bits of b.                                                    *)
During(b, p) ==
  /\ u.rx_busy /\ coming = <<b>>
  /\ \/ p + u.rx_baud_cnt = (Bits - u.rx_bit_count + 1) * B + Half + 2
     \/ p + u.rx_baud_cnt = (Bits - u.rx_bit_count + 1) * B + Half + 3
  /\ \A j \in 1 .. Bits - u.rx_bit_count : u.rx_shift[u.rx_bit_count + j] = b[j]

(* The byte is committed and its stop bit is on the line.                  *)
After(b, p) == ~u.rx_busy /\ p >= (Bits + 1) * B + Half + 3 /\ coming = <<>>

(* The byte before is committed as the start bit of b goes on the line.    *)
Overlap(b, p) ==
  /\ u.rx_busy /\ u.rx_bit_count = 0 /\ u.rx_baud_cnt = 0 /\ p = 0
  /\ coming = <<u.rx_shift, b>>

(* Where the receiver is in b.                                             *)
Follows(b, p) == Before(b, p) \/ During(b, p) \/ After(b, p) \/ Overlap(b, p)

(* Where it is when the line is idle.                                      *)
Rests ==
  \/ ~u.rx_busy /\ coming = <<>>
  \/ u.rx_busy /\ u.rx_bit_count = 0 /\ u.rx_baud_cnt <= 1 /\ coming = <<u.rx_shift>>

(* The line is idle; the receiver may still be in the stop bit.            *)
Settled == out = <<>> /\ pin = 1 /\ u.rx_sync[1] = 1 /\ u.rx_sync[2] = 1 /\ Rests

(* Inductive with LinkTypes and PutWaits.                                  *)
HeardInv ==
  /\ IF out = <<>> THEN pin = 1 ELSE out[Len(out)] = 1
  /\ IF stray THEN coming = <<>>
     ELSE Settled \/ \E b \in Frame, p \in 0 .. Length - 1 : Seen(b, p) /\ Follows(b, p)

LEMMA AtIs ==
  ASSUME SameRate, NEW b \in Frame
  PROVE  /\ \A x \in 0 .. 2 : At(b, x) = 1
         /\ \A x \in 3 .. B + 2 : At(b, x) = 0
         /\ \A i \in 1 .. Bits : \A x \in i * B + 3 .. i * B + B + 2 : At(b, x) = b[i]
         /\ \A x \in (Bits + 1) * B + 3 .. Length + 3 : At(b, x) = 1
         /\ \A x \in 0 .. Length - 1 : At(b, x + 3) = Levels(b)[x + 1]
<1>1. /\ B \in Nat /\ B >= 3 /\ Bits \in Nat /\ Length \in Nat
      /\ (Bits + 1) * B \in Nat /\ Length = (Bits + 1) * B + B
      /\ Length = Bits * B + 2 * B
      /\ \A i \in 1 .. Bits : i * B \in Nat /\ i * B <= Bits * B
  <2>1. \A i \in 1 .. Bits : i \in 0 .. Bits
    BY RateFacts
  <2>2. QED
    BY <2>1, RateFacts, LengthIs
<1>2. PICK r \in Nat, l \in Nat, s \in Nat, t \in Nat :
        /\ r = B /\ l = Length /\ s = (Bits + 1) * B /\ t = Bits * B
        /\ r >= 3 /\ l = s + r /\ l = t + 2 * r
  <2>1. Bits * B \in Nat
    BY LengthIs
  <2>2. QED
    BY <1>1, <2>1
<1>3. ASSUME NEW x \in 0 .. l - 1 PROVE At(b, x + 3) = Levels(b)[x + 1]
  <2>1. x + 3 >= 3 /\ x + 3 <= l + 2 /\ x + 3 - 2 = x + 1
    BY <1>2
  <2>2. QED
    BY <1>2, <2>1 DEF At
<1>4. ASSUME NEW x \in 0 .. 2 PROVE At(b, x) = 1
  BY DEF At
<1>5. ASSUME NEW x \in 3 .. r + 2 PROVE At(b, x) = 0
  <2>1. PICK y \in Nat : x = y + 3
    <3>1. x - 3 \in Nat /\ x = (x - 3) + 3
      BY <1>2
    <3>2. QED
      BY <3>1
  <2>2. y \in 0 .. l - 1 /\ y \in 0 .. r - 1
    BY <1>2, <2>1
  <2>3. Levels(b)[y + 1] = 0
    BY <1>2, <2>2, LevelsAre
  <2>4. QED
    BY <1>3, <2>1, <2>2, <2>3
<1>6. ASSUME NEW i \in 1 .. Bits, NEW x \in i * B + 3 .. i * B + B + 2
      PROVE  At(b, x) = b[i]
  <2>1. PICK m \in Nat : m = i * B /\ m <= t
    BY <1>1, <1>2
  <2>2. x \in m + 3 .. m + r + 2
    BY <1>2, <2>1
  <2>3. PICK y \in Nat : x = y + 3
    <3>1. x - 3 \in Nat /\ x = (x - 3) + 3
      BY <1>2, <2>2
    <3>2. QED
      BY <3>1
  <2>4. y \in 0 .. l - 1 /\ y \in m .. m + r - 1
    BY <1>2, <2>1, <2>2, <2>3
  <2>5. Levels(b)[y + 1] = b[i]
    BY <1>2, <2>1, <2>4, LevelsAre
  <2>6. QED
    BY <1>3, <2>3, <2>4, <2>5
<1>7. ASSUME NEW x \in s + 3 .. l + 3 PROVE At(b, x) = 1
  <2>1. PICK y \in Nat : x = y + 3
    <3>1. x - 3 \in Nat /\ x = (x - 3) + 3
      BY <1>2
    <3>2. QED
      BY <3>1
  <2>2. y \in s .. l
    BY <1>2, <2>1
  <2>3. CASE y = l
    <3>1. ~(x <= l + 2)
      BY <2>1, <2>3
    <3>2. QED
      BY <1>2, <3>1 DEF At
  <2>4. CASE y # l
    <3>1. y \in 0 .. l - 1 /\ y \in s .. l - 1
      BY <1>2, <2>2, <2>4
    <3>2. Levels(b)[y + 1] = 1
      BY <1>2, <3>1, LevelsAre
    <3>3. QED
      BY <1>3, <2>1, <3>1, <3>2
  <2>5. QED
    BY <2>3, <2>4
<1>8. QED
  BY <1>2, <1>3, <1>4, <1>5, <1>6, <1>7

(* What a step of the link is to the receiver, resets apart.               *)
HearStep ==
  /\ SameRate /\ LinkTypes /\ LinkTypes' /\ u.baud_div = B
  /\ UartTick /\ Host

(* The wires when the line is idle: it stays, or a byte is sent.           *)
LEMMA SettledWires ==
  ASSUME HearStep, out = <<>>, pin = 1, u.rx_sync[1] = 1
  PROVE  \/ /\ left' = left /\ out' = <<>> /\ pin' = 1
            /\ u'.rx_sync[1] = 1 /\ u'.rx_sync[2] = 1
         \/ /\ left' # left /\ out' # <<>> /\ u'.rx_sync[2] = 1
            /\ \E b \in Frame : b = Head(left) /\ Seen(b, 0)'
<1>1. line = 1 /\ pin' = 1 /\ u'.rx_sync[1] = 1 /\ u'.rx_sync[2] = 1
  BY LineType, UartTicks, HostTransmits DEF HearStep
<1>2. CASE left' = left
  BY <1>1, <1>2, HostTransmits DEF HearStep
<1>3. CASE left' # left
  <2>1. Head(left) \in Frame /\ out' = Levels(Head(left))
    BY <1>3, HostTransmits DEF HearStep
  <2>2. PICK b \in Frame : b = Head(left)
    BY <2>1
  <2>3. out' = Levels(b) /\ Len(Levels(b)) = Length /\ Length \in Nat /\ Length >= 1
    BY <2>1, <2>2, LevelsAre, LengthIs DEF HearStep
  <2>4. out' # <<>>
    BY <2>3, EmptySeq
  <2>5. At(b, 0) = 1 /\ At(b, 1) = 1 /\ At(b, 2) = 1
    BY AtIs DEF HearStep
  <2>6. /\ Length - 0 = Length /\ 0 + 2 = 2 /\ 0 + 1 = 1
        /\ \A x \in 1 .. Length : 0 + x = x
    BY <2>3
  <2>7. Seen(b, 0)'
    <3>1. Len(out') = Length - 0 /\ \A x \in 1 .. Length - 0 : out'[x] = Levels(b)[0 + x]
      BY <2>3, <2>6
    <3>2. /\ pin' = At(b, 0 + 2) /\ u'.rx_sync[1] \in {At(b, 0 + 1), At(b, 0 + 2)}
          /\ u'.rx_sync[2] \in {At(b, 0), At(b, 0 + 1)}
      BY <1>1, <2>5, <2>6
    <3>3. QED
      BY <3>1, <3>2 DEF Seen
  <2>8. QED
    BY <1>1, <1>3, <2>2, <2>4, <2>7
<1>4. QED
  BY <1>2, <1>3

(* The wires in a byte: a cycle more of it, or the line is idle again.     *)
LEMMA SeenWires ==
  ASSUME HearStep, NEW b \in Frame, NEW p \in 0 .. Length - 1, Seen(b, p)
  PROVE  /\ left' = left
         /\ u'.rx_sync[1] \in {At(b, p + 2), At(b, p + 3)}
         /\ u'.rx_sync[2] \in {At(b, p + 1), At(b, p + 2)}
         /\ p + 1 < Length => Seen(b, p + 1)'
         /\ p + 1 = Length =>
              /\ out' = <<>> /\ pin' = 1 /\ u'.rx_sync[1] = 1 /\ u'.rx_sync[2] = 1
<1>1. SameRate /\ LinkTypes /\ LinkTypes' /\ UartTick /\ Host
  BY DEF HearStep
<1>2. PICK l \in Nat : l = Length
  BY <1>1, LengthIs
<1>3. /\ Len(out) = l - p
      /\ \A x \in 1 .. l - p : out[x] = Levels(b)[p + x]
      /\ pin = At(b, p + 2)
      /\ u.rx_sync[1] \in {At(b, p + 1), At(b, p + 2)}
  BY <1>2 DEF Seen
<1>4. p \in 0 .. l - 1 /\ l - p >= 1 /\ 1 \in 1 .. l - p
  BY <1>2
<1>5. out # <<>>
  BY <1>3, <1>4, EmptySeq
<1>6. line = At(b, p + 3)
  <2>1. line = Levels(b)[p + 1]
    BY <1>1, <1>3, <1>4, <1>5, LineType
  <2>2. QED
    BY <1>1, <1>2, <1>4, <2>1, AtIs
<1>7. left' = left /\ out' = Tail(out) /\ pin' = line
  BY <1>1, <1>5, HostTransmits
<1>8. /\ u'.rx_sync[1] \in {At(b, p + 2), At(b, p + 3)}
      /\ u'.rx_sync[2] \in {At(b, p + 1), At(b, p + 2)}
  BY <1>1, <1>3, <1>6, UartTicks
<1>9. /\ Len(out') = l - (p + 1)
      /\ \A x \in 1 .. l - (p + 1) : out'[x] = Levels(b)[(p + 1) + x]
  <2>1. /\ Len(Tail(out)) = Len(out) - 1
        /\ \A x \in 1 .. Len(out) - 1 : Tail(out)[x] = out[x + 1]
    BY <1>1, <1>5, LineType
  <2>2. Len(out) - 1 = l - (p + 1)
    BY <1>3, <1>4
  <2>3. ASSUME NEW x \in 1 .. l - (p + 1) PROVE out'[x] = Levels(b)[(p + 1) + x]
    <3>1. x + 1 \in 1 .. l - p /\ p + (x + 1) = (p + 1) + x
      BY <1>4
    <3>2. out'[x] = out[x + 1]
      BY <1>7, <2>1, <2>2
    <3>3. QED
      BY <1>3, <3>1, <3>2
  <2>4. QED
    BY <1>7, <2>1, <2>2, <2>3
<1>10. p + 1 < l => Seen(b, p + 1)'
  <2>1. (p + 1) + 2 = p + 3 /\ (p + 1) + 1 = p + 2
    BY <1>4
  <2>2. QED
    BY <1>2, <1>6, <1>7, <1>8, <1>9, <2>1 DEF Seen
<1>11. ASSUME p + 1 = l
       PROVE  out' = <<>> /\ pin' = 1 /\ u'.rx_sync[1] = 1 /\ u'.rx_sync[2] = 1
  <2>1. out' \in Seq(Level) /\ Len(out') = 0
    BY <1>1, <1>4, <1>9, <1>11 DEF LinkTypes
  <2>2. out' = <<>>
    BY <2>1, EmptySeq
  <2>3. At(b, p + 1) = 1 /\ At(b, p + 2) = 1 /\ At(b, p + 3) = 1
    <3>1. PICK s \in Nat, r \in Nat : s = (Bits + 1) * B /\ r = B /\ l = s + r /\ r >= 3
      BY <1>1, <1>2, LengthIs, RateFacts
    <3>2. p + 1 \in s + 3 .. l + 3 /\ p + 2 \in s + 3 .. l + 3 /\ p + 3 \in s + 3 .. l + 3
      <4>1. PICK y \in Nat : y = p
        BY <1>4
      <4>2. y + 1 = s + r /\ l = s + r /\ r >= 3
        BY <1>11, <3>1, <4>1
      <4>3. y + 1 \in s + 3 .. l + 3 /\ y + 2 \in s + 3 .. l + 3 /\ y + 3 \in s + 3 .. l + 3
        BY <4>2
      <4>4. QED
        BY <4>1, <4>3
    <3>3. \A x \in s + 3 .. l + 3 : At(b, x) = 1
      BY <1>1, <1>2, <3>1, AtIs
    <3>4. QED
      BY <3>2, <3>3
  <2>4. QED
    BY <1>6, <1>7, <1>8, <2>2, <2>3
<1>12. QED
  BY <1>2, <1>7, <1>8, <1>10, <1>11

(* The queue of the bytes under way, after a commit.                       *)
Popped == IF Commits /\ coming # <<>> THEN Tail(coming) ELSE coming

LEMMA HearFacts ==
  ASSUME HearStep
  PROVE  /\ SameRate /\ LinkTypes /\ RxStep(u, u') /\ u \in Uart /\ u' \in Uart
         /\ BitTime(u) = B - 1 /\ FirstSample(u) = B + Half - 1
         /\ u.rx_busy \in BOOLEAN /\ u.rx_bit_count \in 0 .. Bits /\ u.rx_baud_cnt \in Nat
         /\ u.rx_shift \in Frame /\ u.rx_sync[2] \in Level
         /\ u'.rx_bit_count \in 0 .. Bits /\ u'.rx_baud_cnt \in Nat /\ u'.rx_shift \in Frame
<1>1. SameRate /\ LinkTypes /\ LinkTypes' /\ UartTick /\ u.baud_div = B
  BY DEF HearStep
<1>2. u \in Uart /\ u' \in Uart
  BY <1>1 DEF LinkTypes
<1>3. RxStep(u, u')
  BY <1>1, UartTicks
<1>4. BitTime(u) = B - 1 /\ FirstSample(u) = B + Half - 1
  BY <1>1, RateFacts DEF BitTime, FirstSample, Half, B
<1>5. /\ u.rx_baud_cnt \in Count /\ u'.rx_baud_cnt \in Count /\ Count \subseteq Nat
  BY <1>2, UartIs, CountIs
<1>6. /\ u.rx_busy \in BOOLEAN /\ u.rx_bit_count \in 0 .. Bits
      /\ u.rx_shift \in Frame /\ u.rx_sync[2] \in Level
      /\ u'.rx_bit_count \in 0 .. Bits /\ u'.rx_shift \in Frame
  BY <1>2, UartIs
<1>7. QED
  BY <1>1, <1>2, <1>3, <1>4, <1>5, <1>6

(* The numbers of the link.                                                *)
LEMMA HearNumbers ==
  ASSUME SameRate
  PROVE  \E n, r, h, t, l \in Nat :
           /\ n = Bits /\ r = B /\ h = Half /\ t = Bits * B /\ l = Length
           /\ n >= 1 /\ r >= 3 /\ h >= 1 /\ 2 * h <= r /\ r <= 2 * h + 1
           /\ l = t + 2 * r /\ (Bits + 1) * B = t + r
<1>1. /\ Bits \in Nat /\ Bits >= 1 /\ B \in Nat /\ B >= 3 /\ Half \in Nat /\ Half >= 1
      /\ 2 * Half <= B /\ B <= 2 * Half + 1
  BY RateFacts
<1>2. /\ Bits * B \in Nat /\ Length \in Nat /\ Length = Bits * B + 2 * B
      /\ Length = (Bits + 1) * B + B /\ (Bits + 1) * B \in Nat
  BY LengthIs
<1>3. PICK t \in Nat, s \in Nat, l \in Nat, r \in Nat :
        t = Bits * B /\ s = (Bits + 1) * B /\ l = Length /\ r = B
  BY <1>1, <1>2
<1>4. l = t + 2 * r /\ l = s + r
  BY <1>2, <1>3
<1>5. s = t + r
  BY <1>4
<1>6. QED
  BY <1>1, <1>3, <1>4, <1>5

LEMMA BeforeStep ==
  ASSUME HearStep, NEW b \in Frame, NEW p \in 0 .. Length - 1, Seen(b, p), Before(b, p),
         coming' = Popped
  PROVE  p + 1 < Length /\ Follows(b, p + 1)'
<1>1. SameRate /\ RxStep(u, u') /\ FirstSample(u) = B + Half - 1
  BY HearFacts
<1>2. PICK n \in Nat, r \in Nat, h \in Nat, t \in Nat, l \in Nat :
        /\ n = Bits /\ r = B /\ h = Half /\ t = Bits * B /\ l = Length
        /\ n >= 1 /\ r >= 3 /\ h >= 1 /\ l = t + 2 * r /\ (Bits + 1) * B = t + r
  BY <1>1, HearNumbers
<1>3. PICK y \in Nat : y = p /\ y <= 3
  BY DEF Before
<1>4. ~u.rx_busy /\ coming = <<b>> /\ coming' = <<b>>
  BY DEF Before, Popped, Commits
<1>5. /\ u.rx_sync[2] \in {At(b, y), At(b, y + 1)}
      /\ \A x \in 0 .. 2 : At(b, x) = 1
      /\ \A x \in 3 .. r + 2 : At(b, x) = 0
  BY <1>1, <1>2, <1>3, AtIs DEF Seen
<1>6. y + 1 < l
  BY <1>2, <1>3
<1>7. CASE u.rx_sync[2] = 1
  <2>1. ~u'.rx_busy
    BY <1>1, <1>4, <1>7 DEF RxStep
  <2>2. y # 3
    <3>1. SUFFICES ASSUME y = 3 PROVE FALSE
      OBVIOUS
    <3>2. y \in 3 .. r + 2 /\ y + 1 \in 3 .. r + 2
      BY <1>2, <3>1
    <3>3. QED
      BY <1>5, <1>7, <3>2
  <2>3. y + 1 <= 3
    BY <1>3, <2>2
  <2>4. Before(b, p + 1)'
    BY <1>3, <1>4, <2>1, <2>3 DEF Before
  <2>5. QED
    BY <1>2, <1>3, <1>6, <2>4 DEF Follows
<1>8. CASE u.rx_sync[2] # 1
  <2>1. /\ u'.rx_busy = TRUE /\ u'.rx_bit_count = Bits /\ u'.rx_baud_cnt = B + Half - 1
    BY <1>1, <1>4, <1>8 DEF RxStep
  <2>2. y \in {2, 3}
    <3>1. y \in 0 .. 1 => y \in 0 .. 2 /\ y + 1 \in 0 .. 2
      OBVIOUS
    <3>2. y \notin 0 .. 1
      BY <1>5, <1>8, <3>1
    <3>3. QED
      BY <1>3, <3>2
  <2>3. PICK c \in Nat : c = u'.rx_baud_cnt /\ c = r + h - 1
    BY <1>2, <2>1, HearFacts
  <2>4. (y + 1) + c = 1 * r + h + 2 \/ (y + 1) + c = 1 * r + h + 3
    BY <1>2, <2>2, <2>3
  <2>5. Bits - u'.rx_bit_count + 1 = 1 /\ Bits - u'.rx_bit_count = 0
    BY <1>2, <2>1
  <2>6. \/ p + 1 + u'.rx_baud_cnt = (Bits - u'.rx_bit_count + 1) * B + Half + 2
        \/ p + 1 + u'.rx_baud_cnt = (Bits - u'.rx_bit_count + 1) * B + Half + 3
    BY <1>2, <1>3, <2>3, <2>4, <2>5
  <2>7. \A j \in 1 .. 0 : u'.rx_shift[u'.rx_bit_count + j] = b[j]
    OBVIOUS
  <2>8. During(b, p + 1)'
    BY <1>4, <2>1, <2>5, <2>6, <2>7 DEF During
  <2>9. QED
    BY <1>2, <1>3, <1>6, <2>8 DEF Follows
<1>9. QED
  BY <1>7, <1>8

LEMMA AfterStep ==
  ASSUME HearStep, NEW b \in Frame, NEW p \in 0 .. Length - 1, Seen(b, p), After(b, p),
         coming' = Popped
  PROVE  After(b, p + 1)' /\ Rests'
<1>1. SameRate /\ RxStep(u, u')
  BY HearFacts
<1>2. PICK n \in Nat, r \in Nat, h \in Nat, t \in Nat, l \in Nat :
        /\ n = Bits /\ r = B /\ h = Half /\ t = Bits * B /\ l = Length
        /\ n >= 1 /\ r >= 3 /\ h >= 1 /\ l = t + 2 * r /\ (Bits + 1) * B = t + r
  BY <1>1, HearNumbers
<1>3. PICK y \in Nat : y = p /\ y >= t + r + h + 3 /\ y <= l
  <2>1. p >= t + r + h + 3 /\ p \in 0 .. l - 1
    BY <1>2 DEF After
  <2>2. QED
    BY <2>1
<1>4. ~u.rx_busy /\ coming = <<>> /\ coming' = <<>>
  BY DEF After, Popped
<1>5. /\ u.rx_sync[2] \in {At(b, y), At(b, y + 1)}
      /\ \A x \in t + r + 3 .. l + 3 : At(b, x) = 1
  BY <1>1, <1>2, <1>3, AtIs DEF Seen
<1>6. y \in t + r + 3 .. l + 3 /\ y + 1 \in t + r + 3 .. l + 3
  BY <1>2, <1>3
<1>7. u.rx_sync[2] = 1
  BY <1>5, <1>6
<1>8. ~u'.rx_busy
  BY <1>1, <1>4, <1>7 DEF RxStep
<1>9. y + 1 >= t + r + h + 3
  BY <1>3
<1>10. After(b, p + 1)'
  BY <1>2, <1>3, <1>4, <1>8, <1>9 DEF After
<1>11. QED
  BY <1>4, <1>8, <1>10 DEF Rests

LEMMA OverlapStep ==
  ASSUME HearStep, NEW b \in Frame, NEW p \in 0 .. Length - 1, Overlap(b, p),
         coming' = Popped
  PROVE  p + 1 < Length /\ Follows(b, p + 1)'
<1>1. SameRate /\ RxStep(u, u')
  BY HearFacts
<1>2. /\ u.rx_busy /\ u.rx_bit_count = 0 /\ u.rx_baud_cnt = 0 /\ p = 0
      /\ coming = <<u.rx_shift, b>>
  BY DEF Overlap
<1>3. ~u'.rx_busy
  BY <1>1, <1>2 DEF RxStep
<1>4. coming' = <<b>>
  BY <1>2, ShortQueues DEF Popped, Commits
<1>5. PICK l \in Nat, t \in Nat, r \in Nat : l = Length /\ l = t + 2 * r /\ r >= 3
  BY <1>1, HearNumbers
<1>6. p + 1 < Length
  BY <1>2, <1>5
<1>7. Before(b, p + 1)'
  BY <1>2, <1>3, <1>4 DEF Before
<1>8. QED
  BY <1>6, <1>7 DEF Follows

LEMMA DuringStep ==
  ASSUME HearStep, NEW b \in Frame, NEW p \in 0 .. Length - 1, Seen(b, p), During(b, p),
         coming' = Popped
  PROVE  IF p + 1 < Length THEN Follows(b, p + 1)' ELSE Rests'
<1>1. /\ SameRate /\ RxStep(u, u') /\ BitTime(u) = B - 1 /\ u.rx_baud_cnt \in Nat
      /\ u'.rx_baud_cnt \in Nat /\ u.rx_shift \in Frame /\ u.rx_bit_count \in 0 .. Bits
      /\ u'.rx_bit_count \in 0 .. Bits
  BY HearFacts
<1>2. PICK n \in Nat, r \in Nat, h \in Nat, t \in Nat, l \in Nat :
        /\ n = Bits /\ r = B /\ h = Half /\ t = Bits * B /\ l = Length
        /\ n >= 1 /\ r >= 3 /\ h >= 1 /\ 2 * h <= r /\ r <= 2 * h + 1
        /\ l = t + 2 * r /\ (Bits + 1) * B = t + r
  BY <1>1, HearNumbers
<1>3. PICK y \in Nat : y = p /\ y + 1 <= l
  <2>1. p \in 0 .. l - 1
    BY <1>2
  <2>2. QED
    BY <2>1
<1>4. PICK k \in 0 .. n, c \in Nat : k = u.rx_bit_count /\ c = u.rx_baud_cnt
  BY <1>1, <1>2
<1>5. PICK i \in 0 .. n : i = n - k /\ k = n - i
  <2>1. n - k \in 0 .. n /\ k = n - (n - k)
    OBVIOUS
  <2>2. QED
    BY <2>1
<1>6. PICK m \in Nat : /\ m = (i + 1) * B /\ m <= t + r /\ (k = 0 => m = t + r)
                       /\ k # 0 => m <= t /\ (i + 2) * B = m + r
  <2>1. i \in 0 .. Bits
    BY <1>2
  <2>2. i * B \in Nat /\ (i + 1) * B = i * B + B /\ (i + 2) * B = i * B + 2 * B /\ i * B <= t
    BY <1>1, <1>2, <2>1, LengthIs
  <2>3. PICK a \in Nat : a = i * B
    BY <2>2
  <2>4. (i + 1) * B = a + r /\ (i + 2) * B = a + 2 * r /\ a <= t
    BY <1>2, <2>2, <2>3
  <2>5. k = 0 => a + r = t + r
    <3>1. k = 0 => i = n
      BY <1>5
    <3>2. QED
      BY <1>2, <2>3, <3>1
  <2>6. k # 0 => a + r <= t
    <3>1. SUFFICES ASSUME k # 0 PROVE a + r <= t
      OBVIOUS
    <3>2. i + 1 \in 0 .. Bits
      BY <1>2, <1>5, <3>1
    <3>3. (i + 1) * B <= Bits * B
      BY <1>1, <3>2, LengthIs
    <3>4. QED
      BY <1>2, <2>4, <3>3
  <2>7. a + r \in Nat /\ a + r <= t + r /\ a + 2 * r = (a + r) + r
    BY <2>4
  <2>8. QED
    BY <2>4, <2>5, <2>6, <2>7
<1>7. /\ u.rx_busy /\ coming = <<b>>
      /\ \A j \in 1 .. i : u.rx_shift[k + j] = b[j]
      /\ y + c = m + h + 2 \/ y + c = m + h + 3
  <2>1. Bits - u.rx_bit_count = i
    BY <1>2, <1>4, <1>5
  <2>2. QED
    BY <1>2, <1>3, <1>4, <1>6, <2>1 DEF During
<1>8. CASE c # 0
  <2>1. u'.rx_busy = u.rx_busy /\ u'.rx_bit_count = k /\ u'.rx_baud_cnt = c - 1
        /\ u'.rx_shift = u.rx_shift
    BY <1>1, <1>4, <1>7, <1>8 DEF RxStep
  <2>2. coming' = <<b>>
    BY <1>4, <1>7, <1>8 DEF Popped, Commits
  <2>3. CASE y + 1 < l
    <3>1. Bits - u'.rx_bit_count = i
      BY <1>2, <1>5, <2>1
    <3>2. (y + 1) + (c - 1) = m + h + 2 \/ (y + 1) + (c - 1) = m + h + 3
      BY <1>7, <1>8
    <3>3. \/ p + 1 + u'.rx_baud_cnt = (Bits - u'.rx_bit_count + 1) * B + Half + 2
          \/ p + 1 + u'.rx_baud_cnt = (Bits - u'.rx_bit_count + 1) * B + Half + 3
      BY <1>2, <1>3, <1>6, <2>1, <3>1, <3>2
    <3>4. \A j \in 1 .. Bits - u'.rx_bit_count : u'.rx_shift[u'.rx_bit_count + j] = b[j]
      BY <1>7, <2>1, <3>1
    <3>5. During(b, p + 1)'
      BY <1>7, <2>1, <2>2, <3>3, <3>4 DEF During
    <3>6. QED
      BY <1>2, <1>3, <2>3, <3>5 DEF Follows
  <2>4. CASE ~(y + 1 < l)
    <3>1. y + 1 = t + 2 * r
      BY <1>2, <1>3, <2>4
    <3>2. k = 0
      <4>1. SUFFICES ASSUME k # 0 PROVE FALSE
        OBVIOUS
      <4>2. m <= t
        BY <1>6, <4>1
      <4>3. QED
        BY <1>2, <1>7, <3>1, <4>2
    <3>3. c - 1 <= 1
      BY <1>2, <1>6, <1>7, <3>1, <3>2
    <3>4. u'.rx_shift = b
      <4>1. i = n
        BY <1>5, <3>2
      <4>2. \A j \in 1 .. Bits : k + j = j /\ u.rx_shift[j] = b[j]
        <5>1. \A j \in 1 .. n : k + j = j
          BY <3>2
        <5>2. QED
          BY <1>2, <1>7, <4>1, <5>1
      <4>3. u.rx_shift \in Seq(Level) /\ Len(u.rx_shift) = Bits
        BY <1>1, FrameIs
      <4>4. QED
        BY <2>1, <4>2, <4>3, FrameEqual
    <3>5. Rests'
      BY <1>7, <2>1, <2>2, <3>2, <3>3, <3>4 DEF Rests
    <3>6. QED
      BY <1>2, <1>3, <2>4, <3>5
  <2>5. QED
    BY <2>3, <2>4
<1>9. CASE c = 0 /\ k # 0
  <2>1. /\ u'.rx_busy = u.rx_busy /\ u'.rx_bit_count = k - 1 /\ u'.rx_baud_cnt = r - 1
        /\ u'.rx_shift = ShiftIn(u.rx_shift, u.rx_sync[2])
    BY <1>1, <1>2, <1>4, <1>7, <1>9 DEF RxStep
  <2>2. coming' = <<b>>
    BY <1>4, <1>7, <1>9 DEF Popped, Commits
  <2>3. m <= t /\ (i + 2) * B = m + r /\ (y = m + h + 2 \/ y = m + h + 3)
    BY <1>6, <1>7, <1>9
  <2>4. y + 1 < l
    BY <1>2, <2>3
  <2>5. u.rx_sync[2] = b[i + 1]
    <3>1. i + 1 \in 1 .. Bits
      BY <1>2, <1>5, <1>9
    <3>2. \A x \in m + 3 .. m + r + 2 : At(b, x) = b[i + 1]
      BY <1>1, <1>2, <1>6, <3>1, AtIs
    <3>3. y \in m + 3 .. m + r + 2 /\ y + 1 \in m + 3 .. m + r + 2
      BY <1>2, <2>3
    <3>4. u.rx_sync[2] \in {At(b, y), At(b, y + 1)}
      BY <1>3 DEF Seen
    <3>5. QED
      BY <3>2, <3>3, <3>4
  <2>6. /\ \A j \in 1 .. n - 1 : u'.rx_shift[j] = u.rx_shift[j + 1]
        /\ u'.rx_shift[n] = b[i + 1]
    <3>1. PICK q \in [1 .. n -> Level] : q = u.rx_shift
      BY <1>1, <1>2 DEF Frame
    <3>2. PICK x \in Level : x = u.rx_sync[2]
      BY HearFacts
    <3>3. n \in Nat /\ n >= 1 /\ q \in [1 .. n -> Level] /\ x \in Level
      BY <1>2, <3>1, <3>2
    <3>4. /\ \A j \in 1 .. n - 1 : ShiftIn(q, x)[j] = q[j + 1]
          /\ ShiftIn(q, x)[n] = x
      BY <3>3, ShiftInIs
    <3>5. QED
      BY <2>1, <2>5, <3>1, <3>2, <3>4
  <2>7. Bits - u'.rx_bit_count = i + 1
    BY <1>2, <1>5, <2>1
  <2>8. ASSUME NEW j \in 1 .. i + 1 PROVE u'.rx_shift[(k - 1) + j] = b[j]
    <3>1. CASE j = i + 1
      <4>1. (k - 1) + j = n
        BY <1>5, <1>9, <3>1
      <4>2. QED
        BY <2>6, <3>1, <4>1
    <3>2. CASE j # i + 1
      <4>1. j \in 1 .. i /\ (k - 1) + j \in 1 .. n - 1 /\ ((k - 1) + j) + 1 = k + j
        BY <1>5, <1>9, <3>2
      <4>2. QED
        BY <1>7, <2>6, <4>1
    <3>3. QED
      BY <3>1, <3>2
  <2>9. (y + 1) + (r - 1) = (m + r) + h + 2 \/ (y + 1) + (r - 1) = (m + r) + h + 3
    BY <1>2, <2>3
  <2>10. /\ \/ p + 1 + u'.rx_baud_cnt = (Bits - u'.rx_bit_count + 1) * B + Half + 2
            \/ p + 1 + u'.rx_baud_cnt = (Bits - u'.rx_bit_count + 1) * B + Half + 3
    <3>1. (Bits - u'.rx_bit_count + 1) * B = m + r
      <4>1. Bits - u'.rx_bit_count + 1 = i + 2
        BY <2>7
      <4>2. QED
        BY <2>3, <4>1
    <3>2. QED
      BY <1>2, <1>3, <2>1, <2>9, <3>1
  <2>11. \A j \in 1 .. Bits - u'.rx_bit_count : u'.rx_shift[u'.rx_bit_count + j] = b[j]
    BY <2>1, <2>7, <2>8
  <2>12. During(b, p + 1)'
    BY <1>7, <2>1, <2>2, <2>10, <2>11 DEF During
  <2>13. QED
    BY <1>2, <1>3, <2>4, <2>12 DEF Follows
<1>10. CASE c = 0 /\ k = 0
  <2>1. ~u'.rx_busy
    BY <1>1, <1>4, <1>7, <1>10 DEF RxStep
  <2>2. coming' = <<>>
    BY <1>4, <1>7, <1>10, ShortQueues DEF Popped, Commits
  <2>3. y + 1 >= t + r + h + 3
    BY <1>6, <1>7, <1>10
  <2>4. After(b, p + 1)'
    BY <1>2, <1>3, <2>1, <2>2, <2>3 DEF After
  <2>5. Rests'
    BY <2>1, <2>2 DEF Rests
  <2>6. QED
    BY <2>4, <2>5 DEF Follows
<1>11. QED
  BY <1>8, <1>9, <1>10

LEMMA SettledStep ==
  ASSUME HearStep, Settled,
         coming' = IF left' # left THEN Append(Popped, Head(left)) ELSE Popped
  PROVE  Settled' \/ \E b \in Frame : Seen(b, 0)' /\ Follows(b, 0)'
<1>1. /\ RxStep(u, u') /\ u.rx_sync[2] = 1 /\ u.rx_baud_cnt \in Nat /\ u.rx_busy \in BOOLEAN
  BY HearFacts DEF Settled
<1>2. \/ /\ left' = left /\ out' = <<>> /\ pin' = 1
         /\ u'.rx_sync[1] = 1 /\ u'.rx_sync[2] = 1
      \/ /\ left' # left
         /\ \E b \in Frame : b = Head(left) /\ Seen(b, 0)'
  BY SettledWires DEF Settled
<1>3. \/ Popped = <<>> /\ ~u'.rx_busy
      \/ /\ Popped = <<u'.rx_shift>> /\ u'.rx_busy
         /\ u'.rx_bit_count = 0 /\ u'.rx_baud_cnt = 0
  <2>1. CASE ~u.rx_busy
    BY <1>1, <2>1 DEF Settled, Rests, RxStep, Popped
  <2>2. CASE u.rx_busy /\ u.rx_baud_cnt = 0
    BY <1>1, <2>2, ShortQueues DEF Settled, Rests, RxStep, Popped, Commits
  <2>3. CASE u.rx_busy /\ u.rx_baud_cnt # 0
    <3>1. /\ u.rx_bit_count = 0 /\ u.rx_baud_cnt <= 1 /\ coming = <<u.rx_shift>>
      BY <2>3 DEF Settled, Rests
    <3>2. u.rx_baud_cnt - 1 = 0
      <4>1. PICK c \in Nat : c = u.rx_baud_cnt
        BY <1>1
      <4>2. c - 1 = 0
        BY <2>3, <3>1, <4>1
      <4>3. QED
        BY <4>1, <4>2
    <3>3. /\ u'.rx_busy = u.rx_busy /\ u'.rx_bit_count = 0 /\ u'.rx_baud_cnt = 0
          /\ u'.rx_shift = u.rx_shift
      BY <1>1, <2>3, <3>1, <3>2 DEF RxStep
    <3>4. Popped = coming
      BY <2>3 DEF Popped, Commits
    <3>5. QED
      BY <2>3, <3>1, <3>3, <3>4
  <2>4. QED
    BY <1>1, <2>1, <2>2, <2>3
<1>4. CASE left' = left
  <2>1. coming' = Popped
    BY <1>4
  <2>2. Rests'
    BY <1>3, <2>1 DEF Rests
  <2>3. QED
    BY <1>2, <1>4, <2>2 DEF Settled
<1>5. CASE left' # left
  <2>1. PICK b \in Frame : b = Head(left) /\ Seen(b, 0)'
    BY <1>2, <1>5
  <2>2. coming' = Append(Popped, b)
    BY <1>5, <2>1
  <2>3. CASE Popped = <<>> /\ ~u'.rx_busy
    <3>1. coming' = <<b>>
      BY <2>2, <2>3, ShortQueues
    <3>2. Before(b, 0)'
      BY <2>3, <3>1 DEF Before
    <3>3. QED
      BY <2>1, <3>2 DEF Follows
  <2>4. CASE /\ Popped = <<u'.rx_shift>> /\ u'.rx_busy
             /\ u'.rx_bit_count = 0 /\ u'.rx_baud_cnt = 0
    <3>1. coming' = <<u'.rx_shift, b>>
      BY <2>2, <2>4, ShortQueues
    <3>2. Overlap(b, 0)'
      BY <2>4, <3>1 DEF Overlap
    <3>3. QED
      BY <2>1, <3>2 DEF Follows
  <2>5. QED
    BY <1>3, <2>3, <2>4
<1>6. QED
  BY <1>4, <1>5

LEMMA FollowsStep ==
  ASSUME HearStep, NEW b \in Frame, NEW p \in 0 .. Length - 1, Seen(b, p), Follows(b, p),
         coming' = IF left' # left THEN Append(Popped, Head(left)) ELSE Popped
  PROVE  Settled' \/ \E q \in 0 .. Length - 1 : Seen(b, q)' /\ Follows(b, q)'
<1>1. coming' = Popped
  BY SeenWires
<1>2. PICK l \in Nat : l = Length
  BY HearFacts, LengthIs
<1>3. p \in Nat /\ (p + 1 < l \/ p + 1 = l)
  <2>1. p \in 0 .. l - 1
    BY <1>2
  <2>2. QED
    BY <2>1
<1>4. CASE p + 1 < l
  <2>1. Seen(b, p + 1)'
    BY <1>2, <1>4, SeenWires
  <2>2. Follows(b, p + 1)'
    BY <1>1, <1>2, <1>4, BeforeStep, DuringStep, AfterStep, OverlapStep DEF Follows
  <2>3. p + 1 \in 0 .. Length - 1
    BY <1>2, <1>3, <1>4
  <2>4. PICK q \in 0 .. Length - 1 : q = p + 1
    BY <2>3
  <2>5. Seen(b, q)' /\ Follows(b, q)'
    BY <2>1, <2>2, <2>4
  <2>6. QED
    BY <2>5
<1>5. CASE p + 1 = l
  <2>1. out' = <<>> /\ pin' = 1 /\ u'.rx_sync[1] = 1 /\ u'.rx_sync[2] = 1
    BY <1>2, <1>5, SeenWires
  <2>2. ~(p + 1 < Length)
    BY <1>2, <1>3, <1>5
  <2>3. Rests'
    BY <1>1, <2>2, BeforeStep, DuringStep, AfterStep, OverlapStep DEF Follows
  <2>4. QED
    BY <2>1, <2>3 DEF Settled
<1>6. QED
  BY <1>3, <1>4, <1>5

(* The last level of a byte is that of the idle line.                      *)
LEMMA EndsHigh ==
  ASSUME HearStep, IF out = <<>> THEN pin = 1 ELSE out[Len(out)] = 1
  PROVE  IF out' = <<>> THEN pin' = 1 ELSE out'[Len(out')] = 1
<1>1. SameRate /\ LinkTypes /\ Host
  BY DEF HearStep
<1>2. CASE out = <<>>
  <2>1. pin' = 1
    BY <1>1, <1>2, LineType, HostTransmits
  <2>2. ASSUME NEW b \in Frame, out' = Levels(b) PROVE out'[Len(out')] = 1
    <3>1. PICK l \in Nat, s \in Nat, r \in Nat :
            l = Length /\ s = (Bits + 1) * B /\ r = B /\ l = s + r /\ r >= 3
      BY <1>1, LengthIs, RateFacts
    <3>2. l - 1 \in s .. l - 1 /\ (l - 1) + 1 = l
      BY <3>1
    <3>3. Len(out') = l /\ \A x \in s .. l - 1 : out'[x + 1] = 1
      BY <1>1, <2>2, <3>1, LevelsAre
    <3>4. QED
      BY <3>2, <3>3
  <2>3. out' = <<>> \/ \E b \in Frame : out' = Levels(b)
    BY <1>1, <1>2, HostTransmits
  <2>4. QED
    BY <2>1, <2>2, <2>3
<1>3. CASE out # <<>>
  <2>1. out' = Tail(out) /\ pin' = line
    BY <1>1, <1>3, HostTransmits
  <2>2. /\ line = out[1] /\ Tail(out) \in Seq(Level) /\ Len(Tail(out)) = Len(out) - 1
        /\ \A x \in 1 .. Len(out) - 1 : Tail(out)[x] = out[x + 1]
        /\ Len(out) \in Nat /\ Len(out) >= 1
    <3>1. out \in Seq(Level)
      BY <1>1 DEF LinkTypes
    <3>2. QED
      BY <1>1, <1>3, <3>1, LineType, LenProperties
  <2>3. PICK m \in Nat : m = Len(out) - 1 /\ m + 1 = Len(out)
    <3>1. PICK k \in Nat : k = Len(out) /\ k >= 1
      BY <2>2
    <3>2. k - 1 \in Nat /\ (k - 1) + 1 = k
      BY <3>1
    <3>3. QED
      BY <3>1, <3>2
  <2>4. CASE m = 0
    <3>1. out' = <<>>
      BY <2>1, <2>2, <2>3, <2>4, EmptySeq
    <3>2. out[1] = 1
      BY <1>3, <2>3, <2>4
    <3>3. QED
      BY <2>1, <2>2, <3>1, <3>2
  <2>5. CASE m # 0
    <3>1. m \in 1 .. Len(out) - 1
      BY <2>3, <2>5
    <3>2. Len(out') = m /\ out'[m] = out[m + 1] /\ out[m + 1] = 1
      BY <1>3, <2>1, <2>2, <2>3, <3>1
    <3>3. out' # <<>>
      BY <2>5, <3>2, EmptySeq
    <3>4. QED
      BY <3>2, <3>3
  <2>6. QED
    BY <2>4, <2>5
<1>4. QED
  BY <1>2, <1>3

LEMMA HeardStep ==
  ASSUME SameRate, LinkTypes, PutWaits, HeardInv, SerialNext
  PROVE  HeardInv'
<1>1. LinkTypes'
  BY LinkStep
<1>2. CASE Tick \/ CoreReset
  <2>1. /\ UartTick /\ Host /\ stray' = (stray /\ ~InStep)
        /\ coming' = IF left' # left /\ ~stray' THEN Append(Popped, Head(left)) ELSE Popped
    BY <1>2 DEF Tick, CoreReset, History, Popped
  <2>2. HearStep
    BY <1>1, <2>1 DEF HearStep, PutWaits
  <2>3. IF out' = <<>> THEN pin' = 1 ELSE out'[Len(out')] = 1
    BY <2>2, EndsHigh DEF HeardInv
  <2>4. CASE stray /\ ~InStep
    <3>1. stray' /\ coming = <<>>
      BY <2>1, <2>4 DEF HeardInv
    <3>2. coming' = <<>>
      BY <2>1, <3>1 DEF Popped
    <3>3. QED
      BY <2>3, <3>1, <3>2 DEF HeardInv
  <2>5. CASE ~(stray /\ ~InStep)
    <3>1. ~stray'
      BY <2>1, <2>5
    <3>2. coming' = IF left' # left THEN Append(Popped, Head(left)) ELSE Popped
      BY <2>1, <3>1
    <3>3. Settled \/ \E b \in Frame, p \in 0 .. Length - 1 : Seen(b, p) /\ Follows(b, p)
      <4>1. CASE stray
        <5>1. InStep /\ coming = <<>> /\ (out = <<>> => pin = 1)
          BY <2>5, <4>1 DEF HeardInv
        <5>2. u.rx_sync[1] = 1 /\ u.rx_sync[2] = 1
          BY <5>1 DEF InStep, SyncReset
        <5>3. QED
          BY <5>1, <5>2 DEF InStep, Settled, Rests
      <4>2. CASE ~stray
        BY <4>2 DEF HeardInv
      <4>3. QED
        BY <4>1, <4>2
    <3>4. Length \in Nat /\ Length >= 1 /\ 0 \in 0 .. Length - 1
      BY LengthIs
    <3>5. Settled' \/ \E b \in Frame, p \in 0 .. Length - 1 : Seen(b, p)' /\ Follows(b, p)'
      BY <2>2, <3>2, <3>3, <3>4, SettledStep, FollowsStep
    <3>6. QED
      BY <2>3, <3>1, <3>5 DEF HeardInv
  <2>6. QED
    BY <2>4, <2>5
<1>3. CASE Rst
  <2>1. /\ u' = UartReset /\ pin' = line /\ out' = out
        /\ coming' = <<>> /\ stray' = (out # <<>>)
    BY <1>3 DEF Rst
  <2>2. IF out' = <<>> THEN pin' = 1 ELSE out'[Len(out')] = 1
    BY <2>1, LineType DEF HeardInv
  <2>3. CASE out # <<>>
    BY <2>1, <2>2, <2>3 DEF HeardInv
  <2>4. CASE out = <<>>
    <3>1. Settled'
      BY <2>1, <2>4, LineType, ResetType DEF Settled, Rests
    <3>2. QED
      BY <2>1, <2>2, <2>4, <3>1 DEF HeardInv
  <2>5. QED
    BY <2>3, <2>4
<1>4. QED
  BY <1>2, <1>3 DEF SerialNext

LEMMA HeardInit == ASSUME SerialInit PROVE HeardInv
<1>1. u = UartReset /\ out = <<>> /\ pin = 1 /\ coming = <<>> /\ stray = FALSE
  BY DEF SerialInit
<1>2. Settled
  BY <1>1, ResetType DEF Settled, Rests
<1>3. QED
  BY <1>1, <1>2 DEF HeardInv

LEMMA HeardStutter == ASSUME HeardInv, UNCHANGED vars PROVE HeardInv'
<1>1. u' = u /\ out' = out /\ pin' = pin /\ coming' = coming /\ stray' = stray
  BY DEF vars, wires, history
<1>2. Settled => Settled'
  BY <1>1 DEF Settled, Rests
<1>3. \A b \in Frame, p \in 0 .. Length - 1 :
        Seen(b, p) /\ Follows(b, p) => Seen(b, p)' /\ Follows(b, p)'
  BY <1>1 DEF Seen, Follows, Before, During, After, Overlap
<1>4. QED
  BY <1>1, <1>2, <1>3 DEF HeardInv

LEMMA BytesInvariant ==
  ASSUME SameRate
  PROVE  SerialSpec => [](LinkTypes /\ SentInv /\ HeardInv)
<1>. DEFINE Inv == LinkTypes /\ SentInv /\ HeardInv
<1>1. SerialInit => Inv
  BY LinkInit, SentInit, HeardInit
<1>2. Inv /\ [SerialNext]_vars => Inv'
  BY LinkStep, LinkStutter, SentStep, SentStutter, HeardStep, HeardStutter DEF SentInv
<1>3. QED
  BY <1>1, <1>2, PTL DEF SerialSpec

(* Every byte that the UART commits is the one that the host sent, at any  *)
(* rate and length of a byte, and from any phase of the line: the receiver *)
(* commits in the stop bit, with the head of the queue of those sent.      *)
THEOREM BytesHeard == ASSUME SameRate PROVE SerialSpec => HeardRight
<1>. DEFINE Inv == LinkTypes /\ SentInv /\ HeardInv
<1>1. ASSUME Inv, Commits, ~stray
      PROVE  coming # <<>> /\ u.rx_shift = Head(coming)
  <2>1. u.rx_busy /\ u.rx_baud_cnt = 0 /\ u.rx_bit_count = 0
    BY <1>1 DEF Commits
  <2>2. CASE Settled
    <3>1. coming = <<u.rx_shift>>
      BY <2>1, <2>2 DEF Settled, Rests
    <3>2. QED
      BY <3>1, ShortQueues
  <2>3. ASSUME NEW b \in Frame, NEW p, During(b, p)
        PROVE  coming # <<>> /\ u.rx_shift = Head(coming)
    <3>1. coming = <<b>>
      BY <2>3 DEF During
    <3>2. \A j \in 1 .. Bits : u.rx_shift[j] = b[j]
      <4>1. PICK n \in Nat : n = Bits
        BY RateFacts
      <4>2. \A j \in 1 .. n - 0 : u.rx_shift[0 + j] = b[j]
        BY <2>1, <2>3, <4>1 DEF During
      <4>3. n - 0 = n /\ \A j \in 1 .. n : 0 + j = j
        BY <4>1
      <4>4. QED
        BY <4>1, <4>2, <4>3
    <3>3. u.rx_shift = b
      <4>1. u.rx_shift \in Seq(Level) /\ Len(u.rx_shift) = Bits
        BY <1>1, UartIs, FrameIs DEF LinkTypes
      <4>2. QED
        BY <3>2, <4>1, FrameEqual
    <3>4. QED
      BY <3>1, <3>3, ShortQueues
  <2>4. ASSUME NEW b \in Frame, NEW p, Overlap(b, p)
        PROVE  coming # <<>> /\ u.rx_shift = Head(coming)
    BY <2>4, ShortQueues DEF Overlap
  <2>5. QED
    BY <1>1, <2>1, <2>2, <2>3, <2>4 DEF HeardInv, Follows, Before, After
<1>2. Inv /\ [SerialNext]_vars =>
        [Commits /\ ~stray /\ ~Rst => coming # <<>> /\ u.rx_shift = Head(coming)]_vars
  BY <1>1
<1>3. SerialSpec => []Inv
  BY BytesInvariant
<1>4. QED
  BY <1>2, <1>3, PTL DEF SerialSpec, HeardRight

LEMMA ShortLengths ==
  /\ Len(<<>>) <= 2
  /\ \A a : Len(<<a>>) <= 2
  /\ \A a, b : Len(<<a, b>>) <= 2
OBVIOUS

(* The link keeps its types: never more than two bytes under way in either *)
(* direction, and the host's counter in the range of the divisor.          *)
THEOREM SerialTypes == ASSUME SameRate PROVE SerialSpec => []SerialTypeOK
<1>. DEFINE Inv == LinkTypes /\ SentInv /\ HeardInv
<1>1. ASSUME Inv PROVE Len(owed) <= 2
  <2>1. \/ owed = <<>>
        \/ \E a : owed = <<a>>
        \/ \E a, b : owed = <<a, b>>
    BY <1>1 DEF SentInv, Idle, Loaded, Sending
  <2>2. QED
    BY <2>1, ShortLengths
<1>2. ASSUME Inv PROVE Len(coming) <= 2
  <2>1. \/ coming = <<>>
        \/ \E a : coming = <<a>>
        \/ \E a, b : coming = <<a, b>>
    <3>1. CASE stray
      BY <1>2, <3>1 DEF HeardInv
    <3>2. CASE Settled
      BY <3>2 DEF Settled, Rests
    <3>3. ASSUME NEW b, NEW p, Follows(b, p)
          PROVE  coming = <<>> \/ coming = <<b>> \/ coming = <<u.rx_shift, b>>
      BY <3>3 DEF Follows, Before, During, After, Overlap
    <3>4. QED
      BY <1>2, <3>1, <3>2, <3>3 DEF HeardInv
  <2>2. QED
    BY <2>1, ShortLengths
<1>3. ASSUME Inv PROVE hrx.cnt \in Count
  <2>1. PICK r \in Nat, h \in Nat, q \in Nat : r = B /\ h = Half /\ q = Radix * Radix /\ r + h <= q
    <3>1. B \in Nat /\ Half \in Nat /\ Radix * Radix \in Nat
      BY RateFacts
    <3>2. B + Half <= Radix * Radix
      BY DEF SameRate, B, Half
    <3>3. QED
      BY <3>1, <3>2
  <2>2. hrx.cnt \in 0 .. r + h - 1
    BY <1>3, <2>1 DEF LinkTypes
  <2>3. hrx.cnt \in 0 .. q - 1
    BY <2>1, <2>2
  <2>4. QED
    BY <2>1, <2>3 DEF Count
<1>4. Inv => SerialTypeOK
  BY <1>1, <1>2, <1>3 DEF LinkTypes, SerialTypeOK
<1>5. SerialSpec => []Inv
  BY BytesInvariant
<1>6. QED
  BY <1>4, <1>5, PTL
=============================================================================
