------------------------- MODULE KavachaBenchProofs -------------------------
(***************************************************************************)
(* The report of a simulated benchmark is true, for every width of the     *)
(* counter and every benchmark, however long the run.                      *)
(***************************************************************************)
EXTENDS KavachaBench, TLAPS

BenchSpec == BenchInit /\ [][BenchNext]_benchvars

BTypes ==
  /\ mcycle \in 0 .. max_cycles
  /\ at \in {"hi", "lo", "check", "timed", "print", "rhi", "rlo", "verify", "status",
             "exit", "spin"}
  /\ second \in BOOLEAN /\ ok \in BOOLEAN
  /\ hi \in Nat /\ lo \in Nat /\ t0 \in Nat /\ t1 \in Nat
  /\ began \in Nat /\ ended \in Nat /\ text \in Nat
  /\ bus \in {"exec", "stall", "ack"}
  /\ harness \in {"run", "pass", "fail", "timeout"} /\ printed \in Nat
  /\ got_hi \in BOOLEAN /\ got_lo \in BOOLEAN

(* The reading under way: the high half is no later than the low one.      *)
Reading ==
  LET r == IF second THEN ended ELSE began
  IN /\ at = "lo" => hi <= mcycle \div Csr
     /\ at = "check" => /\ hi <= r \div Csr /\ lo = r % Csr /\ r <= mcycle
                        /\ second => began <= ended

(* The readings made are the counter's.                                    *)
Timed ==
  /\ second => t0 = began /\ began <= mcycle
  /\ at \in {"print", "rhi", "rlo", "verify", "status"} =>
       second /\ t1 = ended /\ began <= ended /\ ended <= mcycle

(* What the harness has, as long as it runs, is what was stored.           *)
Heard ==
  harness = "run" =>
    /\ printed = text + (IF bus = "ack" /\ at \in {"timed", "print"} THEN 1 ELSE 0)
    /\ at \in {"rlo", "verify", "status"} \/ (at = "rhi" /\ bus = "ack") =>
         got_hi /\ cy_hi = (elapsed \div Chunk) % Chunk
    /\ at \in {"verify", "status"} \/ (at = "rlo" /\ bus = "ack") =>
         got_lo /\ cy_lo = elapsed % Chunk

(* As long as it runs no verdict is out, so _exit is reached by a trap.    *)
NoVerdict ==
  harness = "run" =>
    /\ at # "spin" /\ ~(at \in {"status", "exit"} /\ bus = "ack")
    /\ at = "exit" => a0 = 2
    /\ ok => at = "status"

Storing ==
  bus # "exec" => at \in {"timed", "print", "rhi", "rlo", "status", "exit"}

BenchInv == BTypes /\ Reading /\ Timed /\ Heard /\ NoVerdict /\ Storing /\ ReportTrue

-----------------------------------------------------------------------------
(* A number is made of its two digits in any base.                         *)
LEMMA Digits ==
  ASSUME NEW x \in Nat, NEW c \in Nat \ {0}
  PROVE  /\ x \div c \in Nat /\ x % c \in 0 .. c - 1
         /\ (x \div c) * c + (x % c) = x
  OBVIOUS

(* The high digit does not fall when the number rises.                     *)
LEMMA HighMonotone ==
  ASSUME NEW x \in Nat, NEW y \in Nat, x <= y, NEW c \in Nat \ {0}
  PROVE  x \div c <= y \div c
<1>1. /\ x \div c \in Nat /\ x % c \in 0 .. c - 1 /\ (x \div c) * c + (x % c) = x
      /\ y \div c \in Nat /\ y % c \in 0 .. c - 1 /\ (y \div c) * c + (y % c) = y
  BY Digits
<1>2. SUFFICES ASSUME y \div c + 1 <= x \div c PROVE FALSE
  BY <1>1
<1>3. (y \div c + 1) * c <= (x \div c) * c
  BY <1>1, <1>2
<1> QED
  BY <1>1, <1>3

(* Two digits in base c hold every number below its square.                *)
LEMMA TwoDigits ==
  ASSUME NEW x \in Nat, NEW c \in Nat \ {0}, x < c * c
  PROVE  ((x \div c) % c) * c + (x % c) = x
<1>1. x \div c \in Nat /\ x % c \in 0 .. c - 1 /\ (x \div c) * c + (x % c) = x
  BY Digits
<1>2. x \div c < c
  <2>1. SUFFICES ASSUME c <= x \div c PROVE FALSE
    BY <1>1
  <2>2. c * c <= (x \div c) * c
    BY <1>1, <2>1
  <2> QED
    BY <1>1, <2>2
<1>3. (x \div c) % c = x \div c
  BY <1>1, <1>2
<1> QED
  BY <1>1, <1>3

(* A difference that fits two words is what subtraction of words gives.    *)
LEMMA Wraps ==
  ASSUME NEW d \in Nat, NEW m \in Nat \ {0}, d < m
  PROVE  (d + m) % m = d
  OBVIOUS

LEMMA Sizes == Chunk \in Nat \ {0} /\ Csr \in Nat \ {0} /\ Double \in Nat \ {0} /\ max_cycles \in Nat
BY BenchAssumption DEF Csr, Double

(* The high half of the counter does not fall.                             *)
LEMMA HighHolds ==
  ASSUME BTypes, mcycle' = mcycle + 1
  PROVE  /\ mcycle \div Csr \in Nat /\ mcycle' \div Csr \in Nat
         /\ mcycle \div Csr <= mcycle' \div Csr
<1>1. mcycle \in Nat /\ mcycle' \in Nat /\ mcycle <= mcycle'
  BY BenchAssumption, Sizes DEF BTypes
<1> QED
  BY <1>1, HighMonotone, Digits, Sizes

(* read_mcycle64 returns the counter of the moment its low half was read.  *)
LEMMA Untorn ==
  ASSUME BTypes, Reading, at = "check", mcycle \div Csr = hi
  PROVE  Value = IF second THEN ended ELSE began
<1> DEFINE r == IF second THEN ended ELSE began
<1>1. r \in Nat /\ mcycle \in Nat /\ r <= mcycle /\ hi <= r \div Csr /\ lo = r % Csr
  BY BenchAssumption, Sizes DEF BTypes, Reading
<1>2. r \div Csr <= hi
  BY <1>1, HighMonotone, Sizes
<1>3. r \div Csr \in Nat /\ (r \div Csr) * Csr + (r % Csr) = r
  BY <1>1, Digits, Sizes
<1>4. hi = r \div Csr
  BY <1>1, <1>2, <1>3 DEF BTypes
<1> QED
  BY <1>1, <1>3, <1>4 DEF Value

(* What the harness makes of the two halves is what was measured.          *)
LEMMA Measured ==
  ASSUME BTypes, t0 = began, t1 = ended, began <= ended, ended <= mcycle,
         ended - began < Chunk * Chunk
  PROVE  ((elapsed \div Chunk) % Chunk) * Chunk + (elapsed % Chunk) = ended - began
<1>1. ended - began \in Nat /\ ended - began < Double
  BY BenchAssumption, Sizes DEF BTypes
<1>2. elapsed = ((ended - began) + Double) % Double
  BY Sizes DEF elapsed, BTypes
<1>3. elapsed = ended - began
  BY <1>1, <1>2, Wraps, Sizes
<1> QED
  BY <1>1, <1>3, TwoDigits, Sizes

-----------------------------------------------------------------------------
(* One lemma for each kind of cycle.                                       *)

LEMMA ExecuteKeeps ==
  ASSUME BenchInv, harness = "run", mcycle < max_cycles, mcycle' = mcycle + 1,
         Execute, Harness
  PROVE  BenchInv'
<1>1. UNCHANGED <<harness, printed, cy_hi, cy_lo, got_hi, got_lo>> /\ bus = "exec" /\ bus' = "exec"
  BY DEF Execute, Quiet, Harness, reported
<1>2. /\ mcycle \in Nat /\ mcycle' \in 0 .. max_cycles /\ mcycle \div Csr \in Nat
      /\ mcycle' \div Csr \in Nat /\ mcycle % Csr \in Nat /\ mcycle \div Csr <= mcycle' \div Csr
  BY HighHolds, Digits, Sizes, BenchAssumption DEF BenchInv, BTypes
<1>3. ReportTrue' /\ Storing'
  BY <1>1 DEF ReportTrue, Storing
<1>4. t0' = t0 /\ t1' = t1 => elapsed' = elapsed
  BY DEF elapsed
<1>5. CASE ReadHi
  BY <1>1, <1>2, <1>3, <1>4, <1>5
     DEF ReadHi, exit, BenchInv, BTypes, Reading, Timed, Heard, NoVerdict
<1>6. CASE ReadLo
  BY <1>1, <1>2, <1>3, <1>4, <1>6
     DEF ReadLo, exit, BenchInv, BTypes, Reading, Timed, Heard, NoVerdict
<1>7. CASE Check
  <2>1. mcycle \div Csr = hi => Value = IF second THEN ended ELSE began
    BY <1>7, Untorn DEF BenchInv, Check
  <2>2. CASE mcycle \div Csr # hi
    BY <1>1, <1>2, <1>3, <1>4, <1>7, <2>2
       DEF Check, exit, BenchInv, BTypes, Reading, Timed, Heard, NoVerdict
  <2>3. CASE mcycle \div Csr = hi /\ second
    <3>1. /\ at = "check" /\ at' = "print" /\ t1' = ended
          /\ UNCHANGED <<second, t0, hi, lo, began, ended, ok, a0, text>>
      BY <1>7, <2>1, <2>3 DEF Check, exit
    <3>2. ended <= mcycle /\ began <= ended
      BY <2>3, <3>1 DEF BenchInv, Reading
    <3>3. Timed' /\ Reading'
      BY <1>1, <1>2, <2>3, <3>1, <3>2 DEF BenchInv, BTypes, Reading, Timed
    <3> QED
      BY <1>1, <1>2, <1>3, <3>1, <3>3 DEF BenchInv, BTypes, Heard, NoVerdict
  <2>4. CASE mcycle \div Csr = hi /\ ~second
    <3>1. /\ at = "check" /\ at' = "timed" /\ t0' = began /\ second' = TRUE
          /\ UNCHANGED <<t1, hi, lo, began, ended, ok, a0, text>>
      BY <1>7, <2>1, <2>4 DEF Check, exit
    <3>2. began <= mcycle
      BY <2>4, <3>1 DEF BenchInv, Reading
    <3>3. Timed' /\ Reading'
      BY <1>1, <1>2, <2>4, <3>1, <3>2 DEF BenchInv, BTypes, Reading, Timed
    <3> QED
      BY <1>1, <1>2, <1>3, <3>1, <3>3 DEF BenchInv, BTypes, Heard, NoVerdict
  <2> QED
    BY <2>2, <2>3, <2>4
<1>8. CASE Benchmark
  <2>1. at # "print" => Heard'
    BY <1>1, <1>4, <1>8 DEF Benchmark, counter, BenchInv, Heard
  <2>2. at = "print" => Heard'
    BY <1>1, <1>8 DEF Benchmark, counter, BenchInv, Heard
  <2> QED
    BY <1>1, <1>2, <1>3, <1>8, <2>1, <2>2
       DEF Benchmark, counter, BenchInv, BTypes, Reading, Timed, NoVerdict
<1>9. CASE Trap
  BY <1>1, <1>2, <1>3, <1>9
     DEF Trap, counter, BenchInv, BTypes, Reading, Timed, Heard, NoVerdict
<1>10. CASE UNCHANGED firmware
  <2>1. UNCHANGED <<at, second, hi, lo, t0, t1, began, ended, ok, a0, text>>
    BY <1>10 DEF firmware, counter, exit
  <2>2. Timed' /\ Reading'
    BY <1>2, <2>1 DEF BenchInv, BTypes, Reading, Timed
  <2>3. Heard' /\ NoVerdict'
    BY <1>1, <1>4, <2>1 DEF BenchInv, Heard, NoVerdict
  <2> QED
    BY <1>1, <1>2, <1>3, <2>1, <2>2, <2>3 DEF BenchInv, BTypes
<1> QED
  BY <1>5, <1>6, <1>7, <1>8, <1>9, <1>10 DEF Execute

LEMMA StoreKeeps ==
  ASSUME BenchInv, harness = "run", mcycle < max_cycles, mcycle' = mcycle + 1,
         Store, Harness
  PROVE  BenchInv'
<1>1. /\ UNCHANGED <<harness, printed, cy_hi, cy_lo, got_hi, got_lo>>
      /\ bus = "exec" /\ bus' = "stall"
  BY DEF Store, Quiet, Harness, reported
<1>2. at \in {"timed", "print", "rhi", "rlo", "status", "exit"}
  BY DEF Store, CanStore
<1>3. mcycle \in Nat /\ mcycle' \in 0 .. max_cycles
  BY BenchAssumption, Sizes DEF BenchInv, BTypes
<1>4. elapsed' = elapsed
  BY DEF Store, firmware, counter, elapsed
<1> QED
  BY <1>1, <1>2, <1>3, <1>4
     DEF Store, firmware, counter, exit, BenchInv, BTypes, Reading, Timed, Heard,
         NoVerdict, Storing, ReportTrue

LEMMA StallKeeps ==
  ASSUME BenchInv, harness = "run", mcycle < max_cycles, mcycle' = mcycle + 1,
         Stall, Harness
  PROVE  BenchInv'
<1>1. /\ bus = "stall" /\ bus' = "ack" /\ UNCHANGED firmware
      /\ tohost_r' = wdata /\ tohost_we_r' = TRUE
  BY DEF Stall, Pulse
<1>2. at \in {"timed", "print", "rhi", "rlo", "status", "exit"}
  BY <1>1 DEF BenchInv, Storing
<1>3. mcycle \in Nat /\ mcycle' \in 0 .. max_cycles
  BY BenchAssumption, Sizes DEF BenchInv, BTypes
<1>4. elapsed' = elapsed
  BY <1>1 DEF firmware, counter, elapsed
<1>5. Reading' /\ Timed' /\ Storing'
  BY <1>1, <1>2, <1>3 DEF firmware, counter, exit, BenchInv, Reading, Timed, Storing, BTypes
<1>6. CASE at \in {"timed", "print"}
  <2>1. tohost_r'[1] = "char"
    BY <1>1, <1>6 DEF wdata
  <2>2. UNCHANGED <<harness, cy_hi, cy_lo, got_hi, got_lo>> /\ printed' = printed + 1
    BY <1>1, <2>1 DEF Harness, BenchInv, BTypes
  <2> QED
    BY <1>1, <1>3, <1>5, <1>6, <2>2
       DEF firmware, counter, exit, BenchInv, BTypes, Heard, NoVerdict, ReportTrue
<1>7. CASE at = "rhi"
  <2>1. tohost_r'[1] = "hi" /\ tohost_r'[2] = (elapsed \div Chunk) % Chunk
    BY <1>1, <1>7 DEF wdata
  <2>2. /\ UNCHANGED <<harness, cy_lo, got_lo, printed>> /\ got_hi'
        /\ cy_hi' = (elapsed \div Chunk) % Chunk
    BY <1>1, <2>1 DEF Harness, BenchInv, BTypes
  <2> QED
    BY <1>1, <1>3, <1>4, <1>5, <1>7, <2>2
       DEF firmware, counter, exit, BenchInv, BTypes, Heard, NoVerdict, ReportTrue
<1>8. CASE at = "rlo"
  <2>1. tohost_r'[1] = "lo" /\ tohost_r'[2] = elapsed % Chunk
    BY <1>1, <1>8 DEF wdata
  <2>2. /\ UNCHANGED <<harness, cy_hi, printed>> /\ got_lo'
        /\ got_hi => got_hi'
        /\ cy_lo' = elapsed % Chunk
    BY <1>1, <2>1 DEF Harness, BenchInv, BTypes
  <2> QED
    BY <1>1, <1>3, <1>4, <1>5, <1>8, <2>2
       DEF firmware, counter, exit, BenchInv, BTypes, Heard, NoVerdict, ReportTrue
<1>9. CASE at = "status"
  <2>1. tohost_r'[1] = "code" /\ tohost_r'[2] = IF ok THEN 1 ELSE 2
    BY <1>1, <1>9 DEF wdata
  <2>2. /\ UNCHANGED <<cy_hi, cy_lo, printed>> /\ harness' = IF ok THEN "pass" ELSE "fail"
        /\ got_hi => got_hi'
        /\ got_lo => got_lo'
    BY <1>1, <2>1 DEF Harness, BenchInv, BTypes
  <2>3. /\ got_hi /\ cy_hi = (elapsed \div Chunk) % Chunk
        /\ got_lo /\ cy_lo = elapsed % Chunk /\ printed = text
    BY <1>1, <1>9 DEF BenchInv, Heard, BTypes
  <2>4. ended - began < Chunk * Chunk => cy_hi * Chunk + cy_lo = ended - began
    BY <1>9, <2>3, Measured DEF BenchInv, Timed
  <2>5. bench_cycles' = cy_hi * Chunk + cy_lo
    BY <2>2, <2>3 DEF bench_cycles
  <2>6. ReportTrue'
    BY <1>1, <2>2, <2>3, <2>4, <2>5 DEF firmware, counter, exit, ReportTrue
  <2> QED
    BY <1>1, <1>3, <1>5, <1>9, <2>2, <2>6
       DEF firmware, counter, exit, BenchInv, BTypes, Heard, NoVerdict
<1>10. CASE at = "exit"
  <2>1. tohost_r'[1] = "code" /\ tohost_r'[2] = 2 /\ ~ok /\ printed = text
    BY <1>1, <1>10 DEF wdata, BenchInv, NoVerdict, Heard, BTypes
  <2>2. /\ printed' = printed /\ harness' = "fail"
        /\ got_hi' \in BOOLEAN /\ got_lo' \in BOOLEAN
    BY <1>1, <2>1 DEF Harness, BenchInv, BTypes
  <2>3. ReportTrue'
    BY <1>1, <2>1, <2>2 DEF firmware, counter, exit, ReportTrue
  <2> QED
    BY <1>1, <1>3, <1>5, <1>10, <2>2, <2>3
       DEF firmware, counter, exit, BenchInv, BTypes, Heard, NoVerdict
<1> QED
  BY <1>2, <1>6, <1>7, <1>8, <1>9, <1>10

LEMMA DoneKeeps ==
  ASSUME BenchInv, harness = "run", mcycle < max_cycles, mcycle' = mcycle + 1,
         Done, Harness
  PROVE  BenchInv'
<1>1. /\ UNCHANGED <<harness, printed, cy_hi, cy_lo, got_hi, got_lo>>
      /\ bus = "ack" /\ bus' = "exec" /\ Stored
  BY DEF Done, Quiet, Harness, reported
<1>2. at \in {"timed", "print", "rhi", "rlo"}
  BY <1>1 DEF BenchInv, Storing, NoVerdict
<1>3. mcycle \in Nat /\ mcycle' \in 0 .. max_cycles
  BY BenchAssumption, Sizes DEF BenchInv, BTypes
<1>4. UNCHANGED <<second, hi, lo, t0, t1, began, ended, ok, a0>>
  BY <1>1, <1>2 DEF Stored, counter
<1>5. elapsed' = elapsed
  BY <1>4 DEF elapsed
<1>6. CASE at \in {"timed", "print"}
  <2>1. at' = at /\ text' = text + 1
    BY <1>1, <1>6 DEF Stored
  <2> QED
    BY <1>1, <1>3, <1>4, <1>5, <1>6, <2>1
       DEF BenchInv, BTypes, Reading, Timed, Heard, NoVerdict, Storing, ReportTrue
<1>7. CASE at \in {"rhi", "rlo"}
  <2>1. at' = (IF at = "rhi" THEN "rlo" ELSE "verify") /\ text' = text
    BY <1>1, <1>7 DEF Stored
  <2> QED
    BY <1>1, <1>3, <1>4, <1>5, <1>7, <2>1
       DEF BenchInv, BTypes, Reading, Timed, Heard, NoVerdict, Storing, ReportTrue
<1> QED
  BY <1>2, <1>6, <1>7

-----------------------------------------------------------------------------
(* A run of the harness that ends with a verdict has the benchmark's own,  *)
(* every character once, and the cycles between the two readings.          *)
THEOREM ReportsTrue == BenchSpec => []ReportTrue
<1>1. BenchInit => BenchInv
  <2>1. BenchInit => BTypes
    <3> SUFFICES ASSUME BenchInit PROVE BTypes
      OBVIOUS
    <3>1. /\ mcycle = 0 /\ at = "hi" /\ bus = "exec" /\ harness = "run"
          /\ hi = 0 /\ lo = 0 /\ t0 = 0 /\ t1 = 0 /\ began = 0 /\ ended = 0
          /\ text = 0 /\ printed = 0
      BY DEF BenchInit
    <3>2. /\ second \in BOOLEAN /\ ok \in BOOLEAN
          /\ got_hi \in BOOLEAN /\ got_lo \in BOOLEAN
      BY DEF BenchInit
    <3> QED
      BY <3>1, <3>2, Sizes DEF BTypes
  <2>2. BenchInit => Reading /\ Timed /\ Heard /\ NoVerdict /\ Storing /\ ReportTrue
    BY DEF BenchInit, Reading, Timed, Heard, NoVerdict, Storing, ReportTrue
  <2> QED
    BY <2>1, <2>2 DEF BenchInv
<1>2. BenchInv /\ [BenchNext]_benchvars => BenchInv'
  <2> SUFFICES ASSUME BenchInv, [BenchNext]_benchvars PROVE BenchInv'
    OBVIOUS
  <2>1. CASE Clock
    BY <2>1, ExecuteKeeps, StoreKeeps, StallKeeps, DoneKeeps DEF Clock
  <2>2. CASE TimeOut
    <3>1. bench_cycles' = bench_cycles /\ elapsed' = elapsed
      BY <2>2 DEF TimeOut, firmware, counter, reported, bench_cycles, elapsed
    <3> QED
      BY <2>2, <3>1
         DEF TimeOut, firmware, counter, exit, reported, BenchInv, BTypes, Reading, Timed,
             Heard, NoVerdict, Storing, ReportTrue
  <2>3. CASE UNCHANGED benchvars
    <3>1. bench_cycles' = bench_cycles /\ elapsed' = elapsed
      BY <2>3 DEF benchvars, firmware, counter, reported, bench_cycles, elapsed
    <3> QED
      BY <2>3, <3>1
         DEF benchvars, firmware, counter, exit, reported, BenchInv, BTypes, Reading, Timed,
             Heard, NoVerdict, Storing, ReportTrue
  <2> QED
    BY <2>1, <2>2, <2>3 DEF BenchNext, Over
<1>3. BenchInv => ReportTrue
  BY DEF BenchInv
<1> QED
  BY <1>1, <1>2, <1>3, PTL DEF BenchSpec
=============================================================================
