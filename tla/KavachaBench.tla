---------------------------- MODULE KavachaBench ----------------------------
(***************************************************************************)
(* A simulated benchmark, one step per clock cycle: the firmware           *)
(* (bench_main.c, kavacha_io.h, crt0.S) times the benchmark with the cycle *)
(* counter, which runs on while it is read in two halves, and reports      *)
(* through stores to tohost, which bench_top.sv turns into pulses and the  *)
(* Verilator harness (main.cpp) reads.  CoreMark (core_portme.c) does the  *)
(* same and prints before it reports.                                      *)
(*                                                                         *)
(* A CSR has 4 * Chunk values (2^32 in the code) and a report carries      *)
(* Chunk of them (2^30), under two bits that say which half it is.         *)
(***************************************************************************)
EXTENDS Naturals

CONSTANTS Chunk,
          max_cycles,     \* of the harness
          MaxText         \* bound: characters a benchmark prints

Csr    == 4 * Chunk
Double == Csr * Csr

(* A report holds more than one CSR does; no run outlasts two.             *)
ASSUME BenchAssumption == /\ Chunk \in Nat /\ Chunk > 4
                          /\ max_cycles \in 0 .. Double - 1
                          /\ MaxText \in Nat

VARIABLES
  mcycle,                     \* also sim_cycles: both count from the end of reset
  at, second, hi, lo, t0, t1, \* firmware: where it is; read_mcycle64; main
  ok, a0, bus,                \* its verdict and exit code; the store under way
  tohost_r, tohost_we_r,      \* bench_top
  harness, cy_hi, cy_lo, got_hi, got_lo, printed,
  began, ended,               \* history: the counter when its low half was read
  text                        \* history: characters stored

counter  == <<hi, lo, t0, t1, began, ended>>
exit     == <<ok, a0>>
firmware == <<at, second, counter, exit, text>>
reported == <<cy_hi, cy_lo, got_hi, got_lo, printed>>
benchvars == <<mcycle, firmware, bus, tohost_r, tohost_we_r, harness, reported>>

-----------------------------------------------------------------------------
(* read_mcycle64.                                                          *)

ReadHi == at = "hi" /\ hi' = mcycle \div Csr /\ at' = "lo"
          /\ UNCHANGED <<second, lo, t0, t1, began, ended, exit, text>>

ReadLo == /\ at = "lo" /\ lo' = mcycle % Csr /\ at' = "check"
          /\ IF second THEN ended' = mcycle /\ UNCHANGED began
             ELSE began' = mcycle /\ UNCHANGED ended
          /\ UNCHANGED <<second, hi, t0, t1, exit, text>>

Value == hi * Csr + lo

(* mutant: the halves are not compared *)
CheckNone ==
  /\ at = "check"
  /\ IF second THEN t1' = Value /\ at' = "print" /\ UNCHANGED <<second, t0>>
     ELSE t0' = Value /\ at' = "timed" /\ second' = TRUE /\ UNCHANGED t1
  /\ UNCHANGED <<hi, lo, began, ended, exit, text>>

(* The high half is read again; if it has moved on, all is read again.     *)
Check ==
  /\ at = "check"
  /\ CASE mcycle \div Csr # hi -> at' = "hi" /\ UNCHANGED <<second, t0, t1>>
       [] mcycle \div Csr = hi /\ second -> t1' = Value /\ at' = "print" /\ UNCHANGED <<second, t0>>
       [] OTHER -> t0' = Value /\ at' = "timed" /\ second' = TRUE /\ UNCHANGED t1
  /\ UNCHANGED <<hi, lo, began, ended, exit, text>>

-----------------------------------------------------------------------------
(* The benchmark, then what CoreMark prints.  Its code may trap, and the   *)
(* trap handler exits with 2.                                              *)
Benchmark == /\ at \in {"timed", "print", "verify"}
             /\ at' = IF at = "timed" THEN "hi" ELSE IF at = "print" THEN "rhi" ELSE "status"
             /\ ok' \in IF at = "verify" THEN BOOLEAN ELSE {ok}
             /\ UNCHANGED <<second, counter, a0, text>>

Trap == /\ at \in {"timed", "print", "verify"}
        /\ at' = "exit" /\ a0' = 2
        /\ UNCHANGED <<second, counter, ok, text>>

elapsed == (t1 + Double - t0) % Double

(* What the store at hand puts on the bus: a character, a half of the      *)
(* cycle count, main's verdict, or what _exit makes of main's result.      *)
wdata ==
  CASE at \in {"timed", "print"} -> <<"char", 0>>
    [] at = "rhi"    -> <<"hi", (elapsed \div Chunk) % Chunk>>
    [] at = "rlo"    -> <<"lo", elapsed % Chunk>>
    [] at = "status" -> <<"code", IF ok THEN 1 ELSE 2>>
    [] at = "exit"   -> <<"code", IF a0 = 0 THEN 1 ELSE a0>>

CanStore == \/ at \in {"timed", "print"} /\ text < MaxText
            \/ at \in {"rhi", "rlo", "status", "exit"}

(* The store ends; main returns after its verdict.                         *)
Stored ==
  /\ at' = CASE at = "rhi" -> "rlo" [] at = "rlo" -> "verify"
             [] at = "status" -> "exit" [] at = "exit" -> "spin" [] OTHER -> at
  /\ a0' = IF at = "status" THEN (IF ok THEN 0 ELSE 1) ELSE a0
  /\ text' = IF at \in {"timed", "print"} THEN text + 1 ELSE text
  /\ UNCHANGED <<second, counter, ok>>

-----------------------------------------------------------------------------
(* bench_top.sv: a store takes two cycles, and the first one pulses.       *)

Pulse == tohost_r' = wdata /\ tohost_we_r' = TRUE
Quiet == UNCHANGED tohost_r /\ tohost_we_r' = FALSE

Execute == /\ bus = "exec" /\ bus' = "exec"
           /\ ReadHi \/ ReadLo \/ Check \/ Benchmark \/ Trap \/ UNCHANGED firmware
           /\ Quiet
Store == bus = "exec" /\ CanStore /\ bus' = "stall" /\ UNCHANGED firmware /\ Quiet
Stall == bus = "stall" /\ bus' = "ack" /\ UNCHANGED firmware /\ Pulse
Done  == bus = "ack" /\ bus' = "exec" /\ Stored /\ Quiet

(* The harness looks after every rising edge, at what the edge has made.   *)
Harness ==
  LET kind == tohost_r'[1]
      v    == tohost_r'[2]
  IN IF ~tohost_we_r' THEN UNCHANGED <<harness, reported>>
     ELSE /\ cy_hi' = IF kind = "hi" THEN v ELSE cy_hi
          /\ got_hi' = (got_hi \/ kind = "hi")
          /\ cy_lo' = IF kind = "lo" THEN v ELSE cy_lo
          /\ got_lo' = (got_lo \/ kind = "lo")
          /\ printed' = IF kind = "char" THEN printed + 1 ELSE printed
          /\ harness' = IF kind # "code" THEN harness
                        ELSE IF v \in {0, 1} THEN "pass" ELSE "fail"

bench_cycles == IF got_hi /\ got_lo THEN cy_hi * Chunk + cy_lo ELSE 0

Clock == /\ harness = "run" /\ mcycle < max_cycles
         /\ Execute \/ Store \/ Stall \/ Done
         /\ Harness
         /\ mcycle' = mcycle + 1

TimeOut == /\ harness = "run" /\ mcycle = max_cycles
           /\ harness' = "timeout"
           /\ UNCHANGED <<mcycle, firmware, bus, tohost_r, tohost_we_r, reported>>

BenchInit ==
  /\ mcycle = 0 /\ at = "hi" /\ second = FALSE
  /\ hi = 0 /\ lo = 0 /\ t0 = 0 /\ t1 = 0 /\ began = 0 /\ ended = 0
  /\ ok = FALSE /\ a0 = 0 /\ text = 0 /\ bus = "exec"
  /\ tohost_r = <<"none", 0>> /\ tohost_we_r = FALSE
  /\ harness = "run" /\ cy_hi = 0 /\ cy_lo = 0 /\ got_hi = FALSE /\ got_lo = FALSE
  /\ printed = 0

(* The harness prints what it has and returns.                             *)
Over == harness # "run" /\ UNCHANGED benchvars

BenchNext == Clock \/ TimeOut \/ Over

-----------------------------------------------------------------------------
(* What the harness reports of a run that ended is so: it passed if and    *)
(* only if the benchmark verified its result (though _exit then stores     *)
(* another verdict, which is PASS); every character came out once; and the *)
(* cycles are those between the readings of the counter, whichever half    *)
(* rolled over meanwhile, as long as they fit the report (kavacha_io.h:44, *)
(* "Reports a 60-bit cycle count").                                        *)
ReportTrue ==
  /\ harness = "pass" => ok /\ (ended - began < Chunk * Chunk => bench_cycles = ended - began)
  /\ harness = "fail" => ~ok
  /\ harness \in {"pass", "fail"} => printed = text
=============================================================================
