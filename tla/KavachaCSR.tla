----------------------------- MODULE KavachaCSR -----------------------------
(***************************************************************************)
(* The machine-mode CSR file of the Kavacha core (kavacha_csr.sv): the     *)
(* registers that steer control flow, and what trap entry, MRET and a CSR  *)
(* write do to them.  The file is one record, as the architectural         *)
(* specification (KavachaHart) has it; trap entry and MRET it states anew. *)
(*                                                                         *)
(* Data-only registers (mtval, mscratch, mcycle, minstret, the read-only   *)
(* identification registers) and the PMP registers are left out; what PMP  *)
(* decides reaches the core as a field of the fetched instruction.         *)
(***************************************************************************)
EXTENDS Naturals

CONSTANTS
  SECURE,     \* the SECURE parameter: U mode and PMP are elaborated
  PC,         \* the program counters of the instance
  IrqLines    \* the interrupt lines of the instance, by their mip bit

ASSUME CSRAssumption ==
  /\ SECURE \in BOOLEAN
  /\ IrqLines \subseteq {3, 7, 11}      \* MSIP, MTIP, MEIP

U == 0
M == 3
Priv == 0 .. 3          \* two bits; 1 and 2 name no mode of this core

Mstatus == [MIE : BOOLEAN, MPIE : BOOLEAN, MPP : Priv, MPRV : BOOLEAN]

Cause == [intr : BOOLEAN, code : 0 .. 11]

CsrFile == [mstatus : Mstatus, mie : SUBSET IrqLines, mtvec : PC,
            mepc : PC, mcause : Cause, priv : Priv]

(* A value on its way to a CSR, from a CSR instruction or from the         *)
(* debugger: `reg` selects the register, the field of its name is the value. *)
CsrWrite == [reg : {"none", "mstatus", "mie", "mtvec", "mepc", "mcause"},
             mstatus : Mstatus, mie : SUBSET IrqLines, mtvec : PC, mepc : PC,
             mcause : Cause]

NoWrite ==
  [reg |-> "none", mie |-> {}, mtvec |-> 0, mepc |-> 0,
   mcause |-> [intr |-> FALSE, code |-> 0],
   mstatus |-> [MIE |-> FALSE, MPIE |-> FALSE, MPP |-> U, MPRV |-> FALSE]]

CsrReset ==
  [mstatus |-> [MIE |-> FALSE, MPIE |-> FALSE, MPP |-> U, MPRV |-> FALSE],
   mie |-> {}, mtvec |-> 0, mepc |-> 0,
   mcause |-> [intr |-> FALSE, code |-> 0], priv |-> M]

(* irq_req and irq_cause: the lines that are up and enabled, behind the    *)
(* global enable; external before timer before software.                   *)
Pending(c, irq) == IF c.mstatus.MIE THEN irq \cap c.mie ELSE {}

IrqCause(c, irq) == IF 11 \in Pending(c, irq) THEN 11
                    ELSE IF 7 \in Pending(c, irq) THEN 7 ELSE 3

TrapEntry(c, epc, cause) ==
  [c EXCEPT !.mepc = epc,
            !.mcause = cause,
            !.mstatus = [MIE  |-> FALSE,
                         MPIE |-> c.mstatus.MIE,
                         MPP  |-> IF SECURE THEN c.priv ELSE M,
                         MPRV |-> c.mstatus.MPRV],
            !.priv = IF SECURE THEN M ELSE @]

(* mutant: MRET returns with the handler's privilege of loads and stores   *)
MretKeeps(c) ==
  [c EXCEPT !.mstatus = [MIE  |-> c.mstatus.MPIE,
                         MPIE |-> TRUE,
                         MPP  |-> IF SECURE THEN U ELSE M,
                         MPRV |-> c.mstatus.MPRV],
            !.priv = IF SECURE THEN c.mstatus.MPP ELSE @]

MretReturn(c) ==
  [c EXCEPT !.mstatus = [MIE  |-> c.mstatus.MPIE,
                         MPIE |-> TRUE,
                         MPP  |-> IF SECURE THEN U ELSE M,
                         MPRV |-> /\ c.mstatus.MPRV
                                  /\ SECURE => c.mstatus.MPP = M],
            !.priv = IF SECURE THEN c.mstatus.MPP ELSE @]

(* A CSR write stores the operand as it is: no field is made legal.        *)
Written(c, w) ==
  [c EXCEPT !.mstatus = IF w.reg = "mstatus" THEN w.mstatus ELSE @,
            !.mie     = IF w.reg = "mie"     THEN w.mie     ELSE @,
            !.mtvec   = IF w.reg = "mtvec"   THEN w.mtvec   ELSE @,
            !.mepc    = IF w.reg = "mepc"    THEN w.mepc    ELSE @,
            !.mcause  = IF w.reg = "mcause"  THEN w.mcause  ELSE @]
=============================================================================
