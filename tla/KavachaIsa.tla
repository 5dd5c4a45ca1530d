----------------------------- MODULE KavachaIsa -----------------------------
(***************************************************************************)
(* What the decoder, the address adder and the PMP say of one instruction, *)
(* and what the instruction-set architecture says it does.  An instruction *)
(* is a record of those verdicts: its bits matter no further.  Shared by   *)
(* the clocked core (KavachaCore) and its specification (KavachaHart).     *)
(***************************************************************************)
EXTENDS KavachaCSR

CONSTANTS
  NPC,        \* number of halfwords of the program space
  ResetPC,
  Instrs,     \* the instructions that may be fetched
  Val,        \* the values of the one register that is tracked
  AluF,       \* what an ALU instruction computes from that register
  MdF         \* what each multiply/divide computes from it

MemOp == {"load", "store"}
MdOp  == {"mul", "div", "divz"}   \* divz: divide by zero, or overflow
Op    == {"alu", "jump", "csr", "ecall", "ebreak", "mret"} \cup MemOp \cup MdOp

Instr == [op : Op,
          len : {1, 2},           \* halfwords: compressed or not
          mis : BOOLEAN,          \* the access crosses a word boundary
          illegal : BOOLEAN,
          fault : {"none", "fetch", "data"},    \* PMP verdict
          tgt : PC,               \* where a jump or a taken branch goes
          w : CsrWrite]           \* what a CSR instruction writes

ASSUME IsaAssumption ==
  /\ NPC \in Nat \ {0}
  /\ PC = 0 .. NPC - 1
  /\ ResetPC \in PC
  /\ Instrs \subseteq Instr
  /\ \A i \in Instrs : /\ i.fault # "none" => SECURE
                       /\ i.fault = "data" => i.op \in MemOp
                       /\ i.mis => i.op \in MemOp
  /\ AluF \in [Val -> Val]
  /\ MdF \in [MdOp -> [Val -> Val]]

(* mutant: the adder keeps its carry *)
SeqCarry(p, n) == p + n

Seq(p, n) == (p + n) % NPC

(* ex_trap without its state condition: the instruction may not complete.  *)
Excepts(i, ebreakm) == \/ i.illegal
                       \/ i.op = "ecall"
                       \/ i.op = "ebreak" /\ ~ebreakm
                       \/ i.fault # "none"

(* ex_cause: of several reasons, the first in this order.                  *)
Code(i, priv) ==
  IF i.fault = "fetch" THEN 1
  ELSE IF i.illegal    THEN 2
  ELSE CASE i.op = "ecall"  -> IF priv = U THEN 8 ELSE 11
         [] i.op = "ebreak" -> 3
         [] i.op = "load"   -> 5
         [] OTHER           -> 7

Exception(i, priv) == [intr |-> FALSE, code |-> Code(i, priv)]
Interrupt(c, irq)  == [intr |-> TRUE, code |-> IrqCause(c, irq)]

(* Instructions with a destination register.  A jump writes its link, a    *)
(* CSR instruction the old value of the CSR.                               *)
RegWrites == {"alu", "load", "jump", "csr"} \cup MdOp

(* Where an instruction that completes goes next.                          *)
Successor(i, pc, c) == CASE i.op = "mret" -> c.mepc
                         [] i.op = "jump" -> i.tgt
                         [] OTHER         -> Seq(pc, i.len)

(* Instructions after which no interrupt is taken: the CSR file is busy    *)
(* with their own write.                                                   *)
Uninterruptible(i) == i.op \in {"mret", "csr"}
=============================================================================
