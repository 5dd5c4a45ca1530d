--------------------------- MODULE MCKavachaCore ----------------------------
(***************************************************************************)
(* Instances of the core for TLC: a program space of a few halfwords (the  *)
(* pc wraps), so that a 32-bit instruction can straddle words, a register  *)
(* of two values, a divider of a few bits, and representative instructions.*)
(***************************************************************************)
EXTENDS KavachaCore

MCPC  == 0 .. 3
PC3   == 0 .. 2
MCVal == 0 .. 1
MCAluF == [v \in MCVal |-> 1 - v]
MCMdF  == [o \in {"mul", "div", "divz"} |-> [v \in MCVal |-> IF o = "divz" THEN 1 ELSE v]]

(* An instruction of class o and length n with nothing special about it.   *)
I(o, n) == [op |-> o, len |-> n, mis |-> FALSE, illegal |-> FALSE,
            fault |-> "none", tgt |-> 0, w |-> NoWrite]
Mis(i)     == [i EXCEPT !.mis = TRUE]
Illegal(i) == [i EXCEPT !.illegal = TRUE]
Fault(i, f) == [i EXCEPT !.fault = f]
To(i, p)   == [i EXCEPT !.tgt = p]
Wr(i, w)   == [i EXCEPT !.w = w]

SetMIE == Wr(I("csr", 2), [NoWrite EXCEPT !.reg = "mstatus", !.mstatus.MIE = TRUE,
                                         !.mstatus.MPRV = SECURE])
SetMie == Wr(I("csr", 2), [NoWrite EXCEPT !.reg = "mie", !.mie = IrqLines])

Mem == {I("load", 2), Mis(I("load", 1)), I("store", 1), Mis(I("store", 2))}

(* Every way through the FSM that needs neither interrupts nor a debugger. *)
ExecInstrs == Mem \cup {I("alu", 1), I("mul", 2), I("div", 2), I("divz", 2),
                        To(I("jump", 2), 3), I("ecall", 2), I("ebreak", 1),
                        Illegal(I("alu", 1)), Illegal(I("store", 2))}

(* Instructions an interrupt may follow, the ones it may not, and the ones *)
(* that let it in; MRET goes back to user mode; two PMP faults.            *)
IrqInstrs == {Mis(I("store", 2)), I("mul", 2), To(I("jump", 2), 2),
              I("ecall", 2), I("mret", 2), SetMIE, SetMie,
              Fault(I("alu", 1), "fetch"), Fault(I("store", 1), "data")}

(* In the default build: a load with a reserved width.                     *)
LostTrapInstrs == {I("alu", 1), Illegal(I("load", 2))}

(* In the SECURE build: a divide that may not be fetched, before another.  *)
StaleMdInstrs == {I("alu", 1), I("div", 2), Fault(I("div", 2), "fetch")}

NoReqs == {}

(* A debugger that reads, redirects, arms breakpoints or single-stepping,  *)
(* and moves the trap vector.                                              *)
Req(s) == [write |-> TRUE, sel |-> s, v |-> 0, ebreakm |-> FALSE, step |-> FALSE,
           dpc |-> 1, w |-> NoWrite]
StepReqs == {[Req("dcsr") EXCEPT !.step = TRUE]}
DebugReqs == StepReqs \cup
             {[Req("gpr") EXCEPT !.write = FALSE], [Req("gpr") EXCEPT !.v = 1],
              [Req("dcsr") EXCEPT !.ebreakm = TRUE], Req("dpc"),
              [Req("csr") EXCEPT !.w = [NoWrite EXCEPT !.reg = "mtvec", !.mtvec = 2]]}

DebugInstrs == {I("alu", 1), Mis(I("store", 1)), I("ebreak", 1)}

(* For single steps, interrupts and liveness: the long paths of the FSM,   *)
(* and CSR writes that let an interrupt in.                                *)
LiveInstrs == {Mis(I("load", 1)), I("div", 2), SetMIE, SetMie}

(* The smallest program space and register.                                *)
Word == {0, 1}
One == {0}
OneAluF == [v \in One |-> v]
OneMdF  == [o \in MdOp |-> OneAluF]
=============================================================================
