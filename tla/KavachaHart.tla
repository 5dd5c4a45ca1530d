---------------------------- MODULE KavachaHart -----------------------------
(***************************************************************************)
(* What a Kavacha hart promises its programmer and its debugger: one       *)
(* instruction at a time, each whole or not at all, every exception        *)
(* delivered, interrupts between instructions, and a halted hart that only *)
(* the debugger changes.  One action per architectural event; no clock, no *)
(* bus, no FSM.  Instruction effects follow the golden model               *)
(* (golden_rv32im.py, step), traps and debug the core's documented rules.  *)
(***************************************************************************)
EXTENDS KavachaIsa

CONSTANT DbgWrites    \* the CSR writes the debugger may make

VARIABLES
  irq, haltreq,       \* inputs: interrupt lines, the debugger's halt request
  pc,                 \* next instruction to run, halted or not
  gpr,                \* the tracked register
  csr,                \* the CSR file
  halted,             \* in debug mode
  cause,              \* why, as dcsr.cause: 1 ebreak, 3 request, 4 step
  ebreakm, step,      \* dcsr.ebreakm, dcsr.step
  stepping            \* "no"; "armed": one instruction may run; "done": it ran

hvars == <<pc, gpr, csr, halted, cause, ebreakm, step, stepping>>
debugRegs == <<halted, cause, ebreakm, step>>

HInit == /\ pc = ResetPC
         /\ gpr \in Val
         /\ csr = CsrReset
         /\ halted = FALSE /\ cause = 0
         /\ ebreakm = FALSE /\ step = FALSE /\ stepping = "no"

Runs == ~halted /\ stepping # "done"
Ran  == stepping' = IF stepping = "armed" THEN "done" ELSE stepping

Results(i, v) == CASE i.op = "alu"    -> {AluF[v]}
                   [] i.op \in MdOp   -> {MdF[i.op][v]}
                   [] i.op \in {"load", "jump", "csr"} -> Val
                   [] OTHER           -> {v}

(* What runs, as a handler sees it: whether interrupts are enabled and for *)
(* which privilege.  The hart has the frame of what runs and keeps one     *)
(* more; a trap pushes a frame, MRET pops it.                              *)
Now(c)   == [enabled |-> c.mstatus.MIE, priv |-> c.priv]
Saved(c) == [enabled |-> c.mstatus.MPIE, priv |-> IF SECURE THEN c.mstatus.MPP ELSE M]

WithFrames(c, now, saved) ==
  [c EXCEPT !.priv = now.priv,
            !.mstatus = [MIE |-> now.enabled, MPIE |-> saved.enabled,
                         MPP |-> saved.priv, MPRV |-> c.mstatus.MPRV]]

Trapped(c, epc, why) ==
  [WithFrames(c, [enabled |-> FALSE, priv |-> M], Now(c)) EXCEPT !.mepc = epc, !.mcause = why]

(* What is left in the saved frame is the least privilege; the privilege   *)
(* of the handler's loads and stores (MPRV) does not outlive machine mode. *)
Returned(c) ==
  [WithFrames(c, Saved(c), [enabled |-> TRUE, priv |-> IF SECURE THEN U ELSE M])
     EXCEPT !.mstatus.MPRV = @ /\ Saved(c).priv = M]

CsrEffect(i, c) == CASE i.op = "mret" -> Returned(c)
                     [] i.op = "csr"  -> Written(c, i.w)
                     [] OTHER         -> c

(* An exception: nothing but the trap happens, and mepc names the culprit. *)
Trap(i) ==
  /\ Runs /\ Excepts(i, ebreakm)
  /\ csr' = Trapped(csr, pc, Exception(i, csr.priv))
  /\ pc' = csr.mtvec
  /\ Ran
  /\ UNCHANGED <<gpr, debugRegs>>

Completes(i) == Runs /\ ~Excepts(i, ebreakm) /\ i.op # "ebreak"

Complete(i) ==
  /\ Completes(i)
  /\ Pending(csr, irq) = {} \/ Uninterruptible(i)
  /\ gpr' \in Results(i, gpr)
  /\ csr' = CsrEffect(i, csr)
  /\ pc' = Successor(i, pc, csr)
  /\ Ran
  /\ UNCHANGED debugRegs

(* The instruction completes and an interrupt follows it: the handler will *)
(* return to the instruction's successor.                                  *)
CompleteInterrupted(i) ==
  /\ Completes(i)
  /\ Pending(csr, irq) # {} /\ ~Uninterruptible(i)
  /\ gpr' \in Results(i, gpr)
  /\ csr' = Trapped(csr, Successor(i, pc, csr), Interrupt(csr, irq))
  /\ pc' = csr.mtvec
  /\ Ran
  /\ UNCHANGED debugRegs

Halt(why) == /\ ~halted
             /\ halted' = TRUE /\ cause' = why /\ stepping' = "no"
             /\ UNCHANGED <<pc, gpr, csr, ebreakm, step>>

HaltOnRequest   == haltreq /\ Halt(3)
HaltAfterStep   == stepping = "done" /\ ~haltreq /\ Halt(4)
HaltOnEbreak(i) == Runs /\ i.op = "ebreak" /\ ebreakm /\ Halt(1)

(* One access of the debugger to a halted hart.                            *)
Poke == /\ halted
        /\ \/ gpr' \in Val /\ UNCHANGED <<pc, csr, ebreakm, step>>
           \/ pc' \in PC /\ UNCHANGED <<gpr, csr, ebreakm, step>>
           \/ ebreakm' \in BOOLEAN /\ step' \in BOOLEAN /\ UNCHANGED <<pc, gpr, csr>>
           \/ /\ \E w \in DbgWrites : csr' = Written(csr, w)
              /\ UNCHANGED <<pc, gpr, ebreakm, step>>
        /\ UNCHANGED <<halted, cause, stepping>>

Resume == /\ halted
          /\ halted' = FALSE
          /\ stepping' = IF step THEN "armed" ELSE "no"
          /\ UNCHANGED <<pc, gpr, csr, cause, ebreakm, step>>

(* A reset may also cut the last instruction off after its register write. *)
HReset == /\ pc' = ResetPC /\ csr' = CsrReset
          /\ halted' = FALSE /\ cause' = 0
          /\ ebreakm' = FALSE /\ step' = FALSE /\ stepping' = "no"
          /\ gpr' \in Val

HNext == \/ \E i \in Instrs : \/ Trap(i) \/ Complete(i)
                              \/ CompleteInterrupted(i) \/ HaltOnEbreak(i)
         \/ HaltOnRequest \/ HaltAfterStep
         \/ Poke \/ Resume \/ HReset

(* The inputs are free: a step that changes only them is no step here.     *)
HSpec == HInit /\ [][HNext]_hvars
=============================================================================
