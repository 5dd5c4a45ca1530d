------------------------- MODULE KavachaCoreRefines -------------------------
(***************************************************************************)
(* The clocked core implements the architectural hart, for every program   *)
(* without an instruction whose exception the code drops.                  *)
(***************************************************************************)
EXTENDS KavachaCoreProofs

(* What refinement needs beyond BusInv and FlowInv: the instruction in     *)
(* progress is one of the program's, and one without an exception once it  *)
(* is past EXEC; a step that is over waits in FETCH for the halt; the      *)
(* debugger does not resume a hart in the middle of an access; without     *)
(* user mode the hart stays in machine mode.                               *)
HartInv ==
  /\ state \in {"EXEC", "LOAD", "LOAD2", "STORE2", "MD"} => instr \in Instrs
  /\ state \in {"LOAD", "LOAD2", "STORE2", "MD"}
       => ~instr.illegal /\ instr.fault = "none"
  /\ step_complete /\ ~dbg_mode => state = "FETCH"
  /\ dbg_resumereq => ~dbg_do
  /\ ~SECURE => csr.priv = M

LEMMA HartInvOther ==
  /\ Init => HartInv
  /\ Reset => HartInv'
  /\ HartInv /\ UNCHANGED vars => HartInv'
<1>1. Init => HartInv
  BY DEF Init, HartInv, step_complete, CsrReset
<1>2. Reset => HartInv'
  BY DEF Reset, Environment, HartInv, step_complete, dbg_do, CsrReset
<1>3. HartInv /\ UNCHANGED vars => HartInv'
  BY DEF HartInv, vars, fsm, debug, inputs, step_complete, dbg_do
<1>4. QED
  BY <1>1, <1>2, <1>3

(* Trap entry, MRET and CSR writes leave the privilege as it is without    *)
(* user mode.                                                              *)
LEMMA PrivKept ==
  ASSUME ~SECURE, NEW c \in CsrFile, NEW epc, NEW e, NEW w
  PROVE  /\ TrapEntry(c, epc, e).priv = c.priv
         /\ MretReturn(c).priv = c.priv
         /\ Written(c, w).priv = c.priv
<1>1. TrapEntry(c, epc, e).priv = c.priv
  BY DEF TrapEntry, CsrFile
<1>2. MretReturn(c).priv = c.priv
  BY DEF MretReturn, CsrFile
<1>3. Written(c, w).priv = c.priv
  BY DEF Written, CsrFile
<1>4. QED
  BY <1>1, <1>2, <1>3

LEMMA HartInvStep ==
  ASSUME TypeOK, BusInv, HartInv, Tick PROVE HartInv'
<1>1. Clocked
  BY TickIsClocked
<1>2. (dbg_resumereq' => ~dbg_do') /\ (~SECURE => csr'.priv = M)
  <2>1. dbg_resumereq' => ~dbg_do'
    BY <1>1 DEF Clocked, Environment, dbg_do
  <2>2. ASSUME ~SECURE PROVE csr'.priv = M
    <3>1. csr \in CsrFile /\ csr.priv = M
      BY <2>2 DEF TypeOK, HartInv
    <3>2. QED
      BY <1>1, <2>2, <3>1, PrivKept DEF Clocked, CsrClocked
  <2>3. QED
    BY <2>1, <2>2
<1>3. CASE ExecLoad \/ ExecMd \/ ExecStoreBeat
  <2>1. /\ state = "EXEC" /\ ~ex_trap /\ instr' = instr /\ ~dbg_mode
        /\ state' \in {"LOAD", "MD", "STORE2"}
    BY <1>3 DEF ExecLoad, ExecMd, ExecStoreBeat, is_store_ex, Goto, BusInv
  <2>2. ~commit
    BY <1>3 DEF ExecLoad, ExecMd, ExecStoreBeat, is_store_ex, commit, exec_done
  <2>3. step_pending' = step_pending /\ step_seen' = step_seen /\ dbg_mode' = dbg_mode
    BY <1>3, <2>2, TypeSplit
       DEF ExecLoad, ExecMd, ExecStoreBeat, Goto, Running, FsmType
  <2>4. ~instr.illegal /\ instr.fault = "none"
    BY <2>1 DEF ex_trap, Excepts
  <2>5. QED
    BY <1>2, <2>1, <2>3, <2>4 DEF HartInv, step_complete
<1>4. CASE LoadBeat \/ BusWait \/ MdWait \/ Halted
  <2>1. /\ instr' = instr
        /\ \/ state' = state
           \/ state = "LOAD" /\ state' = "LOAD2"
    BY <1>4 DEF LoadBeat, BusWait, MdWait, Halted, Goto, Stay, fsm
  <2>2. ~commit
    BY <1>4 DEF LoadBeat, BusWait, MdWait, Halted, is_store_ex, commit, exec_done
  <2>3. step_pending' = step_pending /\ step_seen' = step_seen /\ dbg_mode' = dbg_mode
    BY <1>4, <2>2, TypeSplit DEF LoadBeat, BusWait, MdWait, Halted, Goto, Stay,
                                 Running, FsmType
  <2>4. QED
    BY <1>2, <2>1, <2>3 DEF HartInv, step_complete
<1>5. CASE FetchStraddle \/ \E i \in Instrs : Fetch(i) \/ Fetch2(i)
  <2>1. state = "FETCH2" \/ (state = "FETCH" /\ ~step_complete)
    BY <1>5 DEF FetchStraddle, Fetch, Fetch2, Fetches
  <2>2. ~step_complete
    BY <2>1 DEF HartInv, BusInv
  <2>3. /\ step_pending' = step_pending /\ step_seen' = step_seen
        /\ state' = "FETCH2" \/ (state' = "EXEC" /\ instr' \in Instrs)
    <3>1. ~commit
      BY <2>1 DEF commit, exec_done
    <3>2. QED
      BY <1>5, <3>1, TypeSplit DEF FetchStraddle, Fetch, Fetch2, Goto, Running,
                                   FsmType
  <2>4. QED
    BY <1>2, <2>2, <2>3 DEF HartInv, step_complete
<1>6. CASE ExecStore \/ ExecOther \/ Load \/ Load2 \/ Store2 \/ Md
  BY <1>2, <1>6 DEF ExecStore, ExecOther, Load, Load2, Store2, Md, Finish, HartInv
<1>7. CASE FetchHalt \/ FetchStepDone \/ ExecEbreak
  BY <1>2, <1>7 DEF FetchHalt, FetchStepDone, ExecEbreak, Halt, HartInv
<1>8. CASE Resume
  BY <1>2, <1>8 DEF Resume, HartInv, step_complete
<1>9. QED
  BY <1>3, <1>4, <1>5, <1>6, <1>7, <1>8 DEF Tick

-----------------------------------------------------------------------------
(* One step of the core, seen as a step of the hart.                       *)

(* The hart's instruction set and CSR file are the core's.                 *)
LEMMA SameIsa ==
  /\ \A i, e : Hart!Excepts(i, e) <=> Excepts(i, e)
  /\ \A i : Hart!Uninterruptible(i) <=> Uninterruptible(i)
  /\ \A i, p : Hart!Exception(i, p) = Exception(i, p)
  /\ \A c, q : Hart!Interrupt(c, q) = Interrupt(c, q)
  /\ \A c, q : Hart!Pending(c, q) = Pending(c, q)
  /\ \A i, p, c : Hart!Successor(i, p, c) = Successor(i, p, c)
  /\ \A c, w : Hart!Written(c, w) = Written(c, w)
  /\ Hart!CsrReset = CsrReset /\ Hart!MdOp = MdOp
<1>1. \A i, e : Hart!Excepts(i, e) <=> Excepts(i, e)
  BY DEF Hart!Excepts, Excepts
<1>2. \A i : Hart!Uninterruptible(i) <=> Uninterruptible(i)
  BY DEF Hart!Uninterruptible, Uninterruptible
<1>3. \A i, p : Hart!Exception(i, p) = Exception(i, p)
  BY DEF Hart!Exception, Exception, Hart!Code, Code, Hart!U, U
<1>4. \A c, q : Hart!Pending(c, q) = Pending(c, q)
  BY DEF Hart!Pending, Pending
<1>5. \A c, q : Hart!Interrupt(c, q) = Interrupt(c, q)
  BY DEF Hart!Interrupt, Interrupt, Hart!IrqCause, IrqCause, Hart!Pending, Pending
<1>6. \A i, p, c : Hart!Successor(i, p, c) = Successor(i, p, c)
  BY DEF Hart!Successor, Successor, Hart!Seq, Seq
<1>7. \A c, w : Hart!Written(c, w) = Written(c, w)
  BY DEF Hart!Written, Written
<1>8. Hart!CsrReset = CsrReset /\ Hart!MdOp = MdOp
  BY DEF Hart!CsrReset, CsrReset, Hart!MdOp, MdOp, Hart!M, M, Hart!U, U
<1>9. QED
  BY <1>1, <1>2, <1>3, <1>4, <1>5, <1>6, <1>7, <1>8

(* The fields the code assigns are the frame the hart pushes.              *)
LEMMA TrapPushes ==
  ASSUME NEW c \in CsrFile, ~SECURE => c.priv = M, NEW epc, NEW e
  PROVE  TrapEntry(c, epc, e) = Hart!Trapped(c, epc, e)
<1> DEFINE st == [MIE |-> FALSE, MPIE |-> c.mstatus.MIE, MPP |-> c.priv, MPRV |-> c.mstatus.MPRV]
           f == Hart!WithFrames(c, [enabled |-> FALSE, priv |-> M], Hart!Now(c))
<1>1. TrapEntry(c, epc, e) = [c EXCEPT !.mepc = epc, !.mcause = e, !.mstatus = st, !.priv = M]
  BY DEF TrapEntry, CsrFile
<1>2. f = [c EXCEPT !.priv = M, !.mstatus = st]
  BY DEF Hart!WithFrames, Hart!Now
<1>3. Hart!Trapped(c, epc, e) = [f EXCEPT !.mepc = epc, !.mcause = e]
  BY DEF Hart!Trapped, Hart!M, M
<1> HIDE DEF st, f
<1>4. QED
  BY <1>1, <1>2, <1>3 DEF CsrFile

(* The fields MRET assigns are the frame the hart pops.                    *)
LEMMA MretPops ==
  ASSUME NEW c \in CsrFile, ~SECURE => c.priv = M
  PROVE  MretReturn(c) = Hart!Returned(c)
<1> DEFINE back == IF SECURE THEN c.mstatus.MPP ELSE M
           least == IF SECURE THEN U ELSE M
           st(v) == [MIE |-> c.mstatus.MPIE, MPIE |-> TRUE, MPP |-> least, MPRV |-> v]
           f == Hart!WithFrames(c, Hart!Saved(c), [enabled |-> TRUE, priv |-> least])
<1>1. c.mstatus \in Mstatus
  BY DEF CsrFile
<1>2. (c.mstatus.MPRV /\ (SECURE => c.mstatus.MPP = M)) = (c.mstatus.MPRV /\ back = M)
  BY <1>1 DEF Mstatus
<1>3. MretReturn(c) = [c EXCEPT !.mstatus = st(c.mstatus.MPRV /\ back = M), !.priv = back]
  BY <1>2 DEF MretReturn, CsrFile
<1>4. f = [c EXCEPT !.priv = back, !.mstatus = st(c.mstatus.MPRV)]
  BY DEF Hart!WithFrames, Hart!Saved, Hart!M, M
<1>5. Hart!Returned(c) = [f EXCEPT !.mstatus.MPRV = @ /\ back = M]
  BY DEF Hart!Returned, Hart!Saved, Hart!M, M, Hart!U, U
<1>6. Hart!Returned(c) = [c EXCEPT !.priv = back, !.mstatus = st(c.mstatus.MPRV /\ back = M)]
  <2> HIDE DEF f, back, least
  <2>1. QED
    BY <1>4, <1>5 DEF CsrFile
<1> HIDE DEF back, least, f
<1>7. QED
  BY <1>3, <1>6 DEF CsrFile

(* A cycle that neither retires nor halts is not seen.                     *)
LEMMA Quiet ==
  ASSUME TypeOK, BusInv, Clocked, Running, ~commit, ~dbg_mode, pc' = pc
  PROVE  UNCHANGED Hart!hvars
<1>1. \A sel : ~Poked(sel)
  BY DEF Poked, dbg_do
<1>2. dcsr_ebreakm' = dcsr_ebreakm /\ dcsr_step' = dcsr_step
  BY <1>1 DEF Clocked, AccessRegister
<1>3. gpr' = gpr /\ csr' = csr
  BY <1>1 DEF Clocked, RegFile, CsrClocked, rf_we, take_irq
<1>4. /\ dbg_mode' = dbg_mode /\ dcsr_cause' = dcsr_cause
      /\ step_pending' = step_pending /\ step_seen' = step_seen
  BY TypeSplit DEF Running, FsmType
<1>5. QED
  BY <1>2, <1>3, <1>4 DEF Hart!hvars

(* A retirement is one architectural instruction, with the trap or the     *)
(* interrupt that comes with it.                                           *)
LEMMA RetireFacts ==
  ASSUME NoDrops, TypeOK, BusInv, FlowInv, HartInv, commit, Clocked, Finish
  PROVE  /\ instr \in Instrs /\ Hart!Runs /\ Hart!Ran
         /\ UNCHANGED Hart!debugRegs
         /\ ~dbg_mode /\ ~dbg_mode' /\ pc' = next_pc
         /\ ex_trap <=> Excepts(instr, dcsr_ebreakm)
         /\ ~ex_trap => instr.op # "ebreak"
<1>1. state \in {"EXEC", "LOAD", "LOAD2", "STORE2", "MD"}
  BY DEF commit, exec_done
<1>2. instr \in Instrs /\ ~dbg_mode /\ ~step_complete
  BY <1>1 DEF HartInv, BusInv
<1>3. /\ dbg_mode' = dbg_mode /\ dcsr_cause' = dcsr_cause /\ pc' = next_pc
      /\ step_pending' = step_pending
      /\ step_seen' = (step_seen \/ step_pending)
  BY <1>2, TypeSplit DEF Finish, Running, FsmType
<1>4. dcsr_ebreakm' = dcsr_ebreakm /\ dcsr_step' = dcsr_step
  BY <1>2 DEF Clocked, AccessRegister, Poked, dbg_do
<1>5. Hart!Runs /\ Hart!Ran
  BY <1>2, <1>3, TypeSplit DEF Hart!Runs, Hart!Ran, step_complete, FsmType
<1>6. UNCHANGED Hart!debugRegs
  BY <1>3, <1>4 DEF Hart!debugRegs
<1>7. ex_trap <=> Excepts(instr, dcsr_ebreakm)
  <2>1. CASE state = "EXEC"
    BY <2>1 DEF ex_trap
  <2>2. CASE state # "EXEC"
    BY <1>1, <2>2 DEF ex_trap, Excepts, HartInv, BusInv, isLoad, isStore, isMd, MdOp
  <2>3. QED
    BY <2>1, <2>2
<1>8. ~ex_trap => instr.op # "ebreak"
  <2>1. CASE state = "EXEC"
    BY <1>2, <2>1, TypeSplit DEF ex_trap, Excepts, commit, exec_done,
       ebreak_to_debug, FsmType
  <2>2. CASE state # "EXEC"
    BY <1>1, <2>2 DEF BusInv, isLoad, isStore, isMd, MdOp
  <2>3. QED
    BY <2>1, <2>2
<1>9. QED
  BY <1>2, <1>3, <1>5, <1>6, <1>7, <1>8

LEMMA RetireResult ==
  ASSUME TypeOK, BusInv, FlowInv, commit, Clocked, ~dbg_mode
  PROVE  /\ ex_trap => gpr' = gpr
         /\ ~ex_trap => gpr' \in Hart!Results(instr, gpr)
<1>1. gpr' \in IF rf_we THEN WbValues ELSE {gpr}
  BY DEF Clocked, RegFile, Poked, dbg_do
<1>2. instr.op \in Op
  BY DEF TypeOK, Instr
<1>3. CASE ex_trap
  BY <1>1, <1>3 DEF rf_we
<1>4. CASE ~ex_trap /\ instr.op = "alu"
  BY <1>1, <1>4, SameIsa DEF rf_we, RegWrites, WbValues, Hart!Results, BusInv, isMd, MdOp
<1>5. CASE ~ex_trap /\ instr.op \in {"load", "jump", "csr"}
  BY <1>1, <1>5, SameIsa DEF rf_we, RegWrites, WbValues, Hart!Results, BusInv, isMd,
                             MdOp
<1>6. CASE ~ex_trap /\ instr.op \in MdOp
  <2>1. state = "MD" /\ md_done
    BY <1>6 DEF commit, exec_done, isMd, BusInv, isLoad, isStore, MdOp
  <2>2. md_result = MdF[instr.op][gpr]
    BY <2>1 DEF FlowInv
  <2>3. gpr' = md_result
    BY <1>1, <1>6, <2>1 DEF rf_we, RegWrites, WbValues
  <2>4. Hart!Results(instr, gpr) = {MdF[instr.op][gpr]}
    BY <1>6, SameIsa DEF Hart!Results, MdOp
  <2>5. QED
    BY <1>6, <2>2, <2>3, <2>4
<1>7. CASE ~ex_trap /\ instr.op \notin RegWrites
  <2>1. Hart!Results(instr, gpr) = {gpr}
    BY <1>7, SameIsa DEF Hart!Results, RegWrites
  <2>2. QED
    BY <1>1, <1>7, <2>1 DEF rf_we
<1>8. QED
  BY <1>3, <1>4, <1>5, <1>6, <1>7 DEF RegWrites

LEMMA RetireCsr ==
  ASSUME TypeOK, HartInv, commit, Clocked, ~dbg_mode
  PROVE  /\ ex_trap => csr' = Hart!Trapped(csr, pc, Exception(instr, csr.priv))
         /\ take_irq => csr' = Hart!Trapped(csr, Successor(instr, pc, csr),
                                            Interrupt(csr, irq))
         /\ ~ex_trap /\ ~take_irq => csr' = Hart!CsrEffect(instr, csr)
<1>1. ~Poked("csr")
  BY DEF Poked, dbg_do
<1>2. csr \in CsrFile /\ (~SECURE => csr.priv = M)
  BY DEF TypeOK, HartInv
<1>3. CASE ex_trap
  <2>1. csr' = TrapEntry(csr, pc, Exception(instr, csr.priv))
    BY <1>3 DEF Clocked, CsrClocked
  <2>2. QED
    BY <1>2, <1>3, <2>1, TrapPushes DEF take_irq
<1>4. CASE take_irq
  <2>1. csr' = TrapEntry(csr, Successor(instr, pc, csr), Interrupt(csr, irq)) /\ ~ex_trap
    BY <1>4 DEF Clocked, CsrClocked, take_irq, seq_next
  <2>2. QED
    BY <1>2, <1>4, <2>1, TrapPushes
<1>5. CASE ~ex_trap /\ ~take_irq
  <2>1. MretReturn(csr) = Hart!Returned(csr)
    BY <1>2, MretPops
  <2>2. QED
    BY <1>1, <1>5, <2>1, SameIsa DEF Clocked, CsrClocked, Hart!CsrEffect
<1>6. QED
  BY <1>3, <1>4, <1>5

LEMMA Retires ==
  ASSUME NoDrops, TypeOK, BusInv, FlowInv, HartInv, commit, Clocked, Finish
  PROVE  Hart!HNext
<1>1. /\ instr \in Instrs /\ Hart!Runs /\ Hart!Ran /\ UNCHANGED Hart!debugRegs
      /\ ~dbg_mode /\ ~dbg_mode' /\ pc' = next_pc
      /\ ex_trap <=> Excepts(instr, dcsr_ebreakm)
      /\ ~ex_trap => instr.op # "ebreak"
  BY RetireFacts
<1>2. CASE ex_trap
  <2>1. pc' = csr.mtvec
    BY <1>1, <1>2 DEF next_pc, take_irq, seq_next
  <2>2. Hart!Trap(instr)
    BY <1>1, <1>2, <2>1, RetireResult, RetireCsr, SameIsa DEF Hart!Trap
  <2>3. QED
    BY <1>1, <2>2 DEF Hart!HNext
<1>3. CASE take_irq
  <2>1. Pending(csr, irq) # {} /\ ~Uninterruptible(instr) /\ ~ex_trap
    BY <1>3 DEF take_irq
  <2>2. pc' = csr.mtvec
    BY <1>1, <1>3 DEF next_pc
  <2>3. Hart!CompleteInterrupted(instr)
    BY <1>1, <1>3, <2>1, <2>2, RetireResult, RetireCsr, SameIsa
       DEF Hart!CompleteInterrupted, Hart!Completes
  <2>4. QED
    BY <1>1, <2>3 DEF Hart!HNext
<1>4. CASE ~ex_trap /\ ~take_irq
  <2>1. Pending(csr, irq) = {} \/ Uninterruptible(instr)
    BY <1>4 DEF take_irq
  <2>2. pc' = Successor(instr, pc, csr)
    BY <1>1, <1>4 DEF next_pc, seq_next
  <2>3. Hart!Complete(instr)
    BY <1>1, <1>4, <2>1, <2>2, RetireResult, RetireCsr, SameIsa
       DEF Hart!Complete, Hart!Completes, Hart!Results,
           Hart!CsrEffect
  <2>4. QED
    BY <1>1, <2>3 DEF Hart!HNext
<1>5. QED
  BY <1>2, <1>3, <1>4

(* Halts, for any of their three reasons.                                  *)
LEMMA Halts ==
  ASSUME TypeOK, BusInv, HartInv, FetchHalt \/ FetchStepDone \/ ExecEbreak
  PROVE  Hart!HNext
<1>1. Clocked /\ ~commit /\ ~dbg_mode /\ dbg_mode' = TRUE /\ dpc' = pc
  BY DEF FetchHalt, FetchStepDone, ExecEbreak, Halt, ebreak_to_debug, BusInv,
         commit, exec_done
<1>2. /\ gpr' = gpr /\ csr' = csr
      /\ dcsr_ebreakm' = dcsr_ebreakm /\ dcsr_step' = dcsr_step
  BY <1>1 DEF Clocked, AccessRegister, RegFile, CsrClocked, rf_we, take_irq,
              Poked, dbg_do
<1>3. \A why : Halt(why) => Hart!Halt(why)
  BY <1>1, <1>2, TypeSplit DEF Halt, Hart!Halt, FsmType
<1>4. CASE FetchHalt
  BY <1>3, <1>4 DEF FetchHalt, Hart!HaltOnRequest, Hart!HNext
<1>5. CASE FetchStepDone
  <2>1. step_pending /\ step_seen /\ ~dbg_haltreq
    BY <1>1, <1>5 DEF FetchStepDone, step_complete
  <2>2. Hart!HaltAfterStep
    BY <1>1, <1>3, <1>5, <2>1 DEF FetchStepDone, Hart!HaltAfterStep
  <2>3. QED
    BY <2>2 DEF Hart!HNext
<1>6. CASE ExecEbreak
  <2>1. /\ instr \in Instrs /\ instr.op = "ebreak" /\ dcsr_ebreakm
        /\ ~step_complete
    BY <1>1, <1>6 DEF ExecEbreak, ebreak_to_debug, HartInv
  <2>2. Hart!HaltOnEbreak(instr)
    BY <1>1, <1>3, <1>6, <2>1 DEF ExecEbreak, Hart!HaltOnEbreak, Hart!Runs,
       step_complete
  <2>3. QED
    BY <2>1, <2>2 DEF Hart!HNext
<1>7. QED
  BY <1>4, <1>5, <1>6

(* A halted hart changes by the debugger's hand only.                      *)
LEMMA HaltedPokes ==
  ASSUME TypeOK, BusInv, Halted
  PROVE  Hart!HNext \/ UNCHANGED Hart!hvars
<1>1. Clocked /\ Running /\ ~commit /\ dbg_mode
  BY DEF Halted, Stay, BusInv, commit, exec_done
<1>2. /\ dbg_mode' = dbg_mode /\ dcsr_cause' = dcsr_cause
  BY <1>1 DEF Running
<1>3. gpr' = IF Poked("gpr") THEN dbg_ar.v ELSE gpr
  BY <1>1 DEF Clocked, RegFile, rf_we
<1>4. dpc' = IF Poked("dpc") THEN dbg_ar.dpc ELSE dpc
  BY <1>1 DEF Running, Poke_dpc
<1>5. csr' = IF Poked("csr") THEN Written(csr, dbg_ar.w) ELSE csr
  BY <1>1 DEF Clocked, CsrClocked, take_irq
<1>6. /\ dcsr_ebreakm' = IF Poked("dcsr") THEN dbg_ar.ebreakm ELSE dcsr_ebreakm
      /\ dcsr_step' = IF Poked("dcsr") THEN dbg_ar.step ELSE dcsr_step
  BY <1>1 DEF Clocked, AccessRegister
<1>7. \A sel : Poked(sel) => dbg_ar \in ArReqs /\ dbg_ar \in ArReq /\ dbg_ar.sel = sel
  BY CoreAssumption DEF Poked, dbg_do, TypeOK
<1>8. CASE Poked("gpr")
  <2>1. ~Poked("dpc") /\ ~Poked("csr") /\ ~Poked("dcsr")
    BY <1>8 DEF Poked
  <2>2. gpr' \in Val
    BY <1>3, <1>7, <1>8 DEF ArReq
  <2>3. Hart!Poke
    BY <1>1, <1>2, <1>4, <1>5, <1>6, <2>1, <2>2 DEF Hart!Poke
  <2>4. QED
    BY <2>3 DEF Hart!HNext
<1>9. CASE Poked("dpc")
  <2>1. ~Poked("gpr") /\ ~Poked("csr") /\ ~Poked("dcsr")
    BY <1>9 DEF Poked
  <2>2. dpc' \in PC
    BY <1>4, <1>7, <1>9 DEF ArReq
  <2>3. Hart!Poke
    BY <1>1, <1>2, <1>3, <1>5, <1>6, <2>1, <2>2 DEF Hart!Poke
  <2>4. QED
    BY <2>3 DEF Hart!HNext
<1>10. CASE Poked("dcsr")
  <2>1. ~Poked("gpr") /\ ~Poked("csr") /\ ~Poked("dpc")
    BY <1>10 DEF Poked
  <2>2. dcsr_ebreakm' \in BOOLEAN /\ dcsr_step' \in BOOLEAN
    BY <1>6, <1>7, <1>10 DEF ArReq
  <2>3. Hart!Poke
    BY <1>1, <1>2, <1>3, <1>4, <1>5, <2>1, <2>2 DEF Hart!Poke
  <2>4. QED
    BY <2>3 DEF Hart!HNext
<1>11. CASE Poked("csr")
  <2>1. ~Poked("gpr") /\ ~Poked("dcsr") /\ ~Poked("dpc")
    BY <1>11 DEF Poked
  <2>2. \E w \in {r.w : r \in ArReqs} : csr' = Hart!Written(csr, w)
    BY <1>5, <1>7, <1>11, SameIsa
  <2>3. Hart!Poke
    BY <1>1, <1>2, <1>3, <1>4, <1>6, <2>1, <2>2 DEF Hart!Poke
  <2>4. QED
    BY <2>3 DEF Hart!HNext
<1>12. CASE ~Poked("gpr") /\ ~Poked("dcsr") /\ ~Poked("dpc") /\ ~Poked("csr")
  BY <1>1, <1>2, <1>3, <1>4, <1>5, <1>6, <1>12 DEF Hart!hvars
<1>13. QED
  BY <1>8, <1>9, <1>10, <1>11, <1>12

(* A resume in no cycle of a register access, and a reset.                 *)
LEMMA Resumes == ASSUME TypeOK, BusInv, HartInv, Resume PROVE Hart!HNext
<1>1. /\ Clocked /\ ~commit /\ ~dbg_do /\ dbg_mode /\ dbg_mode' = FALSE
      /\ pc' = dpc /\ dcsr_cause' = dcsr_cause
      /\ step_pending' = dcsr_step /\ step_seen' = FALSE
  BY DEF Resume, BusInv, HartInv, commit, exec_done
<1>2. /\ gpr' = gpr /\ csr' = csr
      /\ dcsr_ebreakm' = dcsr_ebreakm /\ dcsr_step' = dcsr_step
  BY <1>1 DEF Clocked, AccessRegister, RegFile, CsrClocked, rf_we, take_irq, Poked
<1>3. Hart!Resume
  BY <1>1, <1>2, TypeSplit DEF Hart!Resume, FsmType
<1>4. QED
  BY <1>3 DEF Hart!HNext

LEMMA Resets == ASSUME TypeOK, Reset PROVE Hart!HNext
<1>1. gpr' \in Val
  BY RegFileType DEF Reset
<1>2. Hart!HReset
  BY <1>1, SameIsa DEF Reset, Hart!HReset
<1>3. QED
  BY <1>2 DEF Hart!HNext

(* The other cycles: waiting, fetching, the first beat of an access.       *)
LEMMA Waits ==
  ASSUME TypeOK, BusInv,
         \/ BusWait \/ FetchStraddle \/ ExecLoad \/ ExecMd \/ ExecStoreBeat
         \/ LoadBeat \/ MdWait
         \/ \E i \in Instrs : Fetch(i) \/ Fetch2(i)
  PROVE  UNCHANGED Hart!hvars
<1>1. CASE BusWait
  BY <1>1, Quiet DEF BusWait, Stay, fsm, is_store_ex, isStore, isLoad, isMd, MdOp,
     BusInv, commit, exec_done
<1>2. CASE FetchStraddle \/ \E i \in Instrs : Fetch(i) \/ Fetch2(i)
  BY <1>2, Quiet DEF FetchStraddle, Fetch, Fetch2, Fetches, Goto, BusInv,
     commit, exec_done
<1>3. CASE ExecLoad \/ ExecMd \/ ExecStoreBeat
  BY <1>3, Quiet DEF ExecLoad, ExecMd, ExecStoreBeat, is_store_ex, Goto, BusInv,
     commit, exec_done
<1>4. CASE LoadBeat \/ MdWait
  BY <1>4, Quiet DEF LoadBeat, MdWait, Goto, Stay, fsm, BusInv, commit, exec_done
<1>5. QED
  BY <1>1, <1>2, <1>3, <1>4

LEMMA StepSimulates ==
  ASSUME NoDrops, TypeOK, BusInv, FlowInv, HartInv, [Next]_vars
  PROVE  [Hart!HNext]_(Hart!hvars)
<1>1. CASE ExecOther \/ ExecStore \/ Load \/ Load2 \/ Store2 \/ Md
  <2>1. commit /\ Finish
    BY <1>1, FinishCommits
  <2>2. Clocked
    BY <2>1 DEF Finish
  <2>3. QED
    BY <2>1, <2>2, Retires
<1>2. CASE FetchHalt \/ FetchStepDone \/ ExecEbreak
  BY <1>2, Halts
<1>3. CASE Halted
  BY <1>3, HaltedPokes
<1>4. CASE Resume
  BY <1>4, Resumes
<1>5. CASE Reset
  BY <1>5, Resets
<1>6. CASE UNCHANGED vars
  BY <1>6 DEF vars, fsm, debug, Hart!hvars
<1>7. CASE \/ BusWait \/ FetchStraddle \/ ExecLoad \/ ExecMd \/ ExecStoreBeat
           \/ LoadBeat \/ MdWait
           \/ \E i \in Instrs : Fetch(i) \/ Fetch2(i)
  BY <1>7, Waits
<1>8. QED
  BY <1>1, <1>2, <1>3, <1>4, <1>5, <1>6, <1>7 DEF Next, Tick

LEMMA InitSimulates == Init => Hart!HInit
  BY SameIsa DEF Init, Hart!HInit

(* HartInv, with the invariants before it, is inductive.                   *)
THEOREM HartInvariant ==
  ASSUME NoDrops PROVE Spec => [](TypeOK /\ BusInv /\ FlowInv /\ HartInv)
<1>1. TypeOK /\ BusInv /\ HartInv /\ [Next]_vars => HartInv'
  BY HartInvStep, HartInvOther DEF Next
<1>2. QED
  BY <1>1, HartInvOther, FlowInvariant, PTL DEF Spec

(* Every execution of the clocked core, for every program without the      *)
(* instructions of Drops, every bus, interrupt and debugger, is one of the *)
(* architectural hart.                                                     *)
THEOREM Implements == ASSUME NoDrops PROVE Spec => IsHart
<1>1. TypeOK /\ BusInv /\ FlowInv /\ HartInv /\ [Next]_vars
        => [Hart!HNext]_(Hart!hvars)
  BY StepSimulates
<1>2. QED
  BY <1>1, InitSimulates, HartInvariant, PTL DEF Spec, IsHart, Hart!HSpec
=============================================================================
