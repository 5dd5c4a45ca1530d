------------------------- MODULE KavachaCoreProofs --------------------------
(***************************************************************************)
(* Theorems of the clocked core, for every program space, instruction set, *)
(* divider width and debugger.                                             *)
(***************************************************************************)
EXTENDS KavachaCore, TLAPS

-----------------------------------------------------------------------------
(* The operators of the CSR file and the ISA stay in their types.          *)

LEMMA SeqType == \A p \in PC, n \in {1, 2} : Seq(p, n) \in PC
<1>1. SUFFICES ASSUME NEW p \in PC, NEW n \in {1, 2} PROVE Seq(p, n) \in PC
  OBVIOUS
<1>2. p + n \in Nat /\ NPC \in Nat /\ NPC > 0
  BY <1>1, IsaAssumption
<1>3. (p + n) % NPC \in 0 .. NPC - 1
  BY <1>2
<1>4. QED
  BY <1>3, IsaAssumption DEF Seq

LEMMA TrapEntryType ==
  ASSUME NEW c \in CsrFile, NEW epc \in PC, NEW e \in Cause
  PROVE  TrapEntry(c, epc, e) \in CsrFile
<1>. DEFINE st == [MIE |-> FALSE, MPIE |-> c.mstatus.MIE,
                   MPP |-> IF SECURE THEN c.priv ELSE M, MPRV |-> c.mstatus.MPRV]
<1>1. st \in Mstatus
  BY DEF CsrFile, Mstatus, Priv, M
<1>2. (IF SECURE THEN M ELSE c.priv) \in Priv
  BY DEF CsrFile, Priv, M
<1>. HIDE DEF st
<1>3. [c EXCEPT !.mepc = epc, !.mcause = e, !.mstatus = st,
                !.priv = IF SECURE THEN M ELSE @] \in CsrFile
  BY <1>1, <1>2 DEF CsrFile
<1>4. QED
  BY <1>3 DEF TrapEntry, st

LEMMA MretReturnType ==
  ASSUME NEW c \in CsrFile PROVE MretReturn(c) \in CsrFile
<1>. DEFINE st == [MIE |-> c.mstatus.MPIE, MPIE |-> TRUE,
                   MPP |-> IF SECURE THEN U ELSE M,
                   MPRV |-> /\ c.mstatus.MPRV
                            /\ SECURE => c.mstatus.MPP = M]
<1>1. st \in Mstatus
  <2>1. c.mstatus.MPIE \in BOOLEAN /\ c.mstatus.MPRV \in BOOLEAN
    BY DEF CsrFile, Mstatus
  <2>2. (IF SECURE THEN U ELSE M) \in Priv
    BY DEF Priv, M, U
  <2>3. st.MPRV \in BOOLEAN
    BY <2>1
  <2>4. QED
    BY <2>1, <2>2, <2>3 DEF Mstatus
<1>2. (IF SECURE THEN c.mstatus.MPP ELSE c.priv) \in Priv
  BY DEF CsrFile, Mstatus, Priv
<1>. HIDE DEF st
<1>3. [c EXCEPT !.mstatus = st,
                !.priv = IF SECURE THEN c.mstatus.MPP ELSE @] \in CsrFile
  BY <1>1, <1>2 DEF CsrFile
<1>4. QED
  BY <1>3 DEF MretReturn, st

(* A handler that touches no CSR gives the interrupted program back its    *)
(* interrupt enable and its privilege.                                     *)
THEOREM TrapThenMret ==
  ASSUME NEW c \in CsrFile, NEW epc \in PC, NEW e \in Cause
  PROVE  LET r == MretReturn(TrapEntry(c, epc, e))
         IN  r.mstatus.MIE = c.mstatus.MIE /\ r.priv = c.priv /\ r.mepc = epc
<1>1. TrapEntry(c, epc, e) \in CsrFile
  BY TrapEntryType
<1>2. /\ TrapEntry(c, epc, e).mstatus.MPIE = c.mstatus.MIE
      /\ TrapEntry(c, epc, e).mstatus.MPP = IF SECURE THEN c.priv ELSE M
      /\ TrapEntry(c, epc, e).priv = IF SECURE THEN M ELSE c.priv
      /\ TrapEntry(c, epc, e).mepc = epc
  BY DEF TrapEntry, CsrFile
<1>3. \A d \in CsrFile : /\ MretReturn(d).mstatus.MIE = d.mstatus.MPIE
                         /\ MretReturn(d).priv = IF SECURE THEN d.mstatus.MPP ELSE d.priv
                         /\ MretReturn(d).mepc = d.mepc
  BY DEF MretReturn, CsrFile
<1>4. QED
  BY <1>1, <1>2, <1>3

LEMMA WrittenType ==
  ASSUME NEW c \in CsrFile, NEW w \in CsrWrite PROVE Written(c, w) \in CsrFile
BY DEF Written, CsrFile, CsrWrite

LEMMA ResetType == CsrReset \in CsrFile /\ Nop \in Instr
<1>1. 0 \in PC
  BY IsaAssumption
<1>2. CsrReset \in CsrFile
  BY <1>1 DEF CsrReset, CsrFile, Mstatus, Priv, Cause, M, U
<1>3. NoWrite \in CsrWrite
  BY <1>1 DEF NoWrite, CsrWrite, Cause, Mstatus, Priv, U
<1>4. QED
  BY <1>1, <1>2, <1>3 DEF Nop, Instr, Op

LEMMA CauseType ==
  \A i \in Instr, c \in CsrFile, q \in SUBSET IrqLines :
     Exception(i, c.priv) \in Cause /\ Interrupt(c, q) \in Cause
BY DEF Exception, Interrupt, Code, IrqCause, Cause

LEMMA SuccessorType ==
  ASSUME NEW i \in Instr, NEW p \in PC, NEW c \in CsrFile
  PROVE  Successor(i, p, c) \in PC
<1>1. i.tgt \in PC /\ i.len \in {1, 2} /\ c.mepc \in PC
  BY DEF Instr, CsrFile
<1>2. QED
  BY <1>1, SeqType DEF Successor

-----------------------------------------------------------------------------
(* Type correctness, in two halves: what the FSM assigns, and what the     *)
(* clocked blocks beside it assign.                                        *)

FsmType ==
  /\ state \in State /\ pc \in PC /\ instr \in Instr
  /\ dbg_mode \in BOOLEAN /\ dpc \in PC /\ dcsr_cause \in {0, 1, 3, 4}
  /\ step_pending \in BOOLEAN /\ step_seen \in BOOLEAN

SideType ==
  /\ dcsr_ebreakm \in BOOLEAN /\ dcsr_step \in BOOLEAN
  /\ dbg_ar_busy \in BOOLEAN /\ dbg_ar_done \in BOOLEAN
  /\ gpr \in Val /\ csr \in CsrFile
  /\ md_state \in {"IDLE", "MUL", "DIV", "FIN"} /\ md_op \in MdOp /\ md_a \in Val
  /\ bit_idx \in 0 .. DivBits - 1 /\ md_done \in BOOLEAN /\ md_result \in Val
  /\ mem_stall \in BOOLEAN /\ irq \in SUBSET IrqLines
  /\ dbg_haltreq \in BOOLEAN /\ dbg_resumereq \in BOOLEAN
  /\ dbg_ar \in ArReqs \cup {NoAr}
  /\ beats \in [{0, 1} -> 0 .. 2] /\ prev_pc_wdata \in PC /\ have_prev \in BOOLEAN

LEMMA TypeSplit == /\ TypeOK <=> FsmType /\ SideType
                   /\ TypeOK' <=> FsmType' /\ SideType'
BY DEF TypeOK, FsmType, SideType

LEMMA NextPcType == ASSUME TypeOK PROVE seq_next \in PC /\ next_pc \in PC
<1>1. csr.mtvec \in PC /\ instr.len \in {1, 2} /\ pc \in PC
  BY DEF TypeOK, CsrFile, Instr
<1>2. Seq(pc, instr.len) \in PC
  BY <1>1, SeqType
<1>3. Successor(instr, pc, csr) \in PC
  BY SuccessorType DEF TypeOK
<1>4. QED
  BY <1>1, <1>2, <1>3 DEF seq_next, next_pc

(* An Access Register request writes legal values.                         *)
LEMMA PokeType ==
  ASSUME TypeOK, NEW sel, Poked(sel)
  PROVE  /\ dbg_ar.v \in Val /\ dbg_ar.ebreakm \in BOOLEAN
         /\ dbg_ar.step \in BOOLEAN /\ dbg_ar.dpc \in PC /\ dbg_ar.w \in CsrWrite
         /\ dbg_mode /\ dbg_ar \in ArReqs
<1>1. dbg_ar \in ArReqs /\ dbg_mode
  BY DEF TypeOK, Poked, dbg_do
<1>2. dbg_ar \in ArReq
  BY <1>1, CoreAssumption
<1>3. QED
  BY <1>1, <1>2 DEF ArReq

LEMMA EnvironmentType ==
  ASSUME SideType, NEW held \in {{dbg_ar}, {dbg_ar, NoAr}}, Environment(held)
  PROVE  /\ mem_stall' \in BOOLEAN /\ irq' \in SUBSET IrqLines
         /\ dbg_haltreq' \in BOOLEAN /\ dbg_resumereq' \in BOOLEAN
         /\ dbg_ar' \in ArReqs \cup {NoAr}
BY CoreAssumption DEF SideType, Environment

LEMMA RegFileType == ASSUME TypeOK, RegFile PROVE gpr' \in Val
<1>1. Poked("gpr") => dbg_ar.v \in Val
  BY PokeType
<1>2. WbValues \subseteq Val
  BY IsaAssumption DEF WbValues, TypeOK
<1>3. QED
  BY <1>1, <1>2 DEF RegFile, TypeOK

LEMMA ClockedType == ASSUME TypeOK, Clocked PROVE SideType'
<1>. USE DEF Clocked
<1>1. /\ mem_stall' \in BOOLEAN /\ irq' \in SUBSET IrqLines
      /\ dbg_haltreq' \in BOOLEAN /\ dbg_resumereq' \in BOOLEAN
      /\ dbg_ar' \in ArReqs \cup {NoAr}
  BY EnvironmentType, TypeSplit
<1>2. /\ dcsr_ebreakm' \in BOOLEAN /\ dcsr_step' \in BOOLEAN
      /\ dbg_ar_busy' \in BOOLEAN /\ dbg_ar_done' \in BOOLEAN
  BY PokeType DEF AccessRegister, TypeOK, dbg_do
<1>3. /\ md_state' \in {"IDLE", "MUL", "DIV", "FIN"} /\ md_op' \in MdOp
      /\ md_a' \in Val /\ bit_idx' \in 0 .. DivBits - 1 /\ md_done' \in BOOLEAN
      /\ md_result' \in Val
  <2>1. MdF[md_op][md_a] \in Val
    BY IsaAssumption DEF TypeOK
  <2>2. DivBits - 1 \in 0 .. DivBits - 1 /\ 0 \in 0 .. DivBits - 1
    BY CoreAssumption
  <2>3. bit_idx # 0 => bit_idx - 1 \in 0 .. DivBits - 1
    BY CoreAssumption DEF TypeOK
  <2>4. QED
    BY <2>1, <2>2, <2>3 DEF MulDiv, TypeOK, isMd
<1>4. csr' \in CsrFile
  <2>1. TrapEntry(csr, pc, Exception(instr, csr.priv)) \in CsrFile
    BY TrapEntryType, CauseType DEF TypeOK
  <2>2. TrapEntry(csr, seq_next, Interrupt(csr, irq)) \in CsrFile
    BY TrapEntryType, CauseType, NextPcType DEF TypeOK
  <2>3. MretReturn(csr) \in CsrFile /\ Written(csr, instr.w) \in CsrFile
    BY MretReturnType, WrittenType DEF TypeOK, Instr
  <2>4. Poked("csr") => Written(csr, dbg_ar.w) \in CsrFile
    BY PokeType, WrittenType DEF TypeOK
  <2>5. QED
    BY <2>1, <2>2, <2>3, <2>4 DEF CsrClocked, TypeOK
<1>5. gpr' \in Val
  BY RegFileType DEF Clocked
<1>6. beats' \in [{0, 1} -> 0 .. 2] /\ prev_pc_wdata' \in PC /\ have_prev' \in BOOLEAN
  <2>1. Beat \in [{0, 1} -> {0, 1}]
    BY DEF Beat, NoBeats
  <2>2. BeatsSoFar \in [{0, 1} -> 0 .. 2]
    BY <2>1 DEF BeatsSoFar, TypeOK
  <2>3. NoBeats \in [{0, 1} -> 0 .. 2]
    BY DEF NoBeats
  <2>4. commit \in BOOLEAN
    BY DEF commit, exec_done, TypeOK
  <2>5. QED
    BY <2>2, <2>3, <2>4, NextPcType DEF History, TypeOK
<1>7. QED
  BY <1>1, <1>2, <1>3, <1>4, <1>5, <1>6 DEF SideType
(* The FSM, one step per action.                                           *)
LEMMA FsmTypeTick == ASSUME TypeOK, Tick PROVE FsmType'
<1>1. FsmType
  BY TypeSplit
<1>2. Poke_dpc => dpc' \in PC
  BY <1>1, PokeType DEF Poke_dpc, FsmType
<1>3. Running => /\ dbg_mode' \in BOOLEAN /\ dpc' \in PC
                 /\ dcsr_cause' \in {0, 1, 3, 4}
                 /\ step_pending' \in BOOLEAN /\ step_seen' \in BOOLEAN
  BY <1>1, <1>2 DEF Running, FsmType
<1>4. Stay => FsmType'
  BY <1>1, <1>3 DEF Stay, fsm, FsmType
<1>5. ASSUME NEW s \in State, Goto(s) PROVE FsmType'
  BY <1>1, <1>3, <1>5 DEF Goto, FsmType
<1>6. Finish => FsmType'
  BY <1>1, <1>3, NextPcType DEF Finish, FsmType, State
<1>7. ASSUME NEW i \in Instrs, instr' = i, state' = "EXEC", UNCHANGED pc, Running
      PROVE  FsmType'
  <2>1. i \in Instr
    BY IsaAssumption
  <2>2. QED
    BY <1>1, <1>3, <1>7, <2>1 DEF FsmType, State
<1>8. ASSUME NEW why \in {1, 3, 4}, Halt(why),
             step_pending' \in BOOLEAN, step_seen' \in BOOLEAN
      PROVE  FsmType'
  BY <1>1, <1>8 DEF Halt, FsmType, State
<1>9. CASE BusWait
  BY <1>4, <1>9 DEF BusWait
<1>10. CASE FetchHalt
  BY <1>1, <1>8, <1>10 DEF FetchHalt, FsmType
<1>11. CASE FetchStepDone
  BY <1>1, <1>8, <1>11 DEF FetchStepDone, FsmType
<1>12. CASE FetchStraddle
  BY <1>5, <1>12 DEF FetchStraddle, State
<1>13. CASE \E i \in Instrs : Fetch(i) \/ Fetch2(i)
  BY <1>7, <1>13 DEF Fetch, Fetch2
<1>14. CASE ExecEbreak
  BY <1>1, <1>8, <1>14 DEF ExecEbreak, FsmType
<1>15. CASE ExecLoad \/ ExecMd \/ ExecStoreBeat \/ LoadBeat
  BY <1>5, <1>15 DEF ExecLoad, ExecMd, ExecStoreBeat, LoadBeat, State
<1>16. CASE ExecStore \/ ExecOther \/ Load \/ Load2 \/ Store2 \/ Md
  BY <1>6, <1>16 DEF ExecStore, ExecOther, Load, Load2, Store2, Md
<1>17. CASE MdWait \/ Halted
  BY <1>4, <1>17 DEF MdWait, Halted
<1>18. CASE Resume
  BY <1>1, <1>2, <1>18, TypeSplit DEF Resume, FsmType, SideType, State
<1>19. QED
  BY <1>9, <1>10, <1>11, <1>12, <1>13, <1>14, <1>15, <1>16, <1>17, <1>18 DEF Tick

LEMMA TickIsClocked == ASSUME Tick PROVE Clocked
BY DEF Tick, BusWait, FetchHalt, FetchStepDone, FetchStraddle, Fetch, Fetch2,
       ExecEbreak, ExecLoad, ExecMd, ExecStoreBeat, ExecStore, ExecOther, Load,
       LoadBeat, Load2, Store2, MdWait, Md, Halted, Resume, Stay, Goto, Finish

LEMMA TypeReset == ASSUME TypeOK, Reset PROVE TypeOK'
<1>1. 0 \in PC /\ ResetPC \in PC /\ 0 \in Val /\ NoBeats \in [{0, 1} -> 0 .. 2]
  BY IsaAssumption, CoreAssumption DEF NoBeats
<1>2. /\ mem_stall' \in BOOLEAN /\ irq' \in SUBSET IrqLines
      /\ dbg_haltreq' \in BOOLEAN /\ dbg_resumereq' \in BOOLEAN
      /\ dbg_ar' \in ArReqs \cup {NoAr}
  BY EnvironmentType, TypeSplit DEF Reset
<1>3. FsmType'
  BY <1>1, ResetType DEF Reset, FsmType, State
<1>4. SideType'
  BY <1>1, <1>2, ResetType, RegFileType DEF Reset, SideType, TypeOK
<1>5. QED
  BY <1>3, <1>4, TypeSplit

LEMMA TypeInit == ASSUME Init PROVE TypeOK
<1>1. 0 \in PC /\ ResetPC \in PC /\ 0 \in Val /\ NoBeats \in [{0, 1} -> 0 .. 2]
  BY IsaAssumption, CoreAssumption DEF NoBeats
<1>2. 0 \in 0 .. DivBits - 1
  BY CoreAssumption
<1>3. FsmType
  BY <1>1, ResetType DEF Init, FsmType, State
<1>4. SideType
  BY <1>1, <1>2, ResetType, CoreAssumption DEF Init, SideType, MdOp
<1>5. QED
  BY <1>3, <1>4, TypeSplit

LEMMA TypeStutter == ASSUME TypeOK, UNCHANGED vars PROVE TypeOK'
BY DEF TypeOK, vars, fsm, debug, muldiv, inputs, hist

(* Every register of the core keeps its type, for every program, bus,      *)
(* interrupt and debugger behaviour.                                       *)
THEOREM TypeCorrect == Spec => []TypeOK
<1>1. Init => TypeOK
  BY TypeInit
<1>2. TypeOK /\ [Next]_vars => TypeOK'
  <2>1. ASSUME TypeOK, Tick PROVE TypeOK'
    BY <2>1, FsmTypeTick, TickIsClocked, ClockedType, TypeSplit
  <2>2. QED
    BY <2>1, TypeReset, TypeStutter DEF Next
<1>3. QED
  BY <1>1, <1>2, PTL DEF Spec

-----------------------------------------------------------------------------
(* The core and its data bus.                                              *)

First == [w \in {0, 1} |-> IF w = 0 THEN 1 ELSE 0]

(* The inductive invariant: which instruction occupies each state of the   *)
(* FSM and how many of its beats the bus has taken; a bus that is not      *)
(* ready has been asked; debug mode is the state of a parked hart.         *)
BusInv ==
  /\ mem_stall => mem_req
  /\ dbg_mode <=> state = "HALTED"
  /\ state \in {"LOAD", "LOAD2"} => isLoad
  /\ state = "STORE2" => isStore
  /\ state = "MD" => isMd
  /\ state \in {"LOAD2", "STORE2"} => mis
  /\ beats = IF state \in {"LOAD2", "STORE2"} THEN First ELSE NoBeats

(* What an edge does to the history of beats: a cycle of the bus that is   *)
(* not answered adds none, and a retirement empties it.                    *)
LEMMA BeatFacts ==
  /\ NoBeats # First
  /\ mem_stall \/ ~(dmem_re \/ dmem_we) => Beat = NoBeats
  /\ ~mem_stall /\ (dmem_re \/ dmem_we) /\ state \notin {"LOAD2", "STORE2"}
       => Beat = First
  /\ ~mem_stall /\ state \in {"LOAD2", "STORE2"}
       => Beat = [w \in {0, 1} |-> IF w = 1 THEN 1 ELSE 0]
<1>1. NoBeats[0] # First[0]
  BY DEF NoBeats, First
<1>2. QED
  BY <1>1 DEF Beat, First, NoBeats, dmem_re, dmem_we

LEMMA SoFarFacts ==
  /\ beats = NoBeats /\ Beat = NoBeats => BeatsSoFar = NoBeats
  /\ beats = NoBeats /\ Beat = First => BeatsSoFar = First
  /\ beats = First /\ Beat = NoBeats => BeatsSoFar = First
  /\ beats = First /\ Beat = [w \in {0, 1} |-> IF w = 1 THEN 1 ELSE 0]
       => BeatsSoFar = [w \in {0, 1} |-> 1]
BY DEF BeatsSoFar, NoBeats, First

(* The edge's effect on beats, by what the FSM does.                       *)
LEMMA BeatsStay ==
  ASSUME BusInv, Clocked, mem_stall, UNCHANGED fsm, ~commit
  PROVE  beats' = beats
<1>1. beats' = BeatsSoFar
  BY DEF Clocked, History
<1>2. QED
  BY <1>1, BeatFacts, SoFarFacts DEF BusInv

LEMMA BeatsNone ==
  ASSUME BusInv, Clocked, ~(dmem_re \/ dmem_we),
         state \notin {"LOAD2", "STORE2"}
  PROVE  beats' = NoBeats
BY BeatFacts, SoFarFacts DEF BusInv, Clocked, History

LEMMA BeatsRetire ==
  ASSUME Clocked, commit PROVE beats' = NoBeats
BY DEF Clocked, History

LEMMA BusInvStep == ASSUME TypeOK, BusInv, Tick PROVE BusInv'
<1>1. Clocked /\ (mem_stall' => mem_req')
  BY TickIsClocked DEF Clocked, Environment
<1>2. CASE BusWait
  <2>1. ~commit /\ UNCHANGED <<fsm, dbg_mode>>
    BY <1>2 DEF BusWait, Stay, Running, commit, exec_done, is_store_ex, fsm
  <2>2. beats' = beats
    BY <1>1, <1>2, <2>1, BeatsStay DEF BusWait
  <2>3. QED
    BY <1>1, <2>1, <2>2 DEF BusInv, fsm, isLoad, isStore, isMd, mis
<1>3. CASE FetchHalt \/ FetchStepDone
  <2>1. state = "FETCH" /\ state' = "HALTED" /\ dbg_mode'
    BY <1>3 DEF FetchHalt, FetchStepDone, Halt
  <2>2. beats' = NoBeats
    BY <1>1, <2>1, BeatsNone DEF dmem_re, dmem_we, is_store_ex
  <2>3. QED
    BY <1>1, <2>1, <2>2 DEF BusInv
<1>4. CASE FetchStraddle \/ \E i \in Instrs : Fetch(i) \/ Fetch2(i)
  <2>1. /\ state \in {"FETCH", "FETCH2"} /\ state' \in {"FETCH2", "EXEC"}
        /\ dbg_mode' = dbg_mode
    BY <1>4 DEF FetchStraddle, Fetches, Fetch, Fetch2, Goto, Running
  <2>2. beats' = NoBeats
    BY <1>1, <2>1, BeatsNone DEF dmem_re, dmem_we, is_store_ex
  <2>3. QED
    BY <1>1, <2>1, <2>2 DEF BusInv
<1>5. CASE ExecEbreak
  <2>1. state = "EXEC" /\ state' = "HALTED" /\ dbg_mode' /\ ~isStore
    BY <1>5 DEF ExecEbreak, ebreak_to_debug, Halt, isStore
  <2>2. beats' = NoBeats
    BY <1>1, <2>1, BeatsNone DEF dmem_re, dmem_we, is_store_ex
  <2>3. QED
    BY <1>1, <2>1, <2>2 DEF BusInv
<1>6. CASE ExecLoad \/ ExecMd
  <2>1. /\ state = "EXEC" /\ dbg_mode' = dbg_mode /\ instr' = instr
        /\ \/ state' = "LOAD" /\ isLoad
           \/ state' = "MD" /\ isMd
    <3>1. ASSUME ExecLoad PROVE <2>1
      BY <3>1 DEF ExecLoad, Goto, Running
    <3>2. ASSUME ExecMd PROVE <2>1
      BY <3>2 DEF ExecMd, Goto, Running
    <3>3. QED
      BY <1>6, <3>1, <3>2
  <2>2. ~isStore
    BY <2>1 DEF isLoad, isMd, isStore, MdOp
  <2>3. beats' = NoBeats
    BY <1>1, <2>1, <2>2, BeatsNone DEF dmem_re, dmem_we, is_store_ex
  <2>4. QED
    BY <1>1, <2>1, <2>3 DEF BusInv, isLoad, isMd
<1>7. CASE ExecStoreBeat
  <2>1. /\ is_store_ex /\ state = "EXEC" /\ isStore /\ mis /\ ~mem_stall
        /\ state' = "STORE2" /\ dbg_mode' = dbg_mode /\ instr' = instr
    BY <1>7 DEF ExecStoreBeat, is_store_ex, Goto, Running
  <2>2. ~commit
    BY <2>1 DEF commit, exec_done
  <2>3. beats' = First
    BY <1>1, <2>1, <2>2, BeatFacts, SoFarFacts
       DEF BusInv, Clocked, History, dmem_we
  <2>4. QED
    BY <1>1, <2>1, <2>3 DEF BusInv, isStore, mis
<1>8. CASE ExecStore
  <2>1. /\ commit /\ state = "EXEC" /\ state' = "FETCH" /\ dbg_mode' = dbg_mode
    BY <1>8 DEF ExecStore, is_store_ex, isStore, isLoad, isMd, MdOp, commit,
                exec_done, ebreak_to_debug, Finish, Running
  <2>2. QED
    BY <1>1, <2>1, BeatsRetire DEF BusInv
<1>9. CASE ExecOther
  <2>1. /\ state = "EXEC" /\ ~is_store_ex /\ state' = "FETCH"
        /\ dbg_mode' = dbg_mode
    BY <1>9 DEF ExecOther, is_store_ex, Finish, Running
  <2>2. beats' = NoBeats
    BY <1>1, <2>1, BeatsNone DEF dmem_re, dmem_we
  <2>3. QED
    BY <1>1, <2>1, <2>2 DEF BusInv
<1>10. CASE Load \/ Load2 \/ Store2 \/ Md
  <2>1. /\ commit /\ state # "HALTED" /\ state' = "FETCH"
        /\ dbg_mode' = dbg_mode
    BY <1>10 DEF Load, Load2, Store2, Md, commit, Finish, Running
  <2>2. QED
    BY <1>1, <2>1, BeatsRetire DEF BusInv
<1>11. CASE LoadBeat
  <2>1. /\ state = "LOAD" /\ mis /\ ~mem_stall /\ state' = "LOAD2"
        /\ dbg_mode' = dbg_mode /\ instr' = instr
    BY <1>11 DEF LoadBeat, Goto, Running
  <2>2. ~commit
    BY <2>1 DEF commit, exec_done
  <2>3. beats' = First
    BY <1>1, <2>1, <2>2, BeatFacts, SoFarFacts
       DEF BusInv, Clocked, History, dmem_re
  <2>4. QED
    BY <1>1, <2>1, <2>3 DEF BusInv, isLoad, mis
<1>12. CASE MdWait \/ Halted
  <2>1. state \in {"MD", "HALTED"} /\ UNCHANGED <<fsm, dbg_mode>>
    BY <1>12 DEF MdWait, Halted, Stay, Running
  <2>2. beats' = NoBeats
    BY <1>1, <2>1, BeatsNone DEF dmem_re, dmem_we, is_store_ex
  <2>3. QED
    BY <1>1, <2>1, <2>2 DEF BusInv, fsm, isLoad, isStore, isMd, mis
<1>13. CASE Resume
  <2>1. state = "HALTED" /\ state' = "FETCH" /\ dbg_mode' = FALSE
    BY <1>13 DEF Resume
  <2>2. beats' = NoBeats
    BY <1>1, <2>1, BeatsNone DEF dmem_re, dmem_we, is_store_ex
  <2>3. QED
    BY <1>1, <2>1, <2>2 DEF BusInv
<1>14. QED
  BY <1>2, <1>3, <1>4, <1>5, <1>6, <1>7, <1>8, <1>9, <1>10, <1>11, <1>12, <1>13
     DEF Tick

LEMMA BusInvOther ==
  /\ Init => BusInv
  /\ Reset => BusInv'
  /\ BusInv /\ UNCHANGED vars => BusInv'
<1>1. Init => BusInv
  BY DEF Init, BusInv, mem_req
<1>2. Reset => BusInv'
  BY DEF Reset, Environment, BusInv
<1>3. BusInv /\ UNCHANGED vars => BusInv'
  BY DEF BusInv, vars, fsm, debug, inputs, hist, mem_req, is_store_ex, ex_trap,
         isLoad, isStore, isMd, mis
<1>4. QED
  BY <1>1, <1>2, <1>3

(* BusInv: which instruction can be in which state of the FSM, with how    *)
(* many of its beats done, for every bus, interrupt and debugger.          *)
THEOREM BusInvariant == Spec => [](TypeOK /\ BusInv)
<1>1. TypeOK /\ BusInv /\ [Next]_vars => BusInv'
  BY BusInvStep, BusInvOther DEF Next
<1>2. QED
  BY <1>1, BusInvOther, TypeCorrect, PTL DEF Spec

(* An instruction retires with exactly its data beats accepted, whatever   *)
(* the wait states.                                                        *)
THEOREM BeatsOnce == Spec => []BeatsExactlyOnce
<1>1. ASSUME BusInv PROVE state \in {"FETCH", "HALTED"} => beats = NoBeats
  BY <1>1 DEF BusInv
<1>2. ASSUME BusInv, commit PROVE BeatsSoFar = Required
  <2>1. CASE exec_done
    <3>1. state = "EXEC" /\ beats = NoBeats
      BY <1>2, <2>1 DEF exec_done, BusInv
    <3>2. CASE is_store_ex
      <4>1. ~mem_stall /\ ~mis /\ instr.op = "store" /\ ~ex_trap
        BY <2>1, <3>2 DEF exec_done, is_store_ex, isStore
      <4>2. Beat = First
        BY <3>1, <3>2, <4>1, BeatFacts DEF dmem_we
      <4>3. Required = First
        BY <4>1 DEF Required, First, MemOp
      <4>4. QED
        BY <3>1, <4>2, <4>3, SoFarFacts
    <3>3. CASE ~is_store_ex
      <4>1. instr.op \in MemOp => ex_trap
        BY <2>1, <3>1, <3>3 DEF exec_done, is_store_ex, isStore, isLoad, MemOp
      <4>2. Required = NoBeats
        BY <4>1 DEF Required, NoBeats
      <4>3. Beat = NoBeats
        BY <3>1, <3>3, BeatFacts DEF dmem_re, dmem_we
      <4>4. QED
        BY <3>1, <4>2, <4>3, SoFarFacts
    <3>4. QED
      BY <3>2, <3>3
  <2>2. CASE state = "LOAD" /\ ~mis /\ ~mem_stall
    <3>1. instr.op = "load" /\ ~ex_trap /\ beats = NoBeats
      BY <1>2, <2>2 DEF BusInv, isLoad, ex_trap
    <3>2. Beat = First
      BY <2>2, BeatFacts DEF dmem_re
    <3>3. Required = First
      BY <2>2, <3>1 DEF Required, First, MemOp
    <3>4. QED
      BY <3>1, <3>2, <3>3, SoFarFacts
  <2>3. CASE state \in {"LOAD2", "STORE2"} /\ ~mem_stall
    <3>1. instr.op \in MemOp /\ mis /\ ~ex_trap /\ beats = First
      BY <1>2, <2>3 DEF BusInv, isLoad, isStore, MemOp, ex_trap
    <3>2. Required = [w \in {0, 1} |-> 1]
      BY <3>1 DEF Required
    <3>3. QED
      BY <2>3, <3>1, <3>2, BeatFacts, SoFarFacts
  <2>4. CASE state = "MD" /\ md_done
    <3>1. instr.op \notin MemOp /\ beats = NoBeats
      BY <1>2, <2>4 DEF BusInv, isMd, MdOp, MemOp
    <3>2. Required = NoBeats
      BY <3>1 DEF Required, NoBeats
    <3>3. Beat = NoBeats
      BY <2>4, BeatFacts DEF dmem_re, dmem_we, is_store_ex
    <3>4. QED
      BY <3>1, <3>2, <3>3, SoFarFacts
  <2>5. QED
    BY <1>2, <2>1, <2>2, <2>3, <2>4 DEF commit
<1>3. BusInv => BeatsExactlyOnce
  BY <1>1, <1>2 DEF BeatsExactlyOnce
<1>4. QED
  BY <1>3, BusInvariant, PTL

(* Between two edges without an answer the request on the bus is the same. *)
LEMMA RequestHeld ==
  ASSUME BusInv, Tick, mem_req, mem_stall PROVE mem_req' /\ request' = request
<1>1. BusWait
  <2>1. \/ state \in {"FETCH", "FETCH2", "LOAD", "LOAD2", "STORE2"}
        \/ is_store_ex
    BY DEF mem_req
  <2>2. ~(\E i \in Instrs : Fetch(i) \/ Fetch2(i))
    BY DEF Fetch, Fetches, Fetch2
  <2>3. ~(FetchHalt \/ FetchStepDone \/ FetchStraddle)
    BY DEF FetchHalt, FetchStepDone, FetchStraddle, Fetches
  <2>4. ~(ExecEbreak \/ ExecLoad \/ ExecMd \/ ExecStoreBeat \/ ExecStore)
    BY <2>1 DEF is_store_ex, isStore, isLoad, isMd, MdOp, ExecEbreak,
                ebreak_to_debug, ExecLoad, ExecMd, ExecStoreBeat, ExecStore
  <2>5. ~ExecOther
    BY <2>1 DEF is_store_ex, ExecOther
  <2>6. ~(Load \/ LoadBeat \/ Load2 \/ Store2)
    BY DEF Load, LoadBeat, Load2, Store2
  <2>7. ~(MdWait \/ Md \/ Halted \/ Resume)
    BY <2>1 DEF is_store_ex, MdWait, Md, Halted, Resume
  <2>8. QED
    BY <2>2, <2>3, <2>4, <2>5, <2>6, <2>7 DEF Tick
<1>2. UNCHANGED <<state, pc, instr>> /\ Clocked /\ state # "HALTED"
  BY <1>1 DEF BusWait, Stay, fsm, is_store_ex
<1>3. gpr' = gpr
  <2>1. ~commit
    BY <1>1 DEF BusWait, commit, exec_done, is_store_ex
  <2>2. ~Poked("gpr")
    BY <1>2 DEF Poked, dbg_do, BusInv
  <2>3. QED
    BY <1>2, <2>1, <2>2 DEF Clocked, RegFile, rf_we
<1>4. is_store_ex' <=> is_store_ex
  BY <1>2 DEF is_store_ex, ex_trap, Excepts, isStore
<1>5. QED
  BY <1>2, <1>3, <1>4 DEF mem_req, request, dmem_re, dmem_we

(* A request the bus has not accepted stays as it is until it does.        *)
THEOREM RequestStable == Spec => BusRequestStable
<1>1. BusInv /\ [Next]_vars =>
        [mem_req /\ mem_stall => Reset \/ (mem_req' /\ request' = request)]_vars
  BY RequestHeld DEF Next
<1>2. QED
  BY <1>1, BusInvariant, PTL DEF Spec, BusRequestStable

-----------------------------------------------------------------------------
(* Exceptions, retirement order and the multiplier.  The code drops the    *)
(* exceptions Drops describes; programs without one keep three promises.   *)

NoDrops == \A i \in Instrs : ~Drops(i)

(* What such a program adds to the inductive invariant: the instruction in *)
(* EXEC came from the program; the multiplier works for MD and is at rest  *)
(* otherwise; the last retirement told where the hart now is.              *)
FlowInv ==
  /\ state = "EXEC" => instr \in Instrs
  /\ state # "MD" => md_state = "IDLE" /\ ~md_done
  /\ state = "MD" => /\ md_op = instr.op /\ md_a = gpr
                     /\ md_done <=> md_state = "IDLE"
                     /\ md_done => md_result = MdF[md_op][md_a]
  /\ have_prev /\ ~dbg_mode => pc = prev_pc_wdata

LEMMA FlowFetched ==
  ASSUME FlowInv, Tick PROVE state' = "EXEC" => instr' \in Instrs
BY DEF FlowInv, Tick, BusWait, FetchHalt, FetchStepDone, FetchStraddle, Fetch,
       Fetch2, ExecEbreak, ExecLoad, ExecMd, ExecStoreBeat, ExecStore, ExecOther,
       Load, LoadBeat, Load2, Store2, MdWait, Md, Halted, Resume, Stay, Goto,
       Finish, Halt, fsm

(* Without dropped exceptions, leaving EXEC other than for a later state   *)
(* of the same instruction, or for the debugger, is a retirement.          *)
LEMMA OtherCommits ==
  ASSUME NoDrops, BusInv, FlowInv, ExecOther PROVE commit
<1>1. state = "EXEC" /\ ~ebreak_to_debug /\ ~Drops(instr)
  BY DEF NoDrops, FlowInv, ExecOther
<1>2. ~isLoad /\ ~isMd /\ ~(isStore /\ mis)
  BY <1>1 DEF ExecOther, Drops, ex_trap, Excepts, isLoad, isMd, isStore, mis, MdOp
<1>3. ~(isStore /\ mem_stall)
  BY <1>1 DEF ExecOther, BusInv, mem_req, is_store_ex
<1>4. QED
  BY <1>1, <1>2, <1>3 DEF commit, exec_done

LEMMA FinishCommits ==
  ASSUME NoDrops, BusInv, FlowInv,
         ExecOther \/ ExecStore \/ Load \/ Load2 \/ Store2 \/ Md
  PROVE  commit /\ Finish
<1>1. CASE ExecOther
  BY <1>1, OtherCommits DEF ExecOther
<1>2. CASE ExecStore
  BY <1>2 DEF ExecStore, is_store_ex, isStore, isLoad, isMd, MdOp, commit,
              exec_done, ebreak_to_debug
<1>3. CASE Load \/ Load2 \/ Store2 \/ Md
  BY <1>3 DEF Load, Load2, Store2, Md, commit
<1>4. QED
  BY <1>1, <1>2, <1>3

LEMMA FlowRetire ==
  ASSUME NoDrops, TypeOK, BusInv, FlowInv, Tick
  PROVE  have_prev' /\ ~dbg_mode' => pc' = prev_pc_wdata'
<1>1. /\ prev_pc_wdata' = IF commit THEN next_pc ELSE prev_pc_wdata
      /\ have_prev' = (commit \/ (have_prev /\ ~dbg_mode))
  BY TickIsClocked DEF Clocked, History
<1>2. CASE ExecOther \/ ExecStore \/ Load \/ Load2 \/ Store2 \/ Md
  BY <1>1, <1>2, FinishCommits DEF Finish
<1>3. CASE FetchHalt \/ FetchStepDone \/ ExecEbreak
  BY <1>3 DEF FetchHalt, FetchStepDone, ExecEbreak, Halt
<1>4. CASE Resume
  <2>1. dbg_mode \/ ~have_prev'
    BY <1>4, <1>1 DEF Resume, BusInv, commit, exec_done
  <2>2. QED
    BY <1>1, <1>4, <2>1 DEF Resume, commit, exec_done
<1>5. CASE \/ BusWait \/ FetchStraddle \/ ExecLoad \/ ExecMd \/ ExecStoreBeat
           \/ LoadBeat \/ MdWait \/ Halted
           \/ \E i \in Instrs : Fetch(i) \/ Fetch2(i)
  <2>1. pc' = pc /\ dbg_mode' = dbg_mode
    BY <1>5 DEF BusWait, FetchStraddle, ExecLoad, ExecMd, ExecStoreBeat, LoadBeat,
                MdWait, Halted, Fetch, Fetch2, Stay, Goto, Running, fsm
  <2>2. ~commit
    BY <1>5 DEF BusWait, FetchStraddle, Fetches, ExecLoad, ExecMd, ExecStoreBeat,
                LoadBeat, MdWait, Halted, Fetch, Fetch2, is_store_ex, commit,
                exec_done
  <2>3. QED
    BY <1>1, <2>1, <2>2 DEF FlowInv
<1>6. QED
  BY <1>2, <1>3, <1>4, <1>5 DEF Tick

(* The multiplier: it starts when EXEC hands over to MD, and rests again   *)
(* when MD retires.                                                        *)
LEMMA FlowMd ==
  ASSUME NoDrops, TypeOK, BusInv, FlowInv, Tick
  PROVE  /\ state' # "MD" => md_state' = "IDLE" /\ ~md_done'
         /\ state' = "MD" => /\ md_op' = instr'.op /\ md_a' = gpr'
                             /\ md_done' <=> md_state' = "IDLE"
                             /\ md_done' => md_result' = MdF[md_op'][md_a']
<1>1. MulDiv /\ RegFile
  BY TickIsClocked DEF Clocked
<1>2. CASE ExecMd
  <2>1. /\ state = "EXEC" /\ isMd /\ state' = "MD" /\ instr' = instr
        /\ md_state = "IDLE"
    BY <1>2 DEF ExecMd, Goto, FlowInv
  <2>2. /\ md_state' \in {"MUL", "DIV"} /\ md_op' = instr.op /\ md_a' = gpr
        /\ ~md_done'
    BY <1>1, <2>1 DEF MulDiv
  <2>3. gpr' = gpr
    <3>1. ~commit
      BY <2>1 DEF commit, exec_done
    <3>2. ~Poked("gpr")
      BY <2>1 DEF Poked, dbg_do, BusInv
    <3>3. QED
      BY <1>1, <3>1, <3>2 DEF RegFile, rf_we
  <2>4. QED
    BY <2>1, <2>2, <2>3
<1>3. CASE MdWait
  <2>1. /\ state = "MD" /\ state' = "MD" /\ instr' = instr
        /\ ~md_done /\ md_state # "IDLE" /\ md_op = instr.op /\ md_a = gpr
    BY <1>3 DEF MdWait, Stay, fsm, FlowInv
  <2>2. gpr' = gpr
    <3>1. ~commit
      BY <2>1 DEF commit, exec_done
    <3>2. ~Poked("gpr")
      BY <2>1 DEF Poked, dbg_do, BusInv
    <3>3. QED
      BY <1>1, <3>1, <3>2 DEF RegFile, rf_we
  <2>3. CASE md_done'
    <3>1. /\ md_state' = "IDLE" /\ md_result' = MdF[md_op][md_a]
          /\ md_op' = md_op /\ md_a' = md_a
      BY <1>1, <2>1, <2>3 DEF MulDiv
    <3>2. QED
      BY <2>1, <2>2, <2>3, <3>1
  <2>4. CASE ~md_done'
    <3>1. md_state' \in {"DIV", "FIN"} /\ md_op' = md_op /\ md_a' = md_a
      BY <1>1, <2>1, <2>4 DEF MulDiv
    <3>2. QED
      BY <2>1, <2>2, <2>4, <3>1
  <2>5. QED
    BY <2>3, <2>4
<1>4. CASE Md
  <2>1. state = "MD" /\ md_state = "IDLE" /\ state' = "FETCH"
    BY <1>4 DEF Md, Finish, FlowInv
  <2>2. md_state' = "IDLE" /\ ~md_done'
    BY <1>1, <2>1 DEF MulDiv
  <2>3. QED
    BY <2>1, <2>2
<1>5. CASE ~(ExecMd \/ MdWait \/ Md)
  <2>1. /\ state # "MD" /\ state' # "MD" /\ ~(state = "EXEC" /\ isMd)
    <3>1. CASE ExecOther
      BY <3>1, OtherCommits DEF ExecOther, Finish, commit, exec_done
    <3>2. CASE ~ExecOther
      BY <1>5, <3>2 DEF Tick, BusWait, FetchHalt, FetchStepDone, FetchStraddle,
         Fetches, Fetch, Fetch2, ExecEbreak, ebreak_to_debug, ExecLoad,
         ExecStoreBeat, ExecStore, is_store_ex, isLoad, isStore, isMd, MdOp,
         Load, LoadBeat, Load2, Store2, Halted, Resume, Stay, Goto, Finish, Halt,
         fsm
    <3>3. QED
      BY <3>1, <3>2
  <2>2. md_state' = "IDLE" /\ ~md_done'
    BY <1>1, <2>1 DEF MulDiv, FlowInv
  <2>3. QED
    BY <2>1, <2>2
<1>6. QED
  BY <1>2, <1>3, <1>4, <1>5

LEMMA FlowOther ==
  /\ Init => FlowInv
  /\ Reset => FlowInv'
  /\ FlowInv /\ UNCHANGED vars => FlowInv'
<1>1. Init => FlowInv
  BY DEF Init, FlowInv
<1>2. Reset => FlowInv'
  BY DEF Reset, FlowInv
<1>3. FlowInv /\ UNCHANGED vars => FlowInv'
  BY DEF FlowInv, vars, fsm, debug, muldiv, hist
<1>4. QED
  BY <1>1, <1>2, <1>3

(* FlowInv: the multiplier is at rest when an instruction starts it, and   *)
(* the hart is where its last retirement said, if no exception is dropped. *)
THEOREM FlowInvariant ==
  ASSUME NoDrops PROVE Spec => [](TypeOK /\ BusInv /\ FlowInv)
<1>1. ASSUME TypeOK, BusInv, FlowInv, Tick PROVE FlowInv'
  BY <1>1, FlowFetched, FlowRetire, FlowMd DEF FlowInv
<1>2. TypeOK /\ BusInv /\ FlowInv /\ [Next]_vars => FlowInv'
  BY <1>1, FlowOther DEF Next
<1>3. QED
  BY <1>2, FlowOther, BusInvariant, PTL DEF Spec

(* What a multiply or divide writes back is the result of its own operand. *)
THEOREM MdFresh == ASSUME NoDrops PROVE Spec => []MdResultFresh
<1>1. FlowInv => MdResultFresh
  BY DEF FlowInv, MdResultFresh
<1>2. QED
  BY <1>1, FlowInvariant, PTL

(* Each retired instruction is the one the retirement before it announced. *)
THEOREM RetireInOrder == ASSUME NoDrops PROVE Spec => []RvfiPcConsistent
<1>1. BusInv /\ FlowInv => RvfiPcConsistent
  BY DEF BusInv, FlowInv, RvfiPcConsistent, commit, exec_done
<1>2. QED
  BY <1>1, FlowInvariant, PTL

(* An instruction that raises an exception and leaves EXEC is in the trap  *)
(* handler, its own pc in mepc: Drops misses no lost exception.            *)
THEOREM TrapsArePrecise == ASSUME NoDrops PROVE Spec => ExceptionsTrap
<1>1. ASSUME TypeOK, BusInv, FlowInv, Tick, ex_trap, state' \notin {"EXEC", "HALTED"}
      PROVE  pc' = csr.mtvec /\ csr'.mepc = pc
  <2>1. ExecOther
    <3>1. state = "EXEC" /\ ~Drops(instr)
      BY <1>1 DEF ex_trap, NoDrops, FlowInv
    <3>2. ~BusWait
      BY <1>1, <3>1 DEF BusWait, is_store_ex
    <3>3. ~ExecEbreak
      BY <1>1 DEF ExecEbreak, Halt
    <3>4. QED
      BY <1>1, <3>1, <3>2, <3>3 DEF Tick, FetchHalt, FetchStepDone, FetchStraddle,
         Fetches, Fetch, Fetch2, ExecLoad, ExecMd, ExecStoreBeat, ExecStore,
         is_store_ex, Load, LoadBeat, Load2, Store2, MdWait, Md, Halted, Resume
  <2>2. commit /\ Finish
    BY <1>1, <2>1, FinishCommits
  <2>3. pc' = csr.mtvec
    BY <1>1, <2>2 DEF Finish, next_pc, take_irq, seq_next
  <2>4. csr' = TrapEntry(csr, pc, Exception(instr, csr.priv))
    BY <1>1, <2>2 DEF Finish, Clocked, CsrClocked
  <2>5. csr'.mepc = pc
    BY <1>1, <2>4 DEF TrapEntry, TypeOK, CsrFile
  <2>6. QED
    BY <2>3, <2>5
<1>2. TypeOK /\ BusInv /\ FlowInv /\ [Next]_vars =>
        [ex_trap /\ state' \notin {"EXEC", "HALTED"} =>
           Reset \/ (pc' = csr.mtvec /\ csr'.mepc = pc)]_vars
  BY <1>1 DEF Next
<1>3. QED
  BY <1>2, FlowInvariant, PTL DEF Spec, ExceptionsTrap
=============================================================================
