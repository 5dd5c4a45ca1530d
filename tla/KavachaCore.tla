---------------------------- MODULE KavachaCore -----------------------------
(***************************************************************************)
(* The Kavacha multi-cycle core (kavacha_core.sv) with its multiply/divide *)
(* unit and CSR file, one step per clock cycle.  Registers are variables;  *)
(* the RTL's wires are state functions of the same name; every FSM action  *)
(* ends in Clocked, what the other always_ff blocks do on that edge.       *)
(*                                                                         *)
(* Inputs are variables too: what the bus, the interrupt lines and the     *)
(* debug module drive in the current cycle.                                *)
(***************************************************************************)
EXTENDS KavachaIsa

CONSTANTS
  DivBits,    \* quotient bits, one cycle each (32 in the code)
  Debugger,   \* a debug module is attached (dbg_haltreq is not tied low)
  ArReqs,     \* the Access Register requests of the debugger
  NoAr        \* no request: dbg_ar_valid is low

ArReq == [write : BOOLEAN, sel : {"gpr", "dcsr", "dpc", "csr"},
          v : Val, ebreakm : BOOLEAN, step : BOOLEAN, dpc : PC, w : CsrWrite]

ASSUME CoreAssumption == /\ DivBits \in Nat \ {0}
                         /\ Debugger \in BOOLEAN
                         /\ ArReqs \subseteq ArReq
                         /\ NoAr \notin ArReqs
                         /\ 0 \in Val

VARIABLES
  state, pc, instr,                       \* the FSM and the instruction
  dbg_mode, dpc, dcsr_ebreakm, dcsr_step, dcsr_cause,
  dbg_ar_busy, dbg_ar_done,
  step_pending, step_seen,
  gpr, csr,
  md_state, md_op, md_a, bit_idx, md_done, md_result,
  mem_stall, irq, dbg_haltreq, dbg_resumereq, dbg_ar,     \* inputs
  beats,        \* history: data beats of this instruction accepted, by word
  prev_pc_wdata, have_prev      \* history: the retire monitor of tb_kavacha_rvfi

fsm    == <<state, pc, instr>>
debug  == <<dbg_mode, dpc, dcsr_ebreakm, dcsr_step, dcsr_cause, dbg_ar_busy,
            dbg_ar_done, step_pending, step_seen>>
muldiv == <<md_state, md_op, md_a, bit_idx, md_done, md_result>>
inputs == <<mem_stall, irq, dbg_haltreq, dbg_resumereq, dbg_ar>>
hist   == <<beats, prev_pc_wdata, have_prev>>
vars   == <<fsm, debug, gpr, csr, muldiv, inputs, hist>>

State == {"FETCH", "EXEC", "LOAD", "MD", "FETCH2", "LOAD2", "STORE2", "HALTED"}

TypeOK ==
  /\ state \in State /\ pc \in PC /\ instr \in Instr
  /\ dbg_mode \in BOOLEAN /\ dpc \in PC
  /\ dcsr_ebreakm \in BOOLEAN /\ dcsr_step \in BOOLEAN /\ dcsr_cause \in {0, 1, 3, 4}
  /\ dbg_ar_busy \in BOOLEAN /\ dbg_ar_done \in BOOLEAN
  /\ step_pending \in BOOLEAN /\ step_seen \in BOOLEAN
  /\ gpr \in Val /\ csr \in CsrFile
  /\ md_state \in {"IDLE", "MUL", "DIV", "FIN"} /\ md_op \in MdOp /\ md_a \in Val
  /\ bit_idx \in 0 .. DivBits - 1 /\ md_done \in BOOLEAN /\ md_result \in Val
  /\ mem_stall \in BOOLEAN /\ irq \in SUBSET IrqLines
  /\ dbg_haltreq \in BOOLEAN /\ dbg_resumereq \in BOOLEAN
  /\ dbg_ar \in ArReqs \cup {NoAr}
  /\ beats \in [{0, 1} -> 0 .. 2] /\ prev_pc_wdata \in PC /\ have_prev \in BOOLEAN

-----------------------------------------------------------------------------
(* Wires.                                                                  *)

isLoad  == instr.op = "load"
isStore == instr.op = "store"
isMd    == instr.op \in MdOp
mis     == instr.mis

dbg_halted == state = "HALTED"
dbg_do     == dbg_mode /\ dbg_ar # NoAr /\ ~dbg_ar_busy

ebreak_to_debug ==
  state = "EXEC" /\ instr.op = "ebreak" /\ dcsr_ebreakm /\ ~dbg_mode

ex_trap == state = "EXEC" /\ Excepts(instr, dcsr_ebreakm)

is_store_ex == state = "EXEC" /\ isStore /\ ~ex_trap

dmem_re == state \in {"LOAD", "LOAD2"}
dmem_we == is_store_ex \/ state = "STORE2"
mem_req == state \in {"FETCH", "FETCH2", "LOAD", "LOAD2", "STORE2"} \/ is_store_ex

(* What the core asks of the bus: the kind of access, which word of the    *)
(* two, and what address, strobes and data are computed from.              *)
request == <<dmem_re, dmem_we, state \in {"FETCH2", "LOAD2", "STORE2"},
             IF dmem_re \/ dmem_we THEN <<gpr, instr>> ELSE <<pc>> >>

(* mutant: a store retires although the bus has not taken it *)
exec_done_stalled == /\ state = "EXEC" /\ ~isLoad /\ ~isMd /\ ~ebreak_to_debug
                     /\ ~(isStore /\ mis)

(* mutant: a misaligned store retires with its first beat *)
exec_done_beat0 == /\ state = "EXEC" /\ ~isLoad /\ ~isMd /\ ~ebreak_to_debug
                   /\ ~(isStore /\ mem_stall)

exec_done == /\ state = "EXEC" /\ ~isLoad /\ ~isMd /\ ~ebreak_to_debug
             /\ ~(isStore /\ mis) /\ ~(isStore /\ mem_stall)

commit == \/ exec_done
          \/ state = "LOAD" /\ ~mis /\ ~mem_stall
          \/ state \in {"LOAD2", "STORE2"} /\ ~mem_stall
          \/ state = "MD" /\ md_done

(* mutant: only instructions that retire in EXEC are interrupted *)
take_irq_exec == /\ exec_done /\ Pending(csr, irq) # {}
                 /\ ~ex_trap /\ ~Uninterruptible(instr)

take_irq == /\ commit /\ Pending(csr, irq) # {}
            /\ ~ex_trap /\ ~Uninterruptible(instr)

seq_next == IF ~commit THEN Seq(pc, instr.len)
            ELSE IF ex_trap THEN csr.mtvec
            ELSE Successor(instr, pc, csr)

(* mutant: an interrupt diverts the pc although it is not accepted *)
next_pc_pending == IF commit /\ Pending(csr, irq) # {} THEN csr.mtvec ELSE seq_next

next_pc == IF take_irq THEN csr.mtvec ELSE seq_next

(* mutant: the register file is written while the instruction still waits *)
rf_we_early == instr.op \in RegWrites /\ ~ex_trap

rf_we == commit /\ instr.op \in RegWrites /\ ~ex_trap

-----------------------------------------------------------------------------
(* The clocked blocks beside the FSM.                                      *)

(* A debug write of the named register, in this cycle.                     *)
Poked(sel) == dbg_do /\ dbg_ar.write /\ dbg_ar.sel = sel

AccessRegister ==
  /\ dbg_ar_done' = dbg_do
  /\ dbg_ar_busy' = (dbg_ar # NoAr /\ (dbg_do \/ dbg_ar_busy))
  /\ dcsr_ebreakm' = IF Poked("dcsr") THEN dbg_ar.ebreakm ELSE dcsr_ebreakm
  /\ dcsr_step' = IF Poked("dcsr") THEN dbg_ar.step ELSE dcsr_step

MulDiv ==
  \/ /\ md_state = "IDLE" /\ state = "EXEC" /\ isMd           \* start
     /\ md_state' = IF instr.op = "mul" THEN "MUL" ELSE "DIV"
     /\ md_op' = instr.op /\ md_a' = gpr
     /\ bit_idx' = IF instr.op = "mul" THEN bit_idx ELSE DivBits - 1
     /\ md_done' = FALSE /\ UNCHANGED md_result
  \/ /\ md_state = "IDLE" /\ ~(state = "EXEC" /\ isMd)
     /\ md_done' = FALSE
     /\ UNCHANGED <<md_state, md_op, md_a, bit_idx, md_result>>
  \/ /\ md_state = "DIV" /\ md_op # "divz"                      \* one bit
     /\ md_state' = IF bit_idx = 0 THEN "FIN" ELSE "DIV"
     /\ bit_idx' = IF bit_idx = 0 THEN 0 ELSE bit_idx - 1
     /\ md_done' = FALSE
     /\ UNCHANGED <<md_op, md_a, md_result>>
  \/ /\ md_state \in {"MUL", "FIN"} \/ (md_state = "DIV" /\ md_op = "divz")
     /\ md_state' = "IDLE" /\ md_done' = TRUE
     /\ md_result' = MdF[md_op][md_a]
     /\ UNCHANGED <<md_op, md_a, bit_idx>>

CsrClocked ==
  csr' = IF commit /\ ex_trap THEN TrapEntry(csr, pc, Exception(instr, csr.priv))
         ELSE IF take_irq THEN TrapEntry(csr, seq_next, Interrupt(csr, irq))
         ELSE IF commit /\ instr.op = "mret" THEN MretReturn(csr)
         ELSE IF Poked("csr") THEN Written(csr, dbg_ar.w)
         ELSE IF commit /\ instr.op = "csr" THEN Written(csr, instr.w)
         ELSE csr

(* The value written back.  The bus returns anything; links and CSRs are   *)
(* not tracked; and one register of 31 is, so that a jump, a load or a CSR *)
(* instruction may also leave it alone.                                    *)
WbValues == IF state = "MD" THEN {md_result}
            ELSE IF instr.op = "alu" THEN {AluF[gpr]} ELSE Val

RegFile == gpr' \in IF Poked("gpr") THEN {dbg_ar.v}
                    ELSE IF rf_we THEN WbValues ELSE {gpr}

NoBeats == [w \in {0, 1} |-> 0]

Beat == IF (dmem_re \/ dmem_we) /\ ~mem_stall
        THEN [w \in {0, 1} |-> IF (w = 1) = (state \in {"LOAD2", "STORE2"})
                               THEN 1 ELSE 0]
        ELSE NoBeats

BeatsSoFar == [w \in {0, 1} |-> IF beats[w] + Beat[w] > 2 THEN 2
                                ELSE beats[w] + Beat[w]]

History ==
  /\ beats' = IF commit THEN NoBeats ELSE BeatsSoFar
  /\ prev_pc_wdata' = IF commit THEN next_pc ELSE prev_pc_wdata
  /\ have_prev' = (commit \/ (have_prev /\ ~dbg_mode))

(* What the core's surroundings drive next.  Every integration computes    *)
(* mem_stall as mem_req && not-ready.  The debug module holds an Access    *)
(* Register request until done, starts none in the cycle of a resumereq    *)
(* (each takes a DMI write of its own), and pulses resumereq for one cycle *)
(* after it saw the hart halted.                                           *)
Environment(held) ==
  /\ irq' \in SUBSET IrqLines
  /\ dbg_haltreq' \in {FALSE, Debugger}
  /\ dbg_ar' \in IF dbg_ar = NoAr THEN ArReqs \cup {NoAr}
                 ELSE IF dbg_ar_done THEN {NoAr} ELSE held
  /\ dbg_resumereq' \in BOOLEAN
  /\ dbg_resumereq' => /\ dbg_halted /\ ~dbg_resumereq
                       /\ dbg_ar' # NoAr => dbg_ar_busy'
  /\ mem_stall' \in BOOLEAN
  /\ mem_stall' => mem_req'

Clocked == /\ AccessRegister /\ MulDiv /\ CsrClocked /\ RegFile /\ History
           /\ Environment({dbg_ar})

-----------------------------------------------------------------------------
(* The FSM.                                                                *)

Poke_dpc == dpc' = IF Poked("dpc") THEN dbg_ar.dpc ELSE dpc

(* mutant: the stepped instruction is not noticed *)
RunningBlind == /\ Poke_dpc
                /\ UNCHANGED <<dbg_mode, dcsr_cause, step_pending, step_seen>>

(* The registers of a cycle that neither enters nor leaves debug mode.     *)
Running == /\ Poke_dpc
           /\ step_seen' = (step_seen \/ (commit /\ ~dbg_mode /\ step_pending))
           /\ UNCHANGED <<dbg_mode, dcsr_cause, step_pending>>

Stay == UNCHANGED fsm /\ Running /\ Clocked

Goto(s) == state' = s /\ UNCHANGED <<pc, instr>> /\ Running /\ Clocked

(* mutant: an accepted interrupt does not divert the pc *)
FinishSequential == /\ state' = "FETCH" /\ pc' = seq_next /\ UNCHANGED instr
                    /\ Running /\ Clocked

Finish == state' = "FETCH" /\ pc' = next_pc /\ UNCHANGED instr /\ Running /\ Clocked

(* mutant: dpc names the instruction after the one to resume at *)
HaltPastPc(why) == /\ state' = "HALTED" /\ dbg_mode' = TRUE
                   /\ dpc' = Seq(pc, instr.len) /\ dcsr_cause' = why
                   /\ UNCHANGED <<pc, instr>>

Halt(why) == /\ state' = "HALTED" /\ dbg_mode' = TRUE
             /\ dpc' = pc /\ dcsr_cause' = why
             /\ UNCHANGED <<pc, instr>>

step_complete == step_pending /\ step_seen

BusWait == /\ mem_stall
           /\ \/ state \in {"FETCH", "FETCH2", "LOAD", "LOAD2", "STORE2"}
              \/ is_store_ex
           /\ Stay

FetchHalt == /\ state = "FETCH" /\ ~mem_stall /\ dbg_haltreq /\ ~dbg_mode
             /\ Halt(3)
             /\ UNCHANGED <<step_pending, step_seen>>
             /\ Clocked

FetchStepDone == /\ state = "FETCH" /\ ~mem_stall /\ ~(dbg_haltreq /\ ~dbg_mode)
                 /\ step_complete
                 /\ Halt(4)
                 /\ step_pending' = FALSE /\ step_seen' = FALSE
                 /\ Clocked

(* mutant: the fetched word is used before the bus has delivered it *)
FetchesEarly == state = "FETCH" /\ ~(dbg_haltreq /\ ~dbg_mode) /\ ~step_complete

(* mutant: a fetch does not look at the halt request *)
FetchesOn == state = "FETCH" /\ ~mem_stall /\ ~step_complete

Fetches == /\ state = "FETCH" /\ ~mem_stall /\ ~(dbg_haltreq /\ ~dbg_mode)
           /\ ~step_complete

(* The word at pc holds the whole instruction...                           *)
Fetch(i) == /\ Fetches
            /\ i.len = 1 \/ pc % 2 = 0
            /\ state' = "EXEC" /\ instr' = i /\ UNCHANGED pc
            /\ Running /\ Clocked

(* ... or its first half only.                                             *)
FetchStraddle == /\ Fetches
                 /\ pc % 2 = 1 /\ \E i \in Instrs : i.len = 2
                 /\ Goto("FETCH2")

Fetch2(i) == /\ state = "FETCH2" /\ ~mem_stall /\ i.len = 2
             /\ state' = "EXEC" /\ instr' = i /\ UNCHANGED pc
             /\ Running /\ Clocked

ExecEbreak == /\ ebreak_to_debug
              /\ Halt(1)
              /\ UNCHANGED <<step_pending, step_seen>>
              /\ Clocked

ExecLoad == state = "EXEC" /\ isLoad /\ ~ex_trap /\ Goto("LOAD")

ExecMd == state = "EXEC" /\ isMd /\ ~ex_trap /\ Goto("MD")

ExecStoreBeat == is_store_ex /\ mis /\ ~mem_stall /\ Goto("STORE2")

ExecStore == is_store_ex /\ ~mis /\ ~mem_stall /\ Finish

(* Everything else leaves EXEC at once, committed or not.                  *)
ExecOther == /\ state = "EXEC" /\ ~ebreak_to_debug
             /\ ex_trap \/ ~(isLoad \/ isMd \/ isStore)
             /\ Finish

Load  == state = "LOAD" /\ ~mem_stall /\ ~mis /\ Finish
LoadBeat == state = "LOAD" /\ ~mem_stall /\ mis /\ Goto("LOAD2")
Load2 == state = "LOAD2" /\ ~mem_stall /\ Finish
Store2 == state = "STORE2" /\ ~mem_stall /\ Finish

MdWait == state = "MD" /\ ~md_done /\ Stay
Md == state = "MD" /\ md_done /\ Finish

Halted == state = "HALTED" /\ ~dbg_resumereq /\ Stay

Resume == /\ state = "HALTED" /\ dbg_resumereq
          /\ state' = "FETCH" /\ pc' = dpc /\ UNCHANGED instr
          /\ dbg_mode' = FALSE /\ UNCHANGED dcsr_cause
          /\ step_pending' = dcsr_step /\ step_seen' = FALSE
          /\ Poke_dpc
          /\ Clocked

Nop == [op |-> "alu", len |-> 2, mis |-> FALSE, illegal |-> FALSE,
        fault |-> "none", tgt |-> 0, w |-> NoWrite]

(* Hart reset.  The debug module keeps its request on ndmreset and loses   *)
(* it on rst.  The register file has no reset: a write that is under way   *)
(* in that cycle goes through.                                             *)
Reset ==
  /\ state' = "FETCH" /\ pc' = ResetPC /\ instr' = Nop
  /\ dbg_mode' = FALSE /\ dpc' = 0
  /\ dcsr_ebreakm' = FALSE /\ dcsr_step' = FALSE /\ dcsr_cause' = 0
  /\ dbg_ar_busy' = FALSE /\ dbg_ar_done' = FALSE
  /\ step_pending' = FALSE /\ step_seen' = FALSE
  /\ csr' = CsrReset
  /\ md_state' = "IDLE" /\ md_done' = FALSE /\ md_result' = 0
  /\ beats' = NoBeats /\ prev_pc_wdata' = 0 /\ have_prev' = FALSE
  /\ RegFile /\ UNCHANGED <<md_op, md_a, bit_idx>>
  /\ Environment({dbg_ar, NoAr})

(* Power-up: the state a reset leaves; the debug module may be ahead.      *)
Init ==
  /\ state = "FETCH" /\ pc = ResetPC /\ instr = Nop
  /\ dbg_mode = FALSE /\ dpc = 0
  /\ dcsr_ebreakm = FALSE /\ dcsr_step = FALSE /\ dcsr_cause = 0
  /\ dbg_ar_busy = FALSE /\ dbg_ar_done = FALSE
  /\ step_pending = FALSE /\ step_seen = FALSE
  /\ gpr \in Val /\ csr = CsrReset
  /\ md_state = "IDLE" /\ md_done = FALSE /\ md_result = 0
  /\ md_op = "mul" /\ md_a = 0 /\ bit_idx = 0
  /\ beats = NoBeats /\ prev_pc_wdata = 0 /\ have_prev = FALSE
  /\ mem_stall \in BOOLEAN /\ irq \in SUBSET IrqLines
  /\ dbg_haltreq \in {FALSE, Debugger} /\ dbg_resumereq = FALSE
  /\ dbg_ar \in ArReqs \cup {NoAr}

Tick == \/ BusWait
        \/ FetchHalt \/ FetchStepDone \/ FetchStraddle
        \/ \E i \in Instrs : Fetch(i) \/ Fetch2(i)
        \/ ExecEbreak \/ ExecLoad \/ ExecMd \/ ExecStoreBeat \/ ExecStore
        \/ ExecOther
        \/ Load \/ LoadBeat \/ Load2 \/ Store2
        \/ MdWait \/ Md
        \/ Halted \/ Resume

Next == Tick \/ Reset

Spec == Init /\ [][Next]_vars

(* Behaviours after the last reset: the clock runs, and the bus answers    *)
(* again and again.                                                        *)
BusAnswers == Tick /\ ~mem_stall'
LiveSpec == Init /\ [][Tick]_vars /\ WF_vars(BusAnswers)

(* The program is not an endless run of CSR and MRET instructions, after   *)
(* none of which the core takes an interrupt.                              *)
FetchOrdinary == \E i \in Instrs : ~Uninterruptible(i) /\ (Fetch(i) \/ Fetch2(i))
FairProgram == LiveSpec /\ SF_vars(FetchOrdinary)

-----------------------------------------------------------------------------
(* Properties.                                                             *)

(* The instructions whose exception the FSM drops: commit is low while the *)
(* exception is raised, yet EXEC is left.                                  *)
Drops(i) == /\ i.illegal \/ i.fault # "none"
            /\ i.op = "load" \/ i.op \in MdOp \/ (i.op = "store" /\ i.mis)

(* README "Precise Traps & Interrupts": an instruction that raises an      *)
(* exception and is left behind has entered the trap handler.  (A halt on  *)
(* an EBREAK leaves it in place: the debugger finds dpc at it.)            *)
ExceptionsTrap ==
  [][ex_trap /\ state' \notin {"EXEC", "HALTED"} =>
       \/ Reset
       \/ pc' = csr.mtvec /\ csr'.mepc = pc]_vars

(* tb_kavacha_rvfi.sv, check 2: each retired instruction is the one the    *)
(* previous retirement announced, across branches, traps and interrupts    *)
(* (the monitor starts anew after a reset and after a halt).               *)
RvfiPcConsistent == commit /\ have_prev => pc = prev_pc_wdata

(* "a not-ready bus never double-commits": when an instruction retires the *)
(* bus has accepted exactly its data beats, and none if it trapped.        *)
Required == [w \in {0, 1} |-> IF instr.op \in MemOp /\ ~ex_trap /\ (w = 1 => mis)
                              THEN 1 ELSE 0]
BeatsExactlyOnce == /\ commit => BeatsSoFar = Required
                    /\ state \in {"FETCH", "HALTED"} => beats = NoBeats

(* The bus masters rely on it (kavacha_axil.sv:47): a request that is not  *)
(* yet accepted stays as it is.                                            *)
BusRequestStable ==
  [][mem_req /\ mem_stall => \/ Reset
                             \/ mem_req' /\ request' = request]_vars

(* A multiply/divide retires with the result of its own operands, whatever *)
(* the unit did before.                                                    *)
MdResultFresh == state = "MD" /\ md_done => md_result = MdF[instr.op][gpr]

(* The clocked core, seen through the pc the debugger would read, is a     *)
(* hart: KavachaHart states it.                                            *)
Hart == INSTANCE KavachaHart WITH
          DbgWrites <- {r.w : r \in ArReqs},
          haltreq   <- dbg_haltreq,
          pc        <- IF dbg_mode THEN dpc ELSE pc,
          halted    <- dbg_mode,
          cause     <- dcsr_cause,
          ebreakm   <- dcsr_ebreakm,
          step      <- dcsr_step,
          stepping  <- IF dbg_mode \/ ~step_pending THEN "no"
                       ELSE IF step_seen THEN "done" ELSE "armed"

IsHart == Hart!HSpec

(* A halt request that is held is answered, whatever is running.           *)
HaltAnswered == dbg_haltreq ~> (dbg_halted \/ ~dbg_haltreq)

(* A single step ends: the debugger gets the hart back.                    *)
StepHalts == step_pending /\ ~dbg_mode ~> dbg_mode

(* A pending, enabled interrupt does not wait for ever.  Pending empties   *)
(* when the trap is taken (MIE drops), the line falls or software masks.   *)
InterruptTaken == Pending(csr, irq) # {} ~> (Pending(csr, irq) = {} \/ dbg_mode)
=============================================================================
