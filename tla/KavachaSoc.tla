----------------------------- MODULE KavachaSoc -----------------------------
(***************************************************************************)
(* The debug module, the debug port of the hart and the memory they share, *)
(* one step per clock cycle, on either board: the simulation SoC           *)
(* (kavacha_soc.sv), where system-bus accesses have a port of their own,   *)
(* and the FPGA SoC (kavacha_fpga.sv), where they share port B of the      *)
(* block RAM with the hart, and every access of the hart takes two cycles. *)
(*                                                                         *)
(* The hart is what its ports show of KavachaCore: it fetches, where it    *)
(* obeys haltreq, executes for any number of cycles, loads, stores,        *)
(* retires; it may halt of itself, after a step or at an EBREAK; halted,   *)
(* it serves register accesses and resumes.                                *)
(*                                                                         *)
(* The debugger writes what its session allows in any order, and the       *)
(* program accesses memory as the session allows, at any time.  A DMI      *)
(* access is scanned in over JTAG, which takes at least Gap cycles.        *)
(***************************************************************************)
EXTENDS KavachaDebug

CONSTANTS Boards, Gap, Sessions, NoWord

(* An access of the hart.                                                  *)
Access == [write : BOOLEAN, a : Addr, v : Val]
NoAccess == [write |-> FALSE, a |-> 0, v |-> 0]

(* What the debugger writes, what the program accesses, what memory holds.  *)
Session == [writes : SUBSET DmiWrites, accesses : SUBSET Access, image : [Addr -> Val]]

ASSUME SocAssumption == /\ Boards \subseteq {"soc", "fpga"}
                        /\ Gap \in Nat \ {0, 1, 2, 3}
                        /\ Sessions \subseteq Session
                        /\ NoWord \notin Val

VARIABLES
  board, session,
  dm, dmi, gap,             \* debug module; the pulse; cycles until the next
  hart, access, gpr,        \* hart; the access it makes in ACCESS
  ar_busy, ar_done,
  mem, mem_stall_q,         \* memory; the FPGA's wait state
  rdata_q,                  \* dm_mem_rdata, or the FPGA's portB_rdata_q
  dm_ready,
  overtaken,    \* history: a system-bus access was started over a waiting command
  careless,     \* history: one was started while the hart was not halted
  clash,        \* history: hart and debugger wanted the same port at once
  last,         \* history: the memory as completed writes leave it
  expect,       \* history: the word a system-bus read should get
  held          \* history: haltreq up ever since the hart was in reset

core    == <<hart, access, gpr, ar_busy, ar_done>>
memory  == <<mem, mem_stall_q, rdata_q, dm_ready>>
history == <<overtaken, careless, clash, last, expect, held>>
svars   == <<board, session, dm, dmi, gap, core, memory, history>>

Words == Val \cup {NoWord}

SocTypeOK ==
  /\ board \in Boards /\ session \in Sessions
  /\ dm \in DmRegs /\ dmi \in DmiWrites \cup {NoDmi} /\ gap \in 0 .. Gap
  /\ hart \in {"FETCH", "EXEC", "ACCESS", "HALTED"} /\ access \in Access
  /\ gpr \in Val /\ ar_busy \in BOOLEAN /\ ar_done \in BOOLEAN
  /\ mem \in [Addr -> Val] /\ mem_stall_q \in BOOLEAN
  /\ rdata_q \in Val /\ dm_ready \in BOOLEAN
  /\ overtaken \in BOOLEAN /\ careless \in BOOLEAN /\ clash \in BOOLEAN
  /\ last \in [Addr -> Val] /\ expect \in Words /\ held \in BOOLEAN

-----------------------------------------------------------------------------
(* Wires.                                                                  *)

dbg_halted  == hart = "HALTED"
dbg_haltreq == dm.haltreq /\ dm.dmactive
dbg_do      == dbg_halted /\ dm.ar_valid /\ ~ar_busy

mem_req   == hart \in {"FETCH", "ACCESS"}
(* mutant: the FPGA's memory is read in the cycle of the request *)
mem_stall_none == FALSE

mem_stall == board = "fpga" /\ mem_req /\ ~mem_stall_q
dmem_we   == hart = "ACCESS" /\ access.write

(* Port B of the FPGA's block RAM belongs to the debug module when it asks.*)
portB_addr  == IF dm.mem_valid THEN dm.mem_addr ELSE access.a
portB_wdata == IF dm.mem_valid THEN dm.mem_wdata ELSE access.v
portB_we    == (dm.mem_valid /\ dm.mem_write) \/ dmem_we

(* What a load of the hart receives.                                       *)
dmem_rdata == IF board = "fpga" THEN rdata_q ELSE mem[access.a]

-----------------------------------------------------------------------------
(* The hart.                                                               *)

Stay == UNCHANGED <<hart, access>>

(* mutant: the hart does not look at haltreq in its first fetch *)
FetchBlind == /\ hart = "FETCH" /\ ~mem_stall
              /\ hart' \in IF dbg_haltreq /\ ~held THEN {"HALTED"} ELSE {"HALTED", "EXEC"}
              /\ UNCHANGED access

(* Without a request, a single step that is over halts the hart here.      *)
Fetch == /\ hart = "FETCH" /\ ~mem_stall
         /\ hart' \in IF dbg_haltreq THEN {"HALTED"} ELSE {"HALTED", "EXEC"}
         /\ UNCHANGED access

Wait == (mem_stall \/ hart = "EXEC") /\ Stay

(* To HALTED: an EBREAK that is the debugger's.                            *)
Exec == /\ hart = "EXEC"
        /\ \/ hart' \in {"FETCH", "HALTED"} /\ UNCHANGED access
           \/ hart' = "ACCESS" /\ access' \in session.accesses

LoadStore == /\ hart = "ACCESS" /\ ~mem_stall
             /\ hart' = "FETCH" /\ access' = NoAccess

Debugged == /\ dbg_halted
            /\ hart' = IF dm.resumereq THEN "FETCH" ELSE "HALTED"
            /\ UNCHANGED access

(* Written by retirement or by the debugger, also on the edge of a reset.  *)
RegFile ==
  gpr' \in IF dbg_do /\ dm.ar_write THEN {dm.ar_wdata}
           ELSE IF hart = "EXEC" /\ hart' = "FETCH" THEN Val
           ELSE IF hart = "ACCESS" /\ ~access.write /\ ~mem_stall THEN {dmem_rdata}
           ELSE {gpr}

HartRuns == /\ Fetch \/ Wait \/ Exec \/ LoadStore \/ Debugged
            /\ ar_done' = dbg_do
            /\ ar_busy' = (dm.ar_valid /\ (dbg_do \/ ar_busy))
            /\ RegFile

HartInReset == /\ hart' = "FETCH" /\ access' = NoAccess
               /\ ar_done' = FALSE /\ ar_busy' = FALSE
               /\ RegFile

Retires == HartRuns /\ hart \in {"EXEC", "ACCESS"} /\ hart' = "FETCH"

-----------------------------------------------------------------------------
(* Memory and buses: no reset reaches them but that of the wait state.     *)

(* The simulation SoC: a port for each.  When both write one word in one   *)
(* cycle, either of the two always_ff blocks may come last.                *)
SocMemory ==
  LET stored  == IF dmem_we THEN [mem EXCEPT ![access.a] = access.v] ELSE mem
      written(m) == IF dm.mem_valid /\ dm.mem_write
                    THEN [m EXCEPT ![dm.mem_addr] = dm.mem_wdata] ELSE m
  IN /\ \/ mem' = written(stored)
        \/ /\ dmem_we /\ dm.mem_valid /\ dm.mem_write /\ access.a = dm.mem_addr
           /\ mem' = stored
     /\ rdata_q' = IF dm.mem_valid /\ ~dm.mem_write THEN mem[dm.mem_addr] ELSE rdata_q

FpgaMemory ==
  /\ mem' = IF portB_we THEN [mem EXCEPT ![portB_addr] = portB_wdata] ELSE mem
  /\ rdata_q' = mem[portB_addr]

Memory(core_rst) ==
  /\ \/ board = "soc" /\ SocMemory
     \/ board = "fpga" /\ FpgaMemory
  /\ dm_ready' = dm.mem_valid
  /\ mem_stall_q' = (board = "fpga" /\ ~core_rst /\ mem_req /\ ~mem_stall_q)

-----------------------------------------------------------------------------
StartsSystemBus == StartsSb(dm, dmi)

(* The two reach for one thing: a word both write, or port B.              *)
Contend == /\ dm.mem_valid /\ hart = "ACCESS"
           /\ \/ board = "fpga"
              \/ access.write /\ dm.mem_write /\ access.a = dm.mem_addr

(* Memory after the writes this edge completes.  A reset may cut a store   *)
(* short after it has reached the memory; after a clash nothing is known.  *)
Completed(core_rst) ==
  LET stored == IF dmem_we /\ ~mem_stall THEN [last EXCEPT ![access.a] = access.v] ELSE last
  IN IF core_rst \/ clash' THEN mem'
     ELSE IF dm.mem_valid /\ dm.mem_write THEN [stored EXCEPT ![dm.mem_addr] = dm.mem_wdata]
     ELSE stored

History(core_rst) ==
  /\ overtaken' = (overtaken \/ (StartsSystemBus /\ dm.eng = "E_AR_WAIT"))
  /\ careless'  = (careless \/ (StartsSystemBus /\ ~dbg_halted))
  /\ clash'     = (clash \/ Contend)
  /\ last'      = Completed(core_rst)
  /\ expect'    = IF dm.mem_valid /\ ~dm.mem_write THEN last[dm.mem_addr]
                  ELSE IF dm.eng = "E_SB_RD" THEN expect ELSE NoWord
  /\ held'      = (dbg_haltreq' /\ (core_rst \/ held))

Scan == /\ dmi' \in IF gap = 0 THEN session.writes \cup {NoDmi} ELSE {NoDmi}
        /\ gap' = IF dmi' # NoDmi THEN Gap ELSE IF gap = 0 THEN 0 ELSE gap - 1

(* dbg_ar_rdata is the register only while the hart is halted.             *)
DebugModule ==
  \E ar_rdata \in IF dbg_halted THEN {gpr} ELSE Val :
    dm' = DmEdge(dm, dmi, dbg_halted, ar_done, ar_rdata, dm_ready, rdata_q)

(* A clock edge without rst.  The hart may be in reset alone.              *)
Tick == /\ DebugModule /\ Scan
        /\ IF dm.ndmreset THEN HartInReset ELSE HartRuns
        /\ Memory(dm.ndmreset)
        /\ History(dm.ndmreset)
        /\ UNCHANGED <<board, session>>

(* A clock edge with rst: it resets everything but the DMI pulse, which    *)
(* waits, and the memory, which serves the accesses of this cycle.         *)
Rst == /\ dm' = DmReset /\ UNCHANGED dmi /\ gap' = Gap
       /\ HartInReset
       /\ Memory(TRUE)
       /\ overtaken' = FALSE /\ careless' = FALSE /\ clash' = FALSE
       /\ last' = mem' /\ expect' = NoWord /\ held' = FALSE
       /\ UNCHANGED <<board, session>>

SocInit ==
  /\ board \in Boards /\ session \in Sessions
  /\ dm = DmReset /\ dmi = NoDmi /\ gap = Gap
  /\ hart = "FETCH" /\ access = NoAccess /\ gpr = 0
  /\ ar_busy = FALSE /\ ar_done = FALSE
  /\ mem = session.image /\ mem_stall_q = FALSE /\ rdata_q = 0 /\ dm_ready = FALSE
  /\ overtaken = FALSE /\ careless = FALSE /\ clash = FALSE
  /\ last = mem /\ expect = NoWord /\ held = FALSE

SocNext == Tick \/ Rst

SocSpec == SocInit /\ [][SocNext]_svars

(* The clock runs and no instruction executes for ever.                    *)
SocFairSpec == SocSpec /\ WF_svars(Tick /\ (hart = "EXEC" => hart' # "EXEC"))

-----------------------------------------------------------------------------
(* Unless a system-bus access was started over a waiting command, the      *)
(* busy flag, the request to the hart and the engine agree, and the memory *)
(* is asked and answers only while the engine waits for it.                *)
EngineConsistent ==
  ~overtaken =>
    /\ dm.abs_busy = (dm.eng = "E_AR_WAIT")
    /\ dm.ar_valid = (dm.eng = "E_AR_WAIT")
    /\ dm.mem_valid => dm.eng = IF dm.mem_write THEN "E_SB_WR" ELSE "E_SB_RD"
    /\ dm.eng \in {"E_SB_RD", "E_SB_WR"} => dm.mem_valid \/ dm_ready

(* What the core relies on (Environment of KavachaCore): a request is held *)
(* as it is until it is done and then withdrawn; resumereq is one cycle    *)
(* long, meets a halted hart and no register access.                       *)
CoreContract ==
  [][HartRuns /\ Tick /\ ~overtaken' =>
       /\ dm.ar_valid /\ ar_done => ~dm'.ar_valid
       /\ dm.ar_valid /\ ~ar_done =>
            dm'.ar_valid /\ dm'.ar_write = dm.ar_write /\ dm'.ar_wdata = dm.ar_wdata
       /\ dm'.resumereq => /\ hart = "HALTED" /\ ~dm.resumereq
                           /\ (dm'.ar_valid => ar_busy')]_svars

(* A register command that ends has done what it says: data0 holds the     *)
(* hart's register, or the register the data0 of when it was written.      *)
CommandResult ==
  [][Tick /\ dm.abs_busy /\ ~dm'.abs_busy =>
       /\ hart = "HALTED"
       /\ IF dm.ar_write THEN gpr = dm.ar_wdata ELSE dm'.data0 = gpr]_svars

(* kavacha_soc.sv:151, "the hart is halted during SBA, so the two never    *)
(* contend": that is so if the debugger starts no access before the hart   *)
(* is halted, nor over a waiting command.                                  *)
HaltedNeverClash == clash => careless \/ overtaken

(* As long as the two have not reached for one thing, each reads what the  *)
(* last completed write of either left.                                    *)
ReadsLastWritten ==
  [][Tick /\ ~clash' /\ ~overtaken =>
       /\ dm.eng = "E_SB_RD" /\ dm'.eng = "E_IDLE" => dm'.sbdata0 = expect
       /\ Retires /\ hart = "ACCESS" /\ ~access.write => gpr' = last[access.a]]_svars

(* A debugger that holds haltreq while it releases ndmreset gets the hart  *)
(* before its first instruction.                                           *)
HaltOnReset == [][Retires => ~held]_svars

(* A command ends, if the hart is halted or asked to halt all along.       *)
CommandEnds ==
  dm.abs_busy ~> \/ ~dm.abs_busy \/ overtaken \/ dm.ndmreset
                 \/ ~(dbg_halted \/ dbg_haltreq)
=============================================================================
