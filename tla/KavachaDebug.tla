---------------------------- MODULE KavachaDebug ----------------------------
(***************************************************************************)
(* The debug module (kavacha_debug.sv): the registers the debugger sees    *)
(* and the engine that serves abstract commands and system-bus accesses.   *)
(* Its flip-flops are one record; one clock edge is the write of a DMI     *)
(* access followed by the engine, because the later of two assignments to  *)
(* a register wins, and both read the registers as they were.              *)
(*                                                                         *)
(* Reads of the debug module change nothing (dm_read) and need no action.  *)
(* One register of the hart is accessed; words and addresses are a few.    *)
(***************************************************************************)
EXTENDS Naturals

CONSTANTS
  Val,          \* words
  NA,           \* word addresses; sbaddress0 wraps
  DmiWrites,    \* the accesses the debugger may scan in
  NoDmi         \* dmi_we_pulse is low

Addr == 0 .. NA - 1

DmReg == {"data0", "dmcontrol", "abstractcs", "command", "sbcs", "sbaddress0", "sbdata0"}

Bits == {"dmactive", "ndmreset", "haltreq", "resumereq",      \* dmcontrol
         "otherType", "transfer", "write",                    \* command
         "clearCmderr",                                       \* abstractcs
         "readonaddr", "autoincrement"}                       \* sbcs

(* A DMI write: the register, and of its data the bits that are set, the   *)
(* word or the address.                                                    *)
DmiWrite == [reg : DmReg, bits : SUBSET Bits, v : Val, a : Addr]

ASSUME DebugAssumption == /\ NA \in Nat \ {0}
                          /\ 0 \in Val
                          /\ DmiWrites \subseteq DmiWrite /\ NoDmi \notin DmiWrite

Engine == {"E_IDLE", "E_AR_WAIT", "E_SB_RD", "E_SB_WR"}

DmRegs ==
  [dmactive : BOOLEAN, ndmreset : BOOLEAN, haltreq : BOOLEAN, resumeack : BOOLEAN,
   abs_busy : BOOLEAN, cmderr : {0, 2}, data0 : Val,
   sbaddress0 : Addr, sbdata0 : Val, sbautoincrement : BOOLEAN, sbreadonaddr : BOOLEAN,
   eng : Engine,
   resumereq : BOOLEAN,                                       \* to the hart
   ar_valid : BOOLEAN, ar_write : BOOLEAN, ar_wdata : Val,
   mem_valid : BOOLEAN, mem_write : BOOLEAN, mem_addr : Addr, mem_wdata : Val]

DmReset ==
  [dmactive |-> FALSE, ndmreset |-> FALSE, haltreq |-> FALSE, resumeack |-> FALSE,
   abs_busy |-> FALSE, cmderr |-> 0, data0 |-> 0,
   sbaddress0 |-> 0, sbdata0 |-> 0, sbautoincrement |-> FALSE, sbreadonaddr |-> FALSE,
   eng |-> "E_IDLE", resumereq |-> FALSE,
   ar_valid |-> FALSE, ar_write |-> FALSE, ar_wdata |-> 0,
   mem_valid |-> FALSE, mem_write |-> FALSE, mem_addr |-> 0, mem_wdata |-> 0]

-----------------------------------------------------------------------------
(* mutant: a resume request pulses also towards a running hart *)
DmcontrolAnyHart(d, bits, dbg_halted) ==
  IF "dmactive" \notin bits
  THEN [d EXCEPT !.dmactive = FALSE, !.haltreq = FALSE, !.ndmreset = FALSE]
  ELSE [d EXCEPT !.dmactive = TRUE,
                 !.ndmreset = "ndmreset" \in bits,
                 !.haltreq = "haltreq" \in bits,
                 !.resumereq = "resumereq" \in bits,
                 !.resumeack = @ \/ "resumereq" \in bits]

(* dmcontrol.  Clearing dmactive clears two bits and nothing else.         *)
Dmcontrol(d, bits, dbg_halted) ==
  IF "dmactive" \notin bits
  THEN [d EXCEPT !.dmactive = FALSE, !.haltreq = FALSE, !.ndmreset = FALSE]
  ELSE LET resume == "resumereq" \in bits /\ dbg_halted
       IN [d EXCEPT !.dmactive = TRUE,
                    !.ndmreset = "ndmreset" \in bits,
                    !.haltreq = "haltreq" \in bits,
                    !.resumereq = resume,
                    !.resumeack = resume \/ @]

StartAccessReg(d, bits) ==
  IF "otherType" \in bits THEN [d EXCEPT !.cmderr = 2]
  ELSE IF "transfer" \in bits
  THEN [d EXCEPT !.abs_busy = TRUE, !.ar_valid = TRUE, !.eng = "E_AR_WAIT",
                 !.ar_write = "write" \in bits, !.ar_wdata = d.data0]
  ELSE d

Command(d, bits) == IF d.abs_busy THEN d ELSE StartAccessReg(d, bits)

SbRead(d, a) == [d EXCEPT !.mem_valid = TRUE, !.mem_write = FALSE, !.mem_addr = a,
                          !.eng = "E_SB_RD"]

SbWrite(d, v) == [d EXCEPT !.mem_valid = TRUE, !.mem_write = TRUE,
                           !.mem_addr = d.sbaddress0, !.mem_wdata = v,
                           !.eng = "E_SB_WR"]

StartsSb(d, w) == w # NoDmi /\ (w.reg = "sbdata0" \/ (w.reg = "sbaddress0" /\ d.sbreadonaddr))

(* The registers d after the DMI write w.                                  *)
Apply(d, w, dbg_halted) ==
  CASE w.reg = "data0"      -> [d EXCEPT !.data0 = w.v]
    [] w.reg = "dmcontrol"  -> Dmcontrol(d, w.bits, dbg_halted)
    [] w.reg = "abstractcs" -> [d EXCEPT !.cmderr = IF "clearCmderr" \in w.bits THEN 0 ELSE @]
    [] w.reg = "command"    -> Command(d, w.bits)
    [] w.reg = "sbcs"       -> [d EXCEPT !.sbreadonaddr = "readonaddr" \in w.bits,
                                         !.sbautoincrement = "autoincrement" \in w.bits]
    [] w.reg = "sbaddress0" -> LET addressed == [d EXCEPT !.sbaddress0 = w.a]
                               IN IF d.sbreadonaddr THEN SbRead(addressed, w.a)
                                  ELSE addressed
    [] OTHER (* sbdata0 *)  -> [SbWrite(d, w.v) EXCEPT !.sbdata0 = w.v]

(* mutant: the address does not wrap *)
AdvanceUnbounded(d, n) ==
  [n EXCEPT !.sbaddress0 = IF d.sbautoincrement THEN d.sbaddress0 + 1 ELSE @]

(* An access that is done: the address moves on, if it is asked to.        *)
Advance(d, n) ==
  [n EXCEPT !.sbaddress0 = IF d.sbautoincrement THEN (d.sbaddress0 + 1) % NA ELSE @]

(* mutants of Serve: busy outlives the command; data0 is not written; the   *)
(* request is a pulse; the memory is asked until it answers                *)
ServeStaysBusy(d, n, done, ar_rdata, ready, mem_rdata) ==
  IF d.eng = "E_AR_WAIT" /\ done
  THEN [n EXCEPT !.ar_valid = FALSE, !.eng = "E_IDLE",
                 !.data0 = IF d.ar_write THEN @ ELSE ar_rdata]
  ELSE n

ServeNoData(d, n, done, ar_rdata, ready, mem_rdata) ==
  IF d.eng = "E_AR_WAIT" /\ done
  THEN [n EXCEPT !.ar_valid = FALSE, !.abs_busy = FALSE, !.eng = "E_IDLE"]
  ELSE n

ServePulse(d, n, done, ar_rdata, ready, mem_rdata) ==
  IF d.eng = "E_AR_WAIT"
  THEN [n EXCEPT !.ar_valid = FALSE, !.abs_busy = @ /\ ~done,
                 !.eng = IF done THEN "E_IDLE" ELSE @]
  ELSE n

ServeHoldsBus(d, n, done, ar_rdata, ready, mem_rdata) ==
  IF d.eng \in {"E_SB_RD", "E_SB_WR"} /\ ready THEN [n EXCEPT !.eng = "E_IDLE"] ELSE n

(* What the engine in the registers d adds to the edge that leads to n.    *)
(* It has the last word.                                                   *)
Serve(d, n, done, ar_rdata, ready, mem_rdata) ==
  CASE d.eng = "E_AR_WAIT" ->
         IF done
         THEN [n EXCEPT !.ar_valid = FALSE, !.abs_busy = FALSE, !.eng = "E_IDLE",
                        !.data0 = IF d.ar_write THEN @ ELSE ar_rdata]
         ELSE [n EXCEPT !.ar_valid = TRUE]
    [] d.eng = "E_SB_RD" ->
         IF ready
         THEN [Advance(d, n) EXCEPT !.mem_valid = FALSE, !.eng = "E_IDLE",
                                    !.sbdata0 = mem_rdata]
         ELSE [n EXCEPT !.mem_valid = FALSE]
    [] d.eng = "E_SB_WR" ->
         IF ready
         THEN [Advance(d, n) EXCEPT !.mem_valid = FALSE, !.eng = "E_IDLE"]
         ELSE [n EXCEPT !.mem_valid = FALSE]
    [] OTHER -> n

(* One clock edge of the debug module.                                     *)
DmEdge(d, w, dbg_halted, done, ar_rdata, ready, mem_rdata) ==
  LET quiet   == [d EXCEPT !.resumereq = FALSE]
      written == IF w = NoDmi THEN quiet ELSE Apply(quiet, w, dbg_halted)
  IN Serve(d, written, done, ar_rdata, ready, mem_rdata)
=============================================================================
