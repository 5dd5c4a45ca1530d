-------------------------- MODULE KavachaSocProofs --------------------------
(***************************************************************************)
(* Theorems about the debug module, the hart's debug port and the memory   *)
(* they share, for every set of words, addresses, DMI writes and sessions  *)
(* and for both boards.                                                    *)
(***************************************************************************)
EXTENDS KavachaSoc, TLAPS

-----------------------------------------------------------------------------
(* Types.  One register at a time, then the assignments of the code.       *)

LEMMA SetField ==
  ASSUME NEW d \in DmRegs
  PROVE  /\ \A b \in BOOLEAN :
              /\ [d EXCEPT !.dmactive = b] \in DmRegs
              /\ [d EXCEPT !.ndmreset = b] \in DmRegs
              /\ [d EXCEPT !.haltreq = b] \in DmRegs
              /\ [d EXCEPT !.resumeack = b] \in DmRegs
              /\ [d EXCEPT !.resumereq = b] \in DmRegs
              /\ [d EXCEPT !.abs_busy = b] \in DmRegs
              /\ [d EXCEPT !.ar_valid = b] \in DmRegs
              /\ [d EXCEPT !.ar_write = b] \in DmRegs
              /\ [d EXCEPT !.mem_valid = b] \in DmRegs
              /\ [d EXCEPT !.mem_write = b] \in DmRegs
              /\ [d EXCEPT !.sbreadonaddr = b] \in DmRegs
              /\ [d EXCEPT !.sbautoincrement = b] \in DmRegs
         /\ \A v \in Val : /\ [d EXCEPT !.data0 = v] \in DmRegs
                           /\ [d EXCEPT !.sbdata0 = v] \in DmRegs
                           /\ [d EXCEPT !.ar_wdata = v] \in DmRegs
                           /\ [d EXCEPT !.mem_wdata = v] \in DmRegs
         /\ \A a \in Addr : /\ [d EXCEPT !.sbaddress0 = a] \in DmRegs
                            /\ [d EXCEPT !.mem_addr = a] \in DmRegs
         /\ \A e \in Engine : [d EXCEPT !.eng = e] \in DmRegs
         /\ \A c \in {0, 2} : [d EXCEPT !.cmderr = c] \in DmRegs
<1>1. ASSUME NEW b \in BOOLEAN
      PROVE  /\ [d EXCEPT !.dmactive = b] \in DmRegs
             /\ [d EXCEPT !.ndmreset = b] \in DmRegs
             /\ [d EXCEPT !.haltreq = b] \in DmRegs
             /\ [d EXCEPT !.resumeack = b] \in DmRegs
  BY DEF DmRegs
<1>2. ASSUME NEW b \in BOOLEAN
      PROVE  /\ [d EXCEPT !.resumereq = b] \in DmRegs
             /\ [d EXCEPT !.abs_busy = b] \in DmRegs
             /\ [d EXCEPT !.ar_valid = b] \in DmRegs
             /\ [d EXCEPT !.ar_write = b] \in DmRegs
  BY DEF DmRegs
<1>3. ASSUME NEW b \in BOOLEAN
      PROVE  /\ [d EXCEPT !.mem_valid = b] \in DmRegs
             /\ [d EXCEPT !.mem_write = b] \in DmRegs
             /\ [d EXCEPT !.sbreadonaddr = b] \in DmRegs
             /\ [d EXCEPT !.sbautoincrement = b] \in DmRegs
  BY DEF DmRegs
<1>4. ASSUME NEW v \in Val
      PROVE  /\ [d EXCEPT !.data0 = v] \in DmRegs
             /\ [d EXCEPT !.sbdata0 = v] \in DmRegs
             /\ [d EXCEPT !.ar_wdata = v] \in DmRegs
             /\ [d EXCEPT !.mem_wdata = v] \in DmRegs
  BY DEF DmRegs
<1>5. ASSUME NEW a \in Addr
      PROVE  [d EXCEPT !.sbaddress0 = a] \in DmRegs /\ [d EXCEPT !.mem_addr = a] \in DmRegs
  BY DEF DmRegs
<1>6. /\ \A e \in Engine : [d EXCEPT !.eng = e] \in DmRegs
      /\ \A c \in {0, 2} : [d EXCEPT !.cmderr = c] \in DmRegs
  BY DEF DmRegs
<1>7. QED
  BY <1>1, <1>2, <1>3, <1>4, <1>5, <1>6, Zenon

LEMMA FieldTypes ==
  ASSUME NEW d \in DmRegs
  PROVE  /\ d.data0 \in Val /\ d.sbdata0 \in Val /\ d.ar_wdata \in Val
         /\ d.mem_wdata \in Val
         /\ d.sbaddress0 \in Addr /\ d.mem_addr \in Addr /\ d.eng \in Engine
         /\ d.resumeack \in BOOLEAN /\ d.mem_valid \in BOOLEAN
         /\ d.mem_write \in BOOLEAN /\ d.abs_busy \in BOOLEAN
         /\ d.ar_valid \in BOOLEAN /\ d.ar_write \in BOOLEAN
         /\ d.cmderr \in {0, 2}
BY DEF DmRegs

LEMMA EngineStates ==
  /\ "E_IDLE" \in Engine /\ "E_AR_WAIT" \in Engine
  /\ "E_SB_RD" \in Engine /\ "E_SB_WR" \in Engine
BY DEF Engine

LEMMA DmResetType == DmReset \in DmRegs
BY DebugAssumption DEF DmReset, DmRegs, Engine, Addr

LEMMA DmcontrolType ==
  ASSUME NEW d \in DmRegs, NEW bits, NEW h \in BOOLEAN
  PROVE  Dmcontrol(d, bits, h) \in DmRegs
<1>1. CASE "dmactive" \notin bits
  <2>. DEFINE d1 == [d EXCEPT !.dmactive = FALSE]
              d2 == [d1 EXCEPT !.haltreq = FALSE]
              d3 == [d2 EXCEPT !.ndmreset = FALSE]
  <2>1. d1 \in DmRegs
    BY SetField
  <2>2. d2 \in DmRegs
    BY <2>1, SetField
  <2>3. d3 \in DmRegs
    BY <2>2, SetField
  <2>4. QED
    BY <1>1, <2>3 DEF Dmcontrol
<1>2. CASE "dmactive" \in bits
  <2>. DEFINE resume == "resumereq" \in bits /\ h
              n  == "ndmreset" \in bits
              hr == "haltreq" \in bits
              d1 == [d EXCEPT !.dmactive = TRUE]
              d2 == [d1 EXCEPT !.ndmreset = n]
              d3 == [d2 EXCEPT !.haltreq = hr]
              d4 == [d3 EXCEPT !.resumereq = resume]
              d5 == [d4 EXCEPT !.resumeack = resume \/ @]
  <2>1. d1 \in DmRegs
    BY SetField
  <2>2. d2 \in DmRegs
    <3>1. n \in BOOLEAN
      OBVIOUS
    <3>2. QED
      BY <2>1, <3>1, SetField
  <2>3. d3 \in DmRegs
    <3>1. hr \in BOOLEAN
      OBVIOUS
    <3>2. QED
      BY <2>2, <3>1, SetField
  <2>4. d4 \in DmRegs
    <3>1. resume \in BOOLEAN
      OBVIOUS
    <3>2. QED
      BY <2>3, <3>1, SetField
  <2>5. d5 \in DmRegs
    <3>1. (resume \/ d4.resumeack) \in BOOLEAN
      OBVIOUS
    <3>. HIDE DEF d4
    <3>2. QED
      BY <2>4, <3>1, SetField
  <2>6. QED
    BY <1>2, <2>5 DEF Dmcontrol
<1>3. QED
  BY <1>1, <1>2

LEMMA CommandType ==
  ASSUME NEW d \in DmRegs, NEW bits
  PROVE  Command(d, bits) \in DmRegs
<1>. DEFINE wr == "write" \in bits
            d1 == [d EXCEPT !.abs_busy = TRUE]
            d2 == [d1 EXCEPT !.ar_valid = TRUE]
            d3 == [d2 EXCEPT !.eng = "E_AR_WAIT"]
            d4 == [d3 EXCEPT !.ar_write = wr]
            d5 == [d4 EXCEPT !.ar_wdata = d.data0]
<1>1. d1 \in DmRegs
  BY SetField
<1>2. d2 \in DmRegs
  BY <1>1, SetField
<1>3. d3 \in DmRegs
  BY <1>2, SetField, EngineStates
<1>4. d4 \in DmRegs
  <2>1. wr \in BOOLEAN
    OBVIOUS
  <2>2. QED
    BY <1>3, <2>1, SetField
<1>5. d5 \in DmRegs
  BY <1>4, SetField, FieldTypes
<1>6. [d EXCEPT !.cmderr = 2] \in DmRegs
  BY SetField
<1>7. QED
  BY <1>5, <1>6 DEF Command, StartAccessReg

LEMMA SbReadType ==
  ASSUME NEW d \in DmRegs, NEW a \in Addr
  PROVE  SbRead(d, a) \in DmRegs
<1>. DEFINE d1 == [d EXCEPT !.mem_valid = TRUE]
            d2 == [d1 EXCEPT !.mem_write = FALSE]
            d3 == [d2 EXCEPT !.mem_addr = a]
            d4 == [d3 EXCEPT !.eng = "E_SB_RD"]
<1>1. d1 \in DmRegs
  BY SetField
<1>2. d2 \in DmRegs
  BY <1>1, SetField
<1>3. d3 \in DmRegs
  BY <1>2, SetField
<1>4. d4 \in DmRegs
  BY <1>3, SetField, EngineStates
<1>5. QED
  BY <1>4 DEF SbRead

LEMMA SbWriteType ==
  ASSUME NEW d \in DmRegs, NEW v \in Val
  PROVE  SbWrite(d, v) \in DmRegs
<1>. DEFINE d1 == [d EXCEPT !.mem_valid = TRUE]
            d2 == [d1 EXCEPT !.mem_write = TRUE]
            d3 == [d2 EXCEPT !.mem_addr = d.sbaddress0]
            d4 == [d3 EXCEPT !.mem_wdata = v]
            d5 == [d4 EXCEPT !.eng = "E_SB_WR"]
<1>1. d1 \in DmRegs
  BY SetField
<1>2. d2 \in DmRegs
  BY <1>1, SetField
<1>3. d3 \in DmRegs
  BY <1>2, SetField, FieldTypes
<1>4. d4 \in DmRegs
  BY <1>3, SetField
<1>5. d5 \in DmRegs
  BY <1>4, SetField, EngineStates
<1>6. QED
  BY <1>5 DEF SbWrite

LEMMA ApplyType ==
  ASSUME NEW d \in DmRegs, NEW w \in DmiWrite, NEW h \in BOOLEAN
  PROVE  Apply(d, w, h) \in DmRegs
<1>1. /\ w.v \in Val /\ w.a \in Addr /\ w.reg \in DmReg
  BY DEF DmiWrite
<1>2. CASE w.reg = "data0"
  BY <1>1, <1>2, SetField DEF Apply
<1>3. CASE w.reg = "dmcontrol"
  BY <1>3, DmcontrolType DEF Apply
<1>4. CASE w.reg = "abstractcs"
  <2>1. (IF "clearCmderr" \in w.bits THEN 0 ELSE d.cmderr) \in {0, 2}
    BY FieldTypes
  <2>2. QED
    BY <1>4, <2>1, SetField DEF Apply
<1>5. CASE w.reg = "command"
  BY <1>5, CommandType DEF Apply
<1>6. CASE w.reg = "sbcs"
  <2>. DEFINE ro == "readonaddr" \in w.bits
              ai == "autoincrement" \in w.bits
              d1 == [d EXCEPT !.sbreadonaddr = ro]
              d2 == [d1 EXCEPT !.sbautoincrement = ai]
  <2>1. ro \in BOOLEAN /\ ai \in BOOLEAN
    OBVIOUS
  <2>2. d1 \in DmRegs
    BY <2>1, SetField
  <2>3. d2 \in DmRegs
    BY <2>1, <2>2, SetField
  <2>4. QED
    BY <1>6, <2>3 DEF Apply
<1>7. CASE w.reg = "sbaddress0"
  <2>. DEFINE d1 == [d EXCEPT !.sbaddress0 = w.a]
  <2>1. d1 \in DmRegs
    BY <1>1, SetField
  <2>2. SbRead(d1, w.a) \in DmRegs
    BY <1>1, <2>1, SbReadType
  <2>3. QED
    BY <1>7, <2>1, <2>2 DEF Apply
<1>8. CASE w.reg = "sbdata0"
  <2>. DEFINE d1 == SbWrite(d, w.v)
  <2>1. d1 \in DmRegs
    BY <1>1, SbWriteType
  <2>. HIDE DEF d1
  <2>2. [d1 EXCEPT !.sbdata0 = w.v] \in DmRegs
    BY <1>1, <2>1, SetField
  <2>3. QED
    BY <1>8, <2>2 DEF Apply, d1
<1>9. QED
  BY <1>1, <1>2, <1>3, <1>4, <1>5, <1>6, <1>7, <1>8 DEF DmReg

LEMMA AdvanceType ==
  ASSUME NEW d \in DmRegs, NEW n \in DmRegs
  PROVE  Advance(d, n) \in DmRegs
<1>1. (IF d.sbautoincrement THEN (d.sbaddress0 + 1) % NA ELSE n.sbaddress0) \in Addr
  <2>1. d.sbaddress0 \in Nat /\ n.sbaddress0 \in Addr /\ NA \in Nat \ {0}
    BY FieldTypes, DebugAssumption DEF Addr
  <2>2. (d.sbaddress0 + 1) % NA \in 0 .. NA - 1
    BY <2>1
  <2>3. QED
    BY <2>1, <2>2 DEF Addr
<1>2. QED
  BY <1>1, SetField DEF Advance

LEMMA ServeType ==
  ASSUME NEW d \in DmRegs, NEW n \in DmRegs, NEW done \in BOOLEAN,
         NEW ar_rdata \in Val, NEW ready \in BOOLEAN, NEW mem_rdata \in Val
  PROVE  Serve(d, n, done, ar_rdata, ready, mem_rdata) \in DmRegs
<1>1. CASE d.eng = "E_AR_WAIT" /\ done
  <2>. DEFINE n1 == [n EXCEPT !.ar_valid = FALSE]
              n2 == [n1 EXCEPT !.abs_busy = FALSE]
              n3 == [n2 EXCEPT !.eng = "E_IDLE"]
              n4 == [n3 EXCEPT !.data0 = IF d.ar_write THEN @ ELSE ar_rdata]
  <2>1. n1 \in DmRegs
    BY SetField
  <2>2. n2 \in DmRegs
    BY <2>1, SetField
  <2>3. n3 \in DmRegs
    BY <2>2, SetField, EngineStates
  <2>4. n4 \in DmRegs
    <3>. HIDE DEF n3
    <3>1. (IF d.ar_write THEN n3.data0 ELSE ar_rdata) \in Val
      BY <2>3, FieldTypes
    <3>2. QED
      BY <2>3, <3>1, SetField
  <2>5. QED
    BY <1>1, <2>4 DEF Serve
<1>2. CASE d.eng = "E_AR_WAIT" /\ ~done
  BY <1>2, SetField DEF Serve
<1>3. CASE d.eng \in {"E_SB_RD", "E_SB_WR"} /\ ready
  <2>. DEFINE n0 == Advance(d, n)
              n1 == [n0 EXCEPT !.mem_valid = FALSE]
              n2 == [n1 EXCEPT !.eng = "E_IDLE"]
              n3 == [n2 EXCEPT !.sbdata0 = mem_rdata]
  <2>1. n0 \in DmRegs
    BY AdvanceType
  <2>. HIDE DEF n0
  <2>2. n1 \in DmRegs
    BY <2>1, SetField
  <2>3. n2 \in DmRegs
    BY <2>2, SetField, EngineStates
  <2>4. n3 \in DmRegs
    BY <2>3, SetField
  <2>5. QED
    BY <1>3, <2>3, <2>4 DEF Serve, n0
<1>4. CASE d.eng \in {"E_SB_RD", "E_SB_WR"} /\ ~ready
  BY <1>4, SetField DEF Serve
<1>5. CASE d.eng \notin {"E_AR_WAIT", "E_SB_RD", "E_SB_WR"}
  BY <1>5 DEF Serve
<1>6. QED
  BY <1>1, <1>2, <1>3, <1>4, <1>5

LEMMA DmEdgeType ==
  ASSUME NEW d \in DmRegs, NEW w \in DmiWrites \cup {NoDmi}, NEW h \in BOOLEAN,
         NEW done \in BOOLEAN, NEW ar_rdata \in Val, NEW ready \in BOOLEAN,
         NEW mem_rdata \in Val
  PROVE  DmEdge(d, w, h, done, ar_rdata, ready, mem_rdata) \in DmRegs
<1>. DEFINE quiet == [d EXCEPT !.resumereq = FALSE]
            written == IF w = NoDmi THEN quiet ELSE Apply(quiet, w, h)
<1>1. quiet \in DmRegs
  BY SetField
<1>. HIDE DEF quiet
<1>2. written \in DmRegs
  BY <1>1, ApplyType, DebugAssumption
<1>. HIDE DEF written
<1>3. Serve(d, written, done, ar_rdata, ready, mem_rdata) \in DmRegs
  BY <1>2, ServeType
<1>4. QED
  BY <1>3 DEF DmEdge, written, quiet

LEMMA AccessTypes ==
  ASSUME SocTypeOK
  PROVE  /\ access.a \in Addr /\ access.v \in Val /\ access.write \in BOOLEAN
         /\ session.accesses \subseteq Access /\ session.writes \subseteq DmiWrites
         /\ session.image \in [Addr -> Val]
         /\ NoAccess \in Access
BY SocAssumption, DebugAssumption DEF SocTypeOK, Access, Session, NoAccess, Addr

(* The register the hart ends up with.                                     *)
LEMMA RegFileType == ASSUME SocTypeOK, RegFile PROVE gpr' \in Val
<1>1. dm.ar_wdata \in Val
  BY FieldTypes DEF SocTypeOK
<1>2. dmem_rdata \in Val
  BY AccessTypes DEF dmem_rdata, SocTypeOK
<1>3. QED
  BY <1>1, <1>2 DEF RegFile, SocTypeOK

LEMMA HartType ==
  ASSUME SocTypeOK, HartRuns \/ HartInReset
  PROVE  /\ hart' \in {"FETCH", "EXEC", "ACCESS", "HALTED"} /\ access' \in Access
         /\ gpr' \in Val /\ ar_busy' \in BOOLEAN /\ ar_done' \in BOOLEAN
<1>1. CASE HartInReset
  BY <1>1, RegFileType, AccessTypes DEF HartInReset
<1>2. CASE HartRuns
  <2>1. gpr' \in Val
    BY <1>2, RegFileType DEF HartRuns
  <2>2. ar_busy' \in BOOLEAN /\ ar_done' \in BOOLEAN
    BY <1>2, FieldTypes DEF HartRuns, SocTypeOK, dbg_do, dbg_halted
  <2>3. hart' \in {"FETCH", "EXEC", "ACCESS", "HALTED"} /\ access' \in Access
    BY <1>2, AccessTypes DEF HartRuns, Fetch, Wait, Stay, Exec, LoadStore, Debugged, SocTypeOK
  <2>4. QED
    BY <2>1, <2>2, <2>3
<1>3. QED
  BY <1>1, <1>2

LEMMA MemoryType ==
  ASSUME SocTypeOK, NEW core_rst \in BOOLEAN, Memory(core_rst)
  PROVE  /\ mem' \in [Addr -> Val] /\ mem_stall_q' \in BOOLEAN
         /\ rdata_q' \in Val /\ dm_ready' \in BOOLEAN
<1>1. /\ dm.mem_addr \in Addr /\ dm.mem_wdata \in Val /\ dm.mem_valid \in BOOLEAN
      /\ mem \in [Addr -> Val] /\ rdata_q \in Val
  BY FieldTypes DEF SocTypeOK
<1>2. mem_stall_q' \in BOOLEAN /\ dm_ready' \in BOOLEAN
  BY <1>1 DEF Memory
<1>3. CASE board = "soc" /\ SocMemory
  BY <1>1, <1>2, <1>3, AccessTypes DEF SocMemory
<1>4. CASE board = "fpga" /\ FpgaMemory
  <2>1. portB_addr \in Addr /\ portB_wdata \in Val
    BY <1>1, AccessTypes DEF portB_addr, portB_wdata
  <2>2. QED
    BY <1>1, <1>2, <1>4, <2>1 DEF FpgaMemory
<1>5. QED
  BY <1>3, <1>4 DEF Memory

LEMMA HistoryType ==
  ASSUME SocTypeOK, NEW core_rst \in BOOLEAN, History(core_rst), mem' \in [Addr -> Val]
  PROVE  /\ overtaken' \in BOOLEAN /\ careless' \in BOOLEAN /\ clash' \in BOOLEAN
         /\ last' \in [Addr -> Val] /\ expect' \in Words /\ held' \in BOOLEAN
<1>1. /\ dm.mem_addr \in Addr /\ dm.mem_wdata \in Val /\ last \in [Addr -> Val]
  BY FieldTypes DEF SocTypeOK
<1>2. overtaken' \in BOOLEAN /\ careless' \in BOOLEAN /\ clash' \in BOOLEAN
  BY DEF History, SocTypeOK, StartsSystemBus, StartsSb, Contend
<1>3. last' \in [Addr -> Val]
  BY <1>1, AccessTypes DEF History, Completed
<1>4. expect' \in Words
  BY <1>1 DEF History, Words, SocTypeOK
<1>5. held' \in BOOLEAN
  BY DEF History, dbg_haltreq, SocTypeOK
<1>6. QED
  BY <1>2, <1>3, <1>4, <1>5

LEMMA ScanType ==
  ASSUME SocTypeOK, Scan PROVE dmi' \in DmiWrites \cup {NoDmi} /\ gap' \in 0 .. Gap
<1>1. dmi' \in DmiWrites \cup {NoDmi}
  BY AccessTypes DEF Scan
<1>2. gap' \in 0 .. Gap
  BY SocAssumption DEF Scan, SocTypeOK
<1>3. QED
  BY <1>1, <1>2

LEMMA DebugModuleType == ASSUME SocTypeOK, DebugModule PROVE dm' \in DmRegs
<1>1. PICK ar_rdata \in IF dbg_halted THEN {gpr} ELSE Val :
        dm' = DmEdge(dm, dmi, dbg_halted, ar_done, ar_rdata, dm_ready, rdata_q)
  BY DEF DebugModule
<1>2. ar_rdata \in Val /\ dbg_halted \in BOOLEAN
  BY DEF SocTypeOK, dbg_halted
<1>3. QED
  BY <1>1, <1>2, DmEdgeType DEF SocTypeOK

LEMMA TypeTick == ASSUME SocTypeOK, Tick PROVE SocTypeOK'
<1>1. dm.ndmreset \in BOOLEAN
  BY DEF SocTypeOK, DmRegs
<1>2. dm' \in DmRegs
  BY DebugModuleType DEF Tick
<1>3. HartRuns \/ HartInReset
  BY DEF Tick
<1>4. Memory(dm.ndmreset) /\ History(dm.ndmreset) /\ Scan /\ UNCHANGED <<board, session>>
  BY DEF Tick
<1>5. mem' \in [Addr -> Val]
  BY <1>1, <1>4, MemoryType
<1>6. QED
  BY <1>1, <1>2, <1>3, <1>4, <1>5, HartType, MemoryType, HistoryType, ScanType
     DEF SocTypeOK

LEMMA TypeRst == ASSUME SocTypeOK, Rst PROVE SocTypeOK'
<1>1. HartInReset /\ Memory(TRUE)
  BY DEF Rst
<1>2. gap' \in 0 .. Gap
  BY SocAssumption DEF Rst
<1>3. QED
  BY <1>1, <1>2, HartType, MemoryType, DmResetType DEF Rst, SocTypeOK, Words

LEMMA TypeInit == SocInit => SocTypeOK
<1>1. SUFFICES ASSUME SocInit PROVE SocTypeOK
  OBVIOUS
<1>2. 0 \in Val /\ Gap \in 0 .. Gap /\ NoAccess \in Access
  BY SocAssumption, DebugAssumption DEF Access, NoAccess, Addr
<1>3. session.image \in [Addr -> Val]
  BY <1>1, SocAssumption DEF SocInit, Session
<1>4. QED
  BY <1>1, <1>2, <1>3, DmResetType DEF SocInit, SocTypeOK, Words

LEMMA TypeStutter == SocTypeOK /\ UNCHANGED svars => SocTypeOK'
BY DEF svars, core, memory, history, SocTypeOK

(* Registers, wires and history have their types.                          *)
THEOREM SocTypes == SocSpec => []SocTypeOK
<1>1. SocTypeOK /\ [SocNext]_svars => SocTypeOK'
  BY TypeTick, TypeRst, TypeStutter DEF SocNext
<1>2. QED
  BY <1>1, TypeInit, PTL DEF SocSpec

-----------------------------------------------------------------------------
(* The engine.                                                             *)

SameEngine(d, e) == /\ e.eng = d.eng /\ e.abs_busy = d.abs_busy /\ e.ar_valid = d.ar_valid
                    /\ e.mem_valid = d.mem_valid /\ e.mem_write = d.mem_write

(* What a DMI write may do to it: nothing, start a command, start a        *)
(* system-bus access.                                                      *)
WriteEffect(d, e, w) ==
  \/ ~StartsSb(d, w) /\ SameEngine(d, e)
  \/ /\ ~StartsSb(d, w) /\ ~d.abs_busy
     /\ e.eng = "E_AR_WAIT" /\ e.abs_busy /\ e.ar_valid
     /\ e.mem_valid = d.mem_valid /\ e.mem_write = d.mem_write
  \/ /\ StartsSb(d, w)
     /\ e.eng = IF e.mem_write THEN "E_SB_WR" ELSE "E_SB_RD"
     /\ e.mem_valid
     /\ e.abs_busy = d.abs_busy /\ e.ar_valid = d.ar_valid

LEMMA ApplyEngine ==
  ASSUME NEW d \in DmRegs, NEW w \in DmiWrite, NEW h \in BOOLEAN
  PROVE  WriteEffect(d, Apply(d, w, h), w)
<1>. USE DEF WriteEffect
<1>1. w.reg \in DmReg /\ w # NoDmi
  BY DebugAssumption DEF DmiWrite
<1>2. CASE w.reg = "data0"
  BY <1>2 DEF Apply, StartsSb, SameEngine, DmRegs
<1>3. CASE w.reg = "dmcontrol"
  <2>1. SameEngine(d, Dmcontrol(d, w.bits, h))
    BY DEF Dmcontrol, SameEngine, DmRegs
  <2>2. QED
    BY <1>3, <2>1 DEF Apply, StartsSb
<1>4. CASE w.reg = "abstractcs"
  BY <1>4 DEF Apply, StartsSb, SameEngine, DmRegs
<1>5. CASE w.reg = "command"
  BY <1>5 DEF Apply, Command, StartAccessReg, StartsSb, SameEngine, DmRegs
<1>6. CASE w.reg = "sbcs"
  BY <1>6 DEF Apply, StartsSb, SameEngine, DmRegs
<1>7. CASE w.reg = "sbaddress0" /\ ~d.sbreadonaddr
  BY <1>7 DEF Apply, StartsSb, SameEngine, DmRegs
<1>8. CASE w.reg = "sbaddress0" /\ d.sbreadonaddr
  BY <1>1, <1>8 DEF Apply, SbRead, StartsSb, DmRegs
<1>9. CASE w.reg = "sbdata0"
  BY <1>1, <1>9 DEF Apply, SbWrite, StartsSb, DmRegs
<1>10. QED
  BY <1>1, <1>2, <1>3, <1>4, <1>5, <1>6, <1>7, <1>8, <1>9 DEF DmReg

(* What the engine adds to the edge.                                       *)
LEMMA ServeEngine ==
  ASSUME NEW d \in DmRegs, NEW n \in DmRegs, NEW done \in BOOLEAN, NEW ar_rdata,
         NEW ready \in BOOLEAN, NEW mem_rdata
  PROVE  LET e == Serve(d, n, done, ar_rdata, ready, mem_rdata)
         IN /\ d.eng = "E_IDLE" => e = n
            /\ d.eng = "E_AR_WAIT" /\ done =>
                 /\ e.eng = "E_IDLE" /\ ~e.abs_busy /\ ~e.ar_valid
                 /\ e.mem_valid = n.mem_valid /\ e.mem_write = n.mem_write
            /\ d.eng = "E_AR_WAIT" /\ ~done =>
                 /\ e.eng = n.eng /\ e.abs_busy = n.abs_busy /\ e.ar_valid
                 /\ e.mem_valid = n.mem_valid /\ e.mem_write = n.mem_write
            /\ d.eng \in {"E_SB_RD", "E_SB_WR"} =>
                 /\ e.eng = (IF ready THEN "E_IDLE" ELSE n.eng)
                 /\ e.abs_busy = n.abs_busy /\ e.ar_valid = n.ar_valid
                 /\ ~e.mem_valid
<1>1. CASE d.eng = "E_IDLE"
  BY <1>1 DEF Serve
<1>2. CASE d.eng = "E_AR_WAIT"
  BY <1>2 DEF Serve, DmRegs
<1>3. CASE d.eng \in {"E_SB_RD", "E_SB_WR"}
  BY <1>3 DEF Serve, Advance, DmRegs
<1>4. QED
  BY <1>1, <1>2, <1>3, FieldTypes DEF Engine

LEMMA EdgeEngine ==
  ASSUME SocTypeOK, DebugModule
  PROVE  \E n \in DmRegs : \E ar_rdata \in Val :
           /\ dm' = Serve(dm, n, ar_done, ar_rdata, dm_ready, rdata_q)
           /\ IF dmi = NoDmi THEN SameEngine(dm, n) ELSE WriteEffect(dm, n, dmi)
           /\ dbg_halted => ar_rdata = gpr
<1>1. PICK ar_rdata \in IF dbg_halted THEN {gpr} ELSE Val :
        dm' = DmEdge(dm, dmi, dbg_halted, ar_done, ar_rdata, dm_ready, rdata_q)
  BY DEF DebugModule
<1>2. /\ ar_rdata \in Val /\ dbg_halted \in BOOLEAN /\ dm \in DmRegs
      /\ dbg_halted => ar_rdata = gpr
  BY DEF SocTypeOK, dbg_halted
<1>. DEFINE quiet == [dm EXCEPT !.resumereq = FALSE]
            n == IF dmi = NoDmi THEN quiet ELSE Apply(quiet, dmi, dbg_halted)
<1>3. quiet \in DmRegs /\ SameEngine(dm, quiet) /\ quiet.sbreadonaddr = dm.sbreadonaddr
  <2>1. quiet \in DmRegs
    BY <1>2, SetField
  <2>2. QED
    BY <1>2, <2>1 DEF SameEngine, DmRegs
<1>. HIDE DEF quiet
<1>4. CASE dmi = NoDmi
  <2>1. n = quiet
    BY <1>4
  <2>2. dm' = Serve(dm, n, ar_done, ar_rdata, dm_ready, rdata_q)
    BY <1>1 DEF DmEdge, quiet
  <2>3. QED
    BY <1>2, <1>3, <1>4, <2>1, <2>2
<1>5. CASE dmi # NoDmi
  <2>1. dmi \in DmiWrite
    BY <1>5, DebugAssumption DEF SocTypeOK
  <2>2. n = Apply(quiet, dmi, dbg_halted)
    BY <1>5
  <2>3. n \in DmRegs /\ WriteEffect(quiet, n, dmi)
    BY <1>2, <1>3, <2>1, <2>2, ApplyType, ApplyEngine
  <2>4. WriteEffect(dm, n, dmi)
    <3>. HIDE DEF n
    <3>1. QED
      BY <1>3, <2>3 DEF WriteEffect, SameEngine, StartsSb
  <2>5. dm' = Serve(dm, n, ar_done, ar_rdata, dm_ready, rdata_q)
    BY <1>1 DEF DmEdge, quiet
  <2>6. QED
    BY <1>2, <1>5, <2>3, <2>4, <2>5
<1>6. QED
  BY <1>4, <1>5

(* EngineConsistent is not inductive: a command written while the engine   *)
(* serves the bus would break it.  The scan of the next DMI write takes    *)
(* longer than the access, so none comes.                                  *)
BusAlone == dm.eng \in {"E_SB_RD", "E_SB_WR"} =>
              dmi = NoDmi /\ (dm.mem_valid => gap # 0)

EngineInv ==
  /\ SocTypeOK
  /\ EngineConsistent
  /\ ~overtaken => BusAlone
  /\ dmi # NoDmi => gap = Gap

LEMMA EngineTick == ASSUME EngineInv, Tick PROVE EngineInv'
<1>1. /\ SocTypeOK' /\ dm \in DmRegs /\ dm' \in DmRegs
      /\ ar_done \in BOOLEAN /\ dm_ready \in BOOLEAN
  BY TypeTick DEF EngineInv, SocTypeOK
<1>2. (dmi' # NoDmi => gap' = Gap) /\ (gap # 0 => dmi' = NoDmi)
  BY DEF Tick, Scan
<1>3. SUFFICES ASSUME ~overtaken' PROVE EngineConsistent' /\ BusAlone'
  BY <1>1, <1>2 DEF EngineInv, EngineConsistent
<1>4. ~overtaken /\ ~(StartsSystemBus /\ dm.eng = "E_AR_WAIT")
  BY <1>3 DEF Tick, History
<1>5. dm_ready' = dm.mem_valid
  BY DEF Tick, Memory
<1>6. PICK n \in DmRegs, ar_rdata \in Val :
        /\ dm' = Serve(dm, n, ar_done, ar_rdata, dm_ready, rdata_q)
        /\ IF dmi = NoDmi THEN SameEngine(dm, n) ELSE WriteEffect(dm, n, dmi)
  BY EdgeEngine DEF Tick, EngineInv
<1>7. gap' = IF dmi' # NoDmi THEN Gap ELSE IF gap = 0 THEN 0 ELSE gap - 1
  BY DEF Tick, Scan
<1>8. CASE dm.eng = "E_IDLE"
  <2>1. dm' = n
    BY <1>1, <1>6, <1>8, ServeEngine
  <2>2. ~dm.abs_busy /\ ~dm.ar_valid /\ ~dm.mem_valid
    BY <1>1, <1>4, <1>8, FieldTypes DEF EngineInv, EngineConsistent
  <2>3. EngineConsistent'
    BY <1>1, <1>6, <1>8, <2>1, <2>2, FieldTypes DEF EngineConsistent, SameEngine, WriteEffect
  <2>4. BusAlone'
    <3>1. CASE dmi = NoDmi
      BY <1>6, <1>8, <2>1, <3>1 DEF BusAlone, SameEngine
    <3>2. CASE dmi # NoDmi
      BY <1>2, <1>7, <3>2, SocAssumption DEF BusAlone, EngineInv
    <3>3. QED
      BY <3>1, <3>2
  <2>5. QED
    BY <2>3, <2>4
<1>9. CASE dm.eng = "E_AR_WAIT"
  <2>1. dm.abs_busy /\ dm.ar_valid /\ ~dm.mem_valid
    BY <1>1, <1>4, <1>9, FieldTypes DEF EngineInv, EngineConsistent
  <2>2. SameEngine(dm, n)
    BY <1>4, <1>6, <1>9, <2>1 DEF WriteEffect, StartsSystemBus, StartsSb
  <2>3. CASE ar_done
    <3>1. /\ dm'.eng = "E_IDLE" /\ ~dm'.abs_busy /\ ~dm'.ar_valid
          /\ dm'.mem_valid = n.mem_valid
      <4>1. PICK v \in Val :
              dm' = [n EXCEPT !.ar_valid = FALSE, !.abs_busy = FALSE, !.eng = "E_IDLE",
                              !.data0 = v]
        <5>1. n.data0 \in Val
          BY FieldTypes
        <5>2. dm' = [n EXCEPT !.ar_valid = FALSE, !.abs_busy = FALSE, !.eng = "E_IDLE",
                              !.data0 = IF dm.ar_write THEN n.data0 ELSE ar_rdata]
          BY <1>6, <1>9, <2>3 DEF Serve
        <5>3. QED
          BY <1>6, <5>1, <5>2
      <4>2. QED
        BY <1>6, <4>1 DEF DmRegs
    <3>2. ~dm'.mem_valid
      <4>1. n.mem_valid = dm.mem_valid
        BY <2>2 DEF SameEngine
      <4>2. QED
        BY <2>1, <3>1, <4>1
    <3>3. QED
      BY <1>1, <3>1, <3>2, FieldTypes DEF EngineConsistent, BusAlone
  <2>4. CASE ~ar_done
    <3>1. /\ dm'.eng = n.eng /\ dm'.abs_busy = n.abs_busy /\ dm'.ar_valid
          /\ dm'.mem_valid = n.mem_valid
      BY <1>1, <1>6, <1>9, <2>4, ServeEngine
    <3>2. dm'.eng = "E_AR_WAIT" /\ dm'.abs_busy /\ dm'.ar_valid /\ ~dm'.mem_valid
      BY <1>9, <2>1, <2>2, <3>1 DEF SameEngine
    <3>3. QED
      BY <1>1, <3>2, FieldTypes DEF EngineConsistent, BusAlone
  <2>5. QED
    BY <2>3, <2>4
<1>10. CASE dm.eng \in {"E_SB_RD", "E_SB_WR"}
  <2>1. /\ ~dm.abs_busy /\ ~dm.ar_valid /\ (dm.mem_valid \/ dm_ready)
        /\ dmi = NoDmi /\ (dm.mem_valid => gap # 0)
    BY <1>1, <1>4, <1>10, FieldTypes DEF EngineInv, EngineConsistent, BusAlone
  <2>2. SameEngine(dm, n)
    BY <1>6, <2>1
  <2>3. /\ dm'.eng = (IF dm_ready THEN "E_IDLE" ELSE dm.eng)
        /\ ~dm'.abs_busy /\ ~dm'.ar_valid /\ ~dm'.mem_valid
    BY <1>1, <1>6, <1>10, <2>1, <2>2, ServeEngine DEF SameEngine
  <2>4. ~dm_ready => dmi' = NoDmi /\ dm_ready'
    BY <1>2, <1>5, <2>1
  <2>5. QED
    BY <1>1, <1>10, <2>3, <2>4, FieldTypes DEF EngineConsistent, BusAlone
<1>11. QED
  BY <1>1, <1>8, <1>9, <1>10, FieldTypes DEF Engine

LEMMA EngineInit == SocInit => EngineInv
<1>1. SUFFICES ASSUME SocInit PROVE EngineInv
  OBVIOUS
<1>2. SocTypeOK
  BY <1>1, TypeInit
<1>3. dm = DmReset /\ dmi = NoDmi
  BY <1>1 DEF SocInit
<1>4. /\ dm.eng = "E_IDLE" /\ ~dm.abs_busy /\ ~dm.ar_valid /\ ~dm.mem_valid
  BY <1>3 DEF DmReset
<1>5. QED
  BY <1>2, <1>3, <1>4, FieldTypes DEF EngineInv, EngineConsistent, BusAlone, SocTypeOK

LEMMA EngineRst == ASSUME EngineInv, Rst PROVE EngineInv'
<1>1. SocTypeOK'
  BY TypeRst DEF EngineInv
<1>2. QED
  BY <1>1 DEF Rst, EngineInv, EngineConsistent, BusAlone, DmReset

LEMMA EngineStutter == EngineInv /\ UNCHANGED svars => EngineInv'
<1>1. SocTypeOK /\ UNCHANGED svars => SocTypeOK'
  BY TypeStutter
<1>2. QED
  BY <1>1 DEF svars, core, memory, history, EngineInv, EngineConsistent, BusAlone

LEMMA EngineInvariant == SocSpec => []EngineInv
<1>1. EngineInv /\ [SocNext]_svars => EngineInv'
  BY EngineTick, EngineRst, EngineStutter DEF SocNext
<1>2. QED
  BY <1>1, EngineInit, PTL DEF SocSpec

(* Busy flag, request and engine agree, whatever is written when.          *)
THEOREM EngineAgrees == SocSpec => []EngineConsistent
BY EngineInvariant, PTL DEF EngineInv

-----------------------------------------------------------------------------
(* Hart and debugger at one memory.                                        *)

(* The memory is asked only in the cycle after the DMI write.              *)
LEMMA AskedOnce ==
  ASSUME EngineInv, Tick, ~overtaken', dm'.mem_valid PROVE StartsSystemBus
<1>1. dm \in DmRegs /\ ar_done \in BOOLEAN /\ dm_ready \in BOOLEAN
  BY DEF EngineInv, SocTypeOK
<1>2. ~overtaken /\ ~(StartsSystemBus /\ dm.eng = "E_AR_WAIT")
  BY DEF Tick, History
<1>3. PICK n \in DmRegs, ar_rdata \in Val :
        /\ dm' = Serve(dm, n, ar_done, ar_rdata, dm_ready, rdata_q)
        /\ IF dmi = NoDmi THEN SameEngine(dm, n) ELSE WriteEffect(dm, n, dmi)
  BY EdgeEngine DEF Tick, EngineInv
<1>4. ~(dm.eng \in {"E_SB_RD", "E_SB_WR"})
  BY <1>1, <1>3, ServeEngine
<1>5. ~dm.mem_valid
  BY <1>1, <1>2, <1>4, FieldTypes DEF EngineInv, EngineConsistent
<1>6. n.mem_valid
  <2>1. CASE dm.eng = "E_IDLE"
    BY <1>1, <1>3, <2>1, ServeEngine
  <2>2. CASE dm.eng = "E_AR_WAIT"
    BY <1>1, <1>3, <2>2 DEF Serve, DmRegs
  <2>3. QED
    BY <1>1, <1>4, <2>1, <2>2, FieldTypes DEF Engine
<1>7. QED
  BY <1>3, <1>5, <1>6 DEF SameEngine, WriteEffect, StartsSystemBus

(* A halted hart needs more than a cycle to get to an access.              *)
LEMMA HaltedStays ==
  ASSUME Tick, dbg_halted PROVE hart' \in {"FETCH", "HALTED"}
<1>1. CASE HartInReset
  BY <1>1 DEF HartInReset
<1>2. CASE HartRuns
  BY <1>2 DEF HartRuns, Fetch, Wait, mem_stall, mem_req, Exec, LoadStore, Debugged, dbg_halted
<1>3. QED
  BY <1>1, <1>2 DEF Tick

ClashInv ==
  /\ EngineInv
  /\ ~overtaken /\ ~careless /\ dm.mem_valid => hart \in {"FETCH", "HALTED"}
  /\ HaltedNeverClash

LEMMA ClashTick == ASSUME ClashInv, Tick PROVE ClashInv'
<1>1. EngineInv'
  BY EngineTick DEF ClashInv
<1>2. /\ overtaken' = (overtaken \/ (StartsSystemBus /\ dm.eng = "E_AR_WAIT"))
      /\ careless' = (careless \/ (StartsSystemBus /\ ~dbg_halted))
      /\ clash' = (clash \/ Contend)
  BY DEF Tick, History
<1>3. ~overtaken' /\ ~careless' /\ dm'.mem_valid => hart' \in {"FETCH", "HALTED"}
  BY <1>2, AskedOnce, HaltedStays DEF ClashInv
<1>4. HaltedNeverClash'
  <2>1. Contend => careless \/ overtaken
    BY DEF Contend, ClashInv
  <2>2. QED
    BY <1>2, <2>1 DEF ClashInv, HaltedNeverClash
<1>5. QED
  BY <1>1, <1>3, <1>4 DEF ClashInv

LEMMA ClashOther ==
  /\ SocInit => ClashInv
  /\ ClashInv /\ Rst => ClashInv'
  /\ ClashInv /\ UNCHANGED svars => ClashInv'
<1>1. SocInit => ClashInv
  BY EngineInit DEF SocInit, ClashInv, HaltedNeverClash
<1>2. ClashInv /\ Rst => ClashInv'
  <2>1. Rst => ~dm'.mem_valid /\ ~clash'
    BY DEF Rst, DmReset
  <2>2. QED
    BY <2>1, EngineRst DEF ClashInv, HaltedNeverClash
<1>3. ClashInv /\ UNCHANGED svars => ClashInv'
  BY EngineStutter DEF ClashInv, HaltedNeverClash, svars, core, history
<1>4. QED
  BY <1>1, <1>2, <1>3

(* Hart and debugger never reach for one word or port, if the debugger     *)
(* starts no access before the hart has halted nor over a command.         *)
THEOREM NeverClash == SocSpec => []HaltedNeverClash
<1>1. ClashInv /\ [SocNext]_svars => ClashInv'
  BY ClashTick, ClashOther DEF SocNext
<1>2. ClashInv => HaltedNeverClash
  BY DEF ClashInv
<1>3. QED
  BY <1>1, <1>2, ClashOther, PTL DEF SocSpec

-----------------------------------------------------------------------------
(* As long as haltreq has been up since the reset, the hart has not got    *)
(* past its first fetch.                                                   *)
HeldInv == held => dbg_haltreq /\ hart \in {"FETCH", "HALTED"}

LEMMA HeldTick == ASSUME HeldInv, Tick PROVE HeldInv'
<1>1. held' = (dbg_haltreq' /\ (dm.ndmreset \/ held))
  BY DEF Tick, History
<1>2. CASE dm.ndmreset
  BY <1>1, <1>2 DEF Tick, HartInReset, HeldInv
<1>3. CASE ~dm.ndmreset
  <2>1. HartRuns
    BY <1>3 DEF Tick
  <2>2. held => hart' \in {"FETCH", "HALTED"}
    BY <2>1 DEF HeldInv, HartRuns, Fetch, Wait, Stay, Exec, LoadStore, Debugged, dbg_halted
  <2>3. QED
    BY <1>1, <1>3, <2>2 DEF HeldInv
<1>4. QED
  BY <1>2, <1>3

(* The hart retires nothing before it obeys a haltreq held over a reset.   *)
THEOREM HaltsOnReset == SocSpec => HaltOnReset
<1>1. SocInit => HeldInv
  BY DEF SocInit, HeldInv
<1>2. HeldInv /\ [SocNext]_svars => HeldInv'
  <2>1. HeldInv /\ Rst => HeldInv'
    BY DEF Rst, HeldInv
  <2>2. HeldInv /\ UNCHANGED svars => HeldInv'
    BY DEF svars, core, history, HeldInv, dbg_haltreq
  <2>3. QED
    BY <2>1, <2>2, HeldTick DEF SocNext
<1>3. HeldInv => [Retires => ~held]_svars
  BY DEF HeldInv, Retires
<1>4. QED
  BY <1>1, <1>2, <1>3, PTL DEF SocSpec, HaltOnReset

-----------------------------------------------------------------------------
(* The contract of the hart's debug port.                                  *)

SameRequest(d, e) == e.ar_write = d.ar_write /\ e.ar_wdata = d.ar_wdata

(* A DMI write changes the request only to start a command, and pulses     *)
(* resumereq only for a halted hart.                                       *)
LEMMA ApplyRequest ==
  ASSUME NEW d \in DmRegs, NEW w \in DmiWrite, NEW h \in BOOLEAN
  PROVE  LET e == Apply(d, w, h)
         IN /\ d.abs_busy => SameRequest(d, e)
            /\ e.resumereq => d.resumereq \/ h
            /\ e.resumereq /\ ~d.resumereq => e.ar_valid = d.ar_valid
<1>1. w.reg \in DmReg
  BY DEF DmiWrite
<1>2. CASE w.reg = "data0"
  BY <1>2 DEF Apply, SameRequest, DmRegs
<1>3. CASE w.reg = "dmcontrol"
  <2>. DEFINE e == Dmcontrol(d, w.bits, h)
  <2>1. SameRequest(d, e) /\ e.ar_valid = d.ar_valid
    BY DEF Dmcontrol, SameRequest, DmRegs
  <2>2. e.resumereq => d.resumereq \/ h
    BY DEF Dmcontrol, DmRegs
  <2>3. QED
    BY <1>3, <2>1, <2>2 DEF Apply
<1>4. CASE w.reg = "abstractcs"
  BY <1>4 DEF Apply, SameRequest, DmRegs
<1>5. CASE w.reg = "command"
  BY <1>5 DEF Apply, Command, StartAccessReg, SameRequest, DmRegs
<1>6. CASE w.reg = "sbcs"
  BY <1>6 DEF Apply, SameRequest, DmRegs
<1>7. CASE w.reg = "sbaddress0"
  BY <1>7 DEF Apply, SbRead, SameRequest, DmRegs
<1>8. CASE w.reg = "sbdata0"
  BY <1>8 DEF Apply, SbWrite, SameRequest, DmRegs
<1>9. QED
  BY <1>1, <1>2, <1>3, <1>4, <1>5, <1>6, <1>7, <1>8 DEF DmReg

LEMMA ServeRequest ==
  ASSUME NEW d \in DmRegs, NEW n \in DmRegs, NEW done \in BOOLEAN, NEW ar_rdata,
         NEW ready \in BOOLEAN, NEW mem_rdata
  PROVE  LET e == Serve(d, n, done, ar_rdata, ready, mem_rdata)
         IN SameRequest(n, e) /\ e.resumereq = n.resumereq
BY DEF Serve, Advance, SameRequest, DmRegs

(* What a clock edge does to the request.                                  *)
LEMMA EdgeRequest ==
  ASSUME SocTypeOK, DebugModule
  PROVE  /\ dm.abs_busy => SameRequest(dm, dm')
         /\ dm'.resumereq => dmi # NoDmi /\ dbg_halted
         /\ dm'.resumereq /\ dm'.ar_valid => dm.ar_valid \/ dm.eng = "E_AR_WAIT"
<1>1. PICK ar_rdata \in IF dbg_halted THEN {gpr} ELSE Val :
        dm' = DmEdge(dm, dmi, dbg_halted, ar_done, ar_rdata, dm_ready, rdata_q)
  BY DEF DebugModule
<1>2. /\ ar_rdata \in Val /\ dbg_halted \in BOOLEAN /\ dm \in DmRegs
      /\ ar_done \in BOOLEAN /\ dm_ready \in BOOLEAN
  BY DEF SocTypeOK, dbg_halted
<1>. DEFINE quiet == [dm EXCEPT !.resumereq = FALSE]
            n == IF dmi = NoDmi THEN quiet ELSE Apply(quiet, dmi, dbg_halted)
<1>3. /\ quiet \in DmRegs /\ SameRequest(dm, quiet) /\ ~quiet.resumereq
      /\ quiet.abs_busy = dm.abs_busy /\ quiet.ar_valid = dm.ar_valid
  <2>1. quiet \in DmRegs
    BY <1>2, SetField
  <2>2. QED
    BY <1>2, <2>1 DEF SameRequest, DmRegs
<1>4. dm' = Serve(dm, n, ar_done, ar_rdata, dm_ready, rdata_q)
  BY <1>1 DEF DmEdge
<1>. HIDE DEF quiet
<1>5. /\ n \in DmRegs
      /\ dm.abs_busy => SameRequest(dm, n)
      /\ n.resumereq => dmi # NoDmi /\ dbg_halted /\ n.ar_valid = dm.ar_valid
  <2>1. CASE dmi = NoDmi
    BY <1>3, <2>1
  <2>2. CASE dmi # NoDmi
    <3>1. dmi \in DmiWrite
      BY <2>2, DebugAssumption DEF SocTypeOK
    <3>2. n = Apply(quiet, dmi, dbg_halted)
      BY <2>2
    <3>. HIDE DEF n
    <3>3. /\ n \in DmRegs
          /\ quiet.abs_busy => SameRequest(quiet, n)
          /\ n.resumereq => dbg_halted /\ n.ar_valid = quiet.ar_valid
      BY <1>2, <1>3, <3>1, <3>2, ApplyType, ApplyRequest
    <3>4. QED
      BY <1>3, <2>2, <3>3 DEF SameRequest
  <2>3. QED
    BY <2>1, <2>2
<1>. HIDE DEF n
<1>6. SameRequest(n, dm') /\ dm'.resumereq = n.resumereq
  BY <1>2, <1>4, <1>5, ServeRequest
<1>7. dm'.ar_valid => n.ar_valid \/ dm.eng = "E_AR_WAIT"
  BY <1>2, <1>4, <1>5, FieldTypes DEF Serve, Advance, DmRegs
<1>8. QED
  BY <1>5, <1>6, <1>7 DEF SameRequest

(* A resume request takes a DMI write of its own.                          *)
ContractInv == EngineInv /\ (dm.resumereq => dmi = NoDmi)

LEMMA ContractTick == ASSUME ContractInv, Tick PROVE ContractInv'
<1>1. EngineInv'
  BY EngineTick DEF ContractInv
<1>2. dm'.resumereq => dmi # NoDmi
  BY EdgeRequest DEF Tick, ContractInv, EngineInv
<1>3. dmi # NoDmi => dmi' = NoDmi
  BY SocAssumption DEF Tick, Scan, ContractInv, EngineInv
<1>4. QED
  BY <1>1, <1>2, <1>3 DEF ContractInv

LEMMA ContractOther ==
  /\ SocInit => ContractInv
  /\ ContractInv /\ Rst => ContractInv'
  /\ ContractInv /\ UNCHANGED svars => ContractInv'
<1>1. SocInit => ContractInv
  BY EngineInit DEF SocInit, ContractInv
<1>2. ContractInv /\ Rst => ContractInv'
  <2>1. Rst => ~dm'.resumereq
    BY DEF Rst, DmReset
  <2>2. QED
    BY <2>1, EngineRst DEF ContractInv
<1>3. ContractInv /\ UNCHANGED svars => ContractInv'
  BY EngineStutter DEF ContractInv, svars
<1>4. QED
  BY <1>1, <1>2, <1>3

LEMMA ContractStep ==
  ASSUME ContractInv, HartRuns, Tick, ~overtaken'
  PROVE  /\ dm.ar_valid /\ ar_done => ~dm'.ar_valid
         /\ dm.ar_valid /\ ~ar_done =>
              dm'.ar_valid /\ dm'.ar_write = dm.ar_write /\ dm'.ar_wdata = dm.ar_wdata
         /\ dm'.resumereq => /\ hart = "HALTED" /\ ~dm.resumereq
                             /\ (dm'.ar_valid => ar_busy')
<1>1. /\ dm \in DmRegs /\ ar_done \in BOOLEAN /\ dm_ready \in BOOLEAN /\ SocTypeOK
      /\ DebugModule
  BY DEF ContractInv, EngineInv, SocTypeOK, Tick
<1>2. ~overtaken
  BY DEF Tick, History
<1>3. dm.ar_valid <=> dm.eng = "E_AR_WAIT"
  BY <1>2 DEF ContractInv, EngineInv, EngineConsistent
<1>4. dm.ar_valid => dm.abs_busy
  BY <1>2, <1>3 DEF ContractInv, EngineInv, EngineConsistent
<1>5. PICK n \in DmRegs, ar_rdata \in Val :
        dm' = Serve(dm, n, ar_done, ar_rdata, dm_ready, rdata_q)
  BY <1>1, EdgeEngine
<1>6. dm.ar_valid /\ ar_done => ~dm'.ar_valid
  BY <1>1, <1>3, <1>5 DEF Serve, DmRegs
<1>7. dm.ar_valid /\ ~ar_done => dm'.ar_valid
  BY <1>1, <1>3, <1>5 DEF Serve, DmRegs
<1>8. dm.ar_valid => dm'.ar_write = dm.ar_write /\ dm'.ar_wdata = dm.ar_wdata
  BY <1>1, <1>4, EdgeRequest DEF SameRequest
<1>9. ASSUME dm'.resumereq
      PROVE  hart = "HALTED" /\ ~dm.resumereq /\ (dm'.ar_valid => ar_busy')
  <2>1. dmi # NoDmi /\ dbg_halted /\ (dm'.ar_valid => dm.ar_valid)
    BY <1>1, <1>3, <1>9, EdgeRequest
  <2>2. ~dm.resumereq
    BY <2>1 DEF ContractInv
  <2>3. dm.ar_valid => ar_busy'
    BY <2>1 DEF HartRuns, dbg_do
  <2>4. QED
    BY <2>1, <2>2, <2>3 DEF dbg_halted
<1>10. QED
  BY <1>6, <1>7, <1>8, <1>9

(* The debug module keeps to what the core relies on.                      *)
THEOREM KeepsContract == SocSpec => CoreContract
<1>1. ContractInv /\ [SocNext]_svars => ContractInv'
  BY ContractTick, ContractOther DEF SocNext
<1>2. ContractInv =>
        [HartRuns /\ Tick /\ ~overtaken' =>
           /\ dm.ar_valid /\ ar_done => ~dm'.ar_valid
           /\ dm.ar_valid /\ ~ar_done =>
                dm'.ar_valid /\ dm'.ar_write = dm.ar_write /\ dm'.ar_wdata = dm.ar_wdata
           /\ dm'.resumereq => /\ hart = "HALTED" /\ ~dm.resumereq
                               /\ (dm'.ar_valid => ar_busy')]_svars
  BY ContractStep
<1>3. QED
  BY <1>1, <1>2, ContractOther, PTL DEF SocSpec, CoreContract
-----------------------------------------------------------------------------
(* Register commands.                                                      *)

(* The request to the hart and the busy flag are one; when the hart has    *)
(* answered, it is halted and its register is what a write asked for.  A   *)
(* resume that comes with a command finds it served, or the hart in reset. *)
CommandInv ==
  /\ SocTypeOK
  /\ dm.ar_valid = dm.abs_busy
  /\ dm.eng = "E_AR_WAIT" => dm.ar_valid
  /\ dm.resumereq /\ dm.eng = "E_AR_WAIT" => ar_busy \/ hart # "HALTED"
  /\ dm.eng = "E_AR_WAIT" /\ ar_done =>
       hart = "HALTED" /\ (dm.ar_write => gpr = dm.ar_wdata)

(* A command is started by a DMI write, when none is under way, and ended  *)
(* by the hart's answer alone.                                             *)
LEMMA CommandEdge ==
  ASSUME CommandInv, DebugModule
  PROVE  /\ dm'.ar_valid = dm'.abs_busy
         /\ dm'.eng = "E_AR_WAIT" => dm'.ar_valid
         /\ dm'.eng = "E_AR_WAIT" /\ dm.ar_valid => dm.eng = "E_AR_WAIT"
         /\ dm.abs_busy /\ ~dm'.abs_busy =>
              /\ dm.eng = "E_AR_WAIT" /\ ar_done
              /\ dbg_halted /\ ~dm.ar_write => dm'.data0 = gpr
<1>1. /\ dm \in DmRegs /\ ar_done \in BOOLEAN /\ dm_ready \in BOOLEAN
      /\ SocTypeOK /\ dm.eng \in Engine
  BY FieldTypes DEF CommandInv, SocTypeOK
<1>2. /\ dm.ar_valid = dm.abs_busy
      /\ dm.eng = "E_AR_WAIT" => dm.ar_valid
  BY DEF CommandInv
<1>3. PICK n \in DmRegs, ar_rdata \in Val :
        /\ dm' = Serve(dm, n, ar_done, ar_rdata, dm_ready, rdata_q)
        /\ IF dmi = NoDmi THEN SameEngine(dm, n) ELSE WriteEffect(dm, n, dmi)
        /\ dbg_halted => ar_rdata = gpr
  BY <1>1, EdgeEngine
<1>4. /\ n.ar_valid = n.abs_busy
      /\ dm.abs_busy => n.abs_busy
      /\ n.eng = "E_AR_WAIT" => n.ar_valid
      /\ n.eng = "E_AR_WAIT" /\ dm.ar_valid => dm.eng = "E_AR_WAIT"
  BY <1>1, <1>2, <1>3, FieldTypes DEF SameEngine, WriteEffect
<1>5. CASE dm.eng = "E_AR_WAIT" /\ ar_done
  <2>1. dm'.eng = "E_IDLE" /\ dm'.abs_busy = FALSE /\ dm'.ar_valid = FALSE
    BY <1>1, <1>3, <1>5 DEF Serve, DmRegs
  <2>2. ~dm.ar_write => dm'.data0 = ar_rdata
    BY <1>1, <1>3, <1>5 DEF Serve, DmRegs
  <2>3. QED
    BY <1>3, <1>5, <2>1, <2>2
<1>6. CASE dm.eng = "E_AR_WAIT" /\ ~ar_done
  <2>1. dm'.eng = n.eng /\ dm'.abs_busy = n.abs_busy /\ dm'.ar_valid
    BY <1>1, <1>3, <1>6, ServeEngine
  <2>2. QED
    BY <1>2, <1>4, <1>6, <2>1
<1>7. CASE dm.eng # "E_AR_WAIT"
  <2>1. /\ dm'.eng \in {"E_IDLE", n.eng}
        /\ dm'.abs_busy = n.abs_busy /\ dm'.ar_valid = n.ar_valid
    <3>1. CASE dm.eng = "E_IDLE"
      BY <1>1, <1>3, <3>1, ServeEngine
    <3>2. CASE dm.eng \in {"E_SB_RD", "E_SB_WR"}
      BY <1>1, <1>3, <3>2, ServeEngine
    <3>3. QED
      BY <1>1, <1>7, <3>1, <3>2 DEF Engine
  <2>2. QED
    BY <1>2, <1>4, <1>7, <2>1
<1>8. QED
  BY <1>5, <1>6, <1>7

LEMMA CommandTick == ASSUME CommandInv, Tick PROVE CommandInv'
<1>1. SocTypeOK /\ SocTypeOK' /\ DebugModule /\ dm.abs_busy \in BOOLEAN
  BY TypeTick, FieldTypes DEF CommandInv, SocTypeOK, Tick
<1>2. /\ dm'.ar_valid = dm'.abs_busy
      /\ dm'.eng = "E_AR_WAIT" => dm'.ar_valid
      /\ dm'.eng = "E_AR_WAIT" /\ dm.ar_valid => dm.eng = "E_AR_WAIT"
  BY <1>1, CommandEdge
<1>3. /\ dm.abs_busy => SameRequest(dm, dm')
      /\ dm'.resumereq => dbg_halted
      /\ dm'.resumereq /\ dm'.ar_valid => dm.ar_valid \/ dm.eng = "E_AR_WAIT"
  BY <1>1, EdgeRequest
<1>4. CASE HartInReset
  BY <1>1, <1>2, <1>4 DEF HartInReset, CommandInv
<1>5. CASE HartRuns
  <2>1. ar_done' = dbg_do /\ ar_busy' = (dm.ar_valid /\ (dbg_do \/ ar_busy)) /\ RegFile
    BY <1>5 DEF HartRuns
  <2>2. dm'.resumereq /\ dm'.eng = "E_AR_WAIT" => ar_busy'
    BY <1>2, <1>3, <2>1 DEF CommandInv, dbg_do
  <2>3. ASSUME dm'.eng = "E_AR_WAIT", ar_done'
        PROVE  hart' = "HALTED" /\ (dm'.ar_write => gpr' = dm'.ar_wdata)
    <3>1. dbg_halted /\ dm.ar_valid /\ ~ar_busy
      BY <2>1, <2>3 DEF dbg_do
    <3>2. ~dm.resumereq
      BY <1>2, <2>3, <3>1 DEF CommandInv, dbg_halted
    <3>3. hart' = "HALTED"
      BY <1>5, <3>1, <3>2 DEF HartRuns, Fetch, Wait, Stay, Exec, LoadStore, Debugged, dbg_halted
    <3>4. dm'.ar_write = dm.ar_write /\ dm'.ar_wdata = dm.ar_wdata
      BY <1>3, <3>1 DEF CommandInv, SameRequest
    <3>5. dm.ar_write => gpr' = dm.ar_wdata
      BY <2>1, <3>1 DEF RegFile, dbg_do
    <3>6. QED
      BY <3>3, <3>4, <3>5
  <2>4. QED
    BY <1>1, <1>2, <2>2, <2>3 DEF CommandInv
<1>6. QED
  BY <1>4, <1>5 DEF Tick

LEMMA CommandOther ==
  /\ SocInit => CommandInv
  /\ CommandInv /\ Rst => CommandInv'
  /\ CommandInv /\ UNCHANGED svars => CommandInv'
<1>1. SocInit => CommandInv
  BY TypeInit DEF SocInit, CommandInv, DmReset
<1>2. CommandInv /\ Rst => CommandInv'
  <2>1. SUFFICES ASSUME CommandInv, Rst PROVE CommandInv'
    OBVIOUS
  <2>2. SocTypeOK'
    BY <2>1, TypeRst DEF CommandInv
  <2>3. dm'.eng = "E_IDLE" /\ dm'.ar_valid = FALSE /\ dm'.abs_busy = FALSE
    BY <2>1 DEF Rst, DmReset
  <2>4. QED
    BY <2>2, <2>3 DEF CommandInv
<1>3. CommandInv /\ UNCHANGED svars => CommandInv'
  BY TypeStutter DEF CommandInv, svars, core
<1>4. QED
  BY <1>1, <1>2, <1>3

(* A register command ends with the hart halted and does what it says, in  *)
(* whatever order the debugger writes.                                     *)
THEOREM CommandsDoWhatTheySay == SocSpec => CommandResult
<1>1. CommandInv /\ [SocNext]_svars => CommandInv'
  BY CommandTick, CommandOther DEF SocNext
<1>2. ASSUME CommandInv, Tick, dm.abs_busy, ~dm'.abs_busy
      PROVE  hart = "HALTED" /\ IF dm.ar_write THEN gpr = dm.ar_wdata ELSE dm'.data0 = gpr
  <2>1. /\ dm.eng = "E_AR_WAIT" /\ ar_done
        /\ dbg_halted /\ ~dm.ar_write => dm'.data0 = gpr
    BY <1>2, CommandEdge DEF Tick
  <2>2. QED
    BY <1>2, <2>1 DEF CommandInv, dbg_halted
<1>3. CommandInv =>
        [Tick /\ dm.abs_busy /\ ~dm'.abs_busy =>
           /\ hart = "HALTED"
           /\ IF dm.ar_write THEN gpr = dm.ar_wdata ELSE dm'.data0 = gpr]_svars
  BY <1>2
<1>4. QED
  BY <1>1, <1>3, CommandOther, PTL DEF SocSpec, CommandResult

-----------------------------------------------------------------------------
(* The memory both share.                                                  *)

(* A store of the FPGA's hart reaches the memory in the first of its two   *)
(* cycles, and a load has its word at the end of it.                       *)
HalfDone == board = "fpga" /\ hart = "ACCESS" /\ mem_stall_q

SharedInv ==
  /\ EngineInv
  /\ ~clash => /\ mem = IF HalfDone /\ access.write
                        THEN [last EXCEPT ![access.a] = access.v] ELSE last
               /\ HalfDone /\ ~access.write => rdata_q = last[access.a]
  /\ ~clash /\ ~overtaken /\ dm.eng = "E_SB_RD" /\ dm_ready => rdata_q = expect

(* The simulation SoC: the ports are apart, so mem is what was written.    *)
LEMMA SharedSoc ==
  ASSUME SharedInv, NEW core_rst \in BOOLEAN, Memory(core_rst), History(core_rst),
         ~clash', board = "soc"
  PROVE  /\ mem' = last'
         /\ dm.mem_valid /\ ~dm.mem_write => rdata_q' = last[dm.mem_addr]
<1>1. ~clash /\ ~Contend /\ last' = Completed(core_rst)
  BY DEF History
<1>2. mem = last /\ SocMemory /\ ~mem_stall
  BY <1>1 DEF SharedInv, HalfDone, Memory, mem_stall
<1>3. mem' = last'
  BY <1>1, <1>2 DEF SocMemory, Contend, Completed, dmem_we
<1>4. QED
  BY <1>2, <1>3 DEF SocMemory

(* The FPGA: one port, which the debugger finds free.                      *)
LEMMA SharedFpga ==
  ASSUME SharedInv, NEW core_rst \in BOOLEAN, Memory(core_rst), History(core_rst),
         HartRuns \/ (core_rst /\ HartInReset), ~clash', board = "fpga", board' = board
  PROVE  /\ mem' = IF HalfDone' /\ access'.write
                   THEN [last' EXCEPT ![access'.a] = access'.v] ELSE last'
         /\ HalfDone' /\ ~access'.write => rdata_q' = last'[access'.a]
         /\ dm.mem_valid /\ ~dm.mem_write => rdata_q' = last[dm.mem_addr]
<1>1. /\ ~clash /\ ~Contend /\ last' = Completed(core_rst)
      /\ FpgaMemory /\ mem_stall_q' = (~core_rst /\ mem_req /\ ~mem_stall_q)
  BY DEF History, Memory
<1>2. /\ last \in [Addr -> Val] /\ access.a \in Addr /\ dm.mem_addr \in Addr
      /\ mem = IF HalfDone /\ access.write
               THEN [last EXCEPT ![access.a] = access.v] ELSE last
      /\ HalfDone /\ ~access.write => rdata_q = last[access.a]
      /\ dm.mem_valid \in BOOLEAN /\ dm.mem_write \in BOOLEAN
  BY <1>1, AccessTypes, FieldTypes DEF SharedInv, EngineInv, SocTypeOK
<1>3. CASE core_rst
  <2>1. ~HalfDone' /\ mem' = last'
    BY <1>1, <1>3 DEF HalfDone, Completed
  <2>2. dm.mem_valid => mem = last
    BY <1>1, <1>2 DEF Contend, HalfDone
  <2>3. QED
    BY <1>1, <2>1, <2>2 DEF FpgaMemory, portB_addr
<1>4. CASE ~core_rst /\ hart # "ACCESS"
  <2>1. mem = last /\ ~dmem_we
    BY <1>2, <1>4 DEF HalfDone, dmem_we
  <2>2. mem' = last'
    BY <1>1, <1>4, <2>1 DEF FpgaMemory, portB_we, portB_addr, portB_wdata, Completed
  <2>3. ~HalfDone'
    <3>1. hart' = "ACCESS" => hart = "EXEC"
      BY <1>4 DEF HartRuns, Fetch, Wait, Stay, Exec, LoadStore, Debugged
    <3>2. QED
      BY <1>1, <3>1 DEF HalfDone, mem_req
  <2>4. QED
    BY <1>1, <2>1, <2>2, <2>3 DEF FpgaMemory, portB_addr
<1>5. CASE ~core_rst /\ hart = "ACCESS"
  <2>1. ~dm.mem_valid /\ HartRuns /\ portB_addr = access.a /\ portB_wdata = access.v
    BY <1>1, <1>2, <1>5 DEF Contend, portB_addr, portB_wdata
  <2>2. CASE mem_stall_q
    <3>1. ~HalfDone' /\ ~mem_stall
      BY <1>1, <2>2 DEF HalfDone, mem_stall
    <3>2. mem' = last'
      <4>1. CASE access.write
        BY <1>1, <1>2, <1>5, <2>1, <2>2, <3>1, <4>1
           DEF HalfDone, FpgaMemory, portB_we, dmem_we, Completed
      <4>2. CASE ~access.write
        BY <1>1, <1>2, <1>5, <2>1, <3>1, <4>2 DEF FpgaMemory, portB_we, dmem_we, Completed
      <4>3. QED
        BY <4>1, <4>2
    <3>3. QED
      BY <2>1, <3>1, <3>2
  <2>3. CASE ~mem_stall_q
    <3>1. mem = last /\ mem_stall
      BY <1>2, <1>5, <2>3 DEF HalfDone, mem_stall, mem_req
    <3>2. last' = last
      BY <1>1, <1>5, <2>1, <3>1 DEF Completed
    <3>3. access' = access /\ hart' = "ACCESS"
      BY <1>5, <2>1, <3>1 DEF HartRuns, Fetch, Wait, Stay, Exec, LoadStore, Debugged, dbg_halted
    <3>4. HalfDone'
      BY <1>1, <1>5, <2>3, <3>3 DEF HalfDone, mem_req
    <3>5. mem' = IF access.write THEN [last EXCEPT ![access.a] = access.v] ELSE last
      BY <1>1, <1>5, <2>1, <3>1 DEF FpgaMemory, portB_we, dmem_we
    <3>6. rdata_q' = last[access.a]
      BY <1>1, <2>1, <3>1 DEF FpgaMemory
    <3>7. QED
      BY <2>1, <3>2, <3>3, <3>4, <3>5, <3>6
  <2>4. QED
    BY <2>2, <2>3 DEF SharedInv, EngineInv, SocTypeOK
<1>6. QED
  BY <1>3, <1>4, <1>5

(* A system-bus read that is under way was asked for by itself.            *)
LEMMA ReadAsked ==
  ASSUME EngineInv, Tick, ~overtaken
  PROVE  /\ dm'.eng = "E_SB_RD" /\ dm_ready' => dm.mem_valid /\ ~dm.mem_write
         /\ dm.eng = "E_SB_RD" /\ dm'.eng = "E_IDLE" => dm_ready /\ dm'.sbdata0 = rdata_q
<1>1. /\ dm \in DmRegs /\ ar_done \in BOOLEAN /\ dm_ready \in BOOLEAN
      /\ dm.mem_valid \in BOOLEAN /\ dm_ready' = dm.mem_valid
  BY FieldTypes DEF EngineInv, SocTypeOK, Tick, Memory
<1>2. /\ dm.mem_valid => dm.eng = IF dm.mem_write THEN "E_SB_WR" ELSE "E_SB_RD"
      /\ dm.eng \in {"E_SB_RD", "E_SB_WR"} => dmi = NoDmi
  BY DEF EngineInv, EngineConsistent, BusAlone
<1>3. PICK n \in DmRegs, ar_rdata \in Val :
        /\ dm' = Serve(dm, n, ar_done, ar_rdata, dm_ready, rdata_q)
        /\ IF dmi = NoDmi THEN SameEngine(dm, n) ELSE WriteEffect(dm, n, dmi)
  BY EdgeEngine DEF Tick, EngineInv
<1>4. dm.eng \in {"E_SB_RD", "E_SB_WR"} => dm'.eng = IF dm_ready THEN "E_IDLE" ELSE dm.eng
  BY <1>1, <1>2, <1>3, ServeEngine DEF SameEngine
<1>5. dm.eng = "E_SB_RD" /\ dm_ready => dm'.sbdata0 = rdata_q
  BY <1>1, <1>3 DEF Serve, Advance, DmRegs
<1>6. QED
  BY <1>1, <1>2, <1>4, <1>5

LEMMA SharedTick == ASSUME SharedInv, Tick PROVE SharedInv'
<1>1. EngineInv /\ EngineInv' /\ SocTypeOK
  BY EngineTick DEF SharedInv, EngineInv
<1>2. /\ Memory(dm.ndmreset) /\ History(dm.ndmreset) /\ board' = board
      /\ dm.ndmreset \in BOOLEAN
      /\ HartRuns \/ (dm.ndmreset /\ HartInReset)
  BY <1>1 DEF Tick, SocTypeOK, DmRegs
<1>3. SUFFICES ASSUME ~clash'
      PROVE  /\ mem' = IF HalfDone' /\ access'.write
                       THEN [last' EXCEPT ![access'.a] = access'.v] ELSE last'
             /\ HalfDone' /\ ~access'.write => rdata_q' = last'[access'.a]
             /\ ~overtaken' /\ dm'.eng = "E_SB_RD" /\ dm_ready' => rdata_q' = expect'
  BY <1>1 DEF SharedInv
<1>4. /\ mem' = IF HalfDone' /\ access'.write
                THEN [last' EXCEPT ![access'.a] = access'.v] ELSE last'
      /\ HalfDone' /\ ~access'.write => rdata_q' = last'[access'.a]
      /\ dm.mem_valid /\ ~dm.mem_write => rdata_q' = last[dm.mem_addr]
  <2>1. CASE board = "fpga"
    BY <1>2, <1>3, <2>1, SharedFpga
  <2>2. CASE board = "soc"
    BY <1>2, <1>3, <2>2, SharedSoc DEF HalfDone
  <2>3. QED
    BY <1>1, <2>1, <2>2, SocAssumption DEF SocTypeOK
<1>5. ASSUME ~overtaken', dm'.eng = "E_SB_RD", dm_ready' PROVE rdata_q' = expect'
  <2>1. ~overtaken
    BY <1>2, <1>5 DEF History
  <2>2. dm.mem_valid /\ ~dm.mem_write
    BY <1>1, <1>5, <2>1, ReadAsked
  <2>3. expect' = last[dm.mem_addr]
    BY <1>2, <2>2 DEF History
  <2>4. QED
    BY <1>4, <2>2, <2>3
<1>6. QED
  BY <1>4, <1>5

LEMMA SharedOther ==
  /\ SocInit => SharedInv
  /\ SharedInv /\ Rst => SharedInv'
  /\ SharedInv /\ UNCHANGED svars => SharedInv'
<1>1. SocInit => SharedInv
  BY EngineInit DEF SocInit, SharedInv, HalfDone, DmReset
<1>2. SharedInv /\ Rst => SharedInv'
  <2>1. SUFFICES ASSUME SharedInv, Rst PROVE SharedInv'
    OBVIOUS
  <2>2. EngineInv'
    BY <2>1, EngineRst DEF SharedInv
  <2>3. dm'.eng = "E_IDLE" /\ ~HalfDone' /\ mem' = last'
    BY <2>1 DEF Rst, HartInReset, HalfDone, DmReset
  <2>4. QED
    BY <2>2, <2>3 DEF SharedInv
<1>3. SharedInv /\ UNCHANGED svars => SharedInv'
  <2>1. SUFFICES ASSUME SharedInv, UNCHANGED svars PROVE SharedInv'
    OBVIOUS
  <2>2. EngineInv'
    BY <2>1, EngineStutter DEF SharedInv
  <2>3. HalfDone' = HalfDone
    BY <2>1 DEF HalfDone, svars, core, memory
  <2>4. QED
    BY <2>1, <2>2, <2>3 DEF SharedInv, svars, core, memory, history
<1>4. QED
  BY <1>1, <1>2, <1>3

(* On either board, hart and debugger read what the last completed write   *)
(* of either left, as long as the two have not reached for one thing.      *)
THEOREM ReadsAreFresh == SocSpec => ReadsLastWritten
<1>1. SharedInv /\ [SocNext]_svars => SharedInv'
  BY SharedTick, SharedOther DEF SocNext
<1>2. ASSUME SharedInv, Tick, ~clash', ~overtaken
      PROVE  /\ dm.eng = "E_SB_RD" /\ dm'.eng = "E_IDLE" => dm'.sbdata0 = expect
             /\ Retires /\ hart = "ACCESS" /\ ~access.write => gpr' = last[access.a]
  <2>1. ~clash /\ EngineInv
    BY <1>2 DEF Tick, History, SharedInv
  <2>2. dm.eng = "E_SB_RD" /\ dm'.eng = "E_IDLE" => dm'.sbdata0 = expect
    BY <1>2, <2>1, ReadAsked DEF SharedInv
  <2>3. ASSUME Retires, hart = "ACCESS", ~access.write PROVE gpr' = last[access.a]
    <3>1. HartRuns /\ hart' = "FETCH" /\ RegFile
      BY <2>3 DEF Retires, HartRuns
    <3>2. ~mem_stall
      BY <2>3, <3>1 DEF HartRuns, Fetch, Wait, Stay, Exec, LoadStore, Debugged, dbg_halted
    <3>3. gpr' = dmem_rdata
      BY <2>3, <3>1, <3>2 DEF RegFile, dbg_do, dbg_halted
    <3>4. mem = last
      BY <1>2, <2>1, <2>3 DEF SharedInv
    <3>5. board = "fpga" => HalfDone
      BY <2>3, <3>2 DEF HalfDone, mem_stall, mem_req
    <3>6. QED
      BY <1>2, <2>1, <2>3, <3>3, <3>4, <3>5 DEF SharedInv, dmem_rdata
  <2>4. QED
    BY <2>2, <2>3
<1>3. SharedInv =>
        [Tick /\ ~clash' /\ ~overtaken =>
           /\ dm.eng = "E_SB_RD" /\ dm'.eng = "E_IDLE" => dm'.sbdata0 = expect
           /\ Retires /\ hart = "ACCESS" /\ ~access.write => gpr' = last[access.a]]_svars
  BY <1>2
<1>4. QED
  BY <1>1, <1>3, SharedOther, PTL DEF SocSpec, ReadsLastWritten
=============================================================================
