-------------------------- MODULE KavachaAxilProofs --------------------------
(***************************************************************************)
(* The two FSMs of kavacha_axil.sv are in step, hold what they offer and   *)
(* together are a memory port, for every set of addresses, data and        *)
(* requests, every wait and every reset, with a slave that takes the       *)
(* address and the data of a write together.                               *)
(***************************************************************************)
EXTENDS KavachaAxil, TLAPS

LEMMA RequestType ==
  ASSUME AxTypeOK, mem_req
  PROVE  req \in Reqs /\ req.write \in BOOLEAN /\ req.addr \in Addr
<1>1. req \in Reqs
  BY DEF AxTypeOK, mem_req
<1>2. req \in Port!Request
  BY <1>1, AxilAssumption DEF Port!PortAssumption
<1>3. QED
  BY <1>1, <1>2 DEF Port!Request

(* A core that asks for something is not the core that asks for nothing.   *)
LEMMA NoReqApart == \A r \in Reqs : r # NoReq
BY AxilAssumption DEF Port!PortAssumption

LEMMA StoredType ==
  ASSUME AxTypeOK, mem_req PROVE Port!Stored(mem, req) \in [Addr -> Port!Word]
<1>1. req \in Port!Request
  BY RequestType, AxilAssumption DEF Port!PortAssumption
<1>2. CASE req.write /\ req.addr \in Dram
  <2>1. req.addr \in Addr /\ req.data \in Port!Word
    BY <1>1 DEF Port!Request
  <2>2. [l \in Lane |-> IF l \in req.strb THEN req.data[l] ELSE mem[req.addr][l]]
          \in Port!Word
    BY <2>1 DEF Port!Word, AxTypeOK
  <2>3. QED
    BY <1>2, <2>1, <2>2 DEF Port!Stored, AxTypeOK
<1>3. CASE ~(req.write /\ req.addr \in Dram)
  BY <1>3 DEF Port!Stored, AxTypeOK
<1>4. QED
  BY <1>2, <1>3

-----------------------------------------------------------------------------
(* A clock cycle, by the master's state: what the slave can do meanwhile.  *)

LEMMA CycleIdle ==
  ASSUME AxInv, ~Split, AxTick, st = "AX_IDLE"
  PROVE  /\ st' = IF ~mem_req THEN "AX_IDLE" ELSE IF req.write THEN "AX_AW" ELSE "AX_AR"
         /\ s' = "SL_IDLE" /\ tohost_we' = FALSE /\ UNCHANGED <<raddr_q, mem>>
         /\ reply' = NoReply
         /\ IF mem_req THEN req' = req ELSE req' \in Reqs \cup {NoReq}
<1>1. s = "SL_IDLE"
  BY DEF AxInv, InStep
<1>2. SlaveWait
  BY <1>1 DEF AxTick, Slave, SlaveAddress, SlaveWrite, SlaveRespond, TakeWrite,
     arvalid, awvalid, wvalid, rvalid, bvalid
<1>3. ~done
  BY DEF done
<1>4. QED
  BY <1>1, <1>2, <1>3 DEF AxTick, Master, SlaveWait, Core, mem_stall

LEMMA CycleAddress ==
  ASSUME AxInv, ~Split, AxTick, st = "AX_AR"
  PROVE  /\ \/ st' = "AX_R" /\ s' = "SL_R" /\ raddr_q' = req.addr
            \/ st' = "AX_AR" /\ s' = "SL_IDLE" /\ UNCHANGED raddr_q
         /\ arready => st' = "AX_R"
         /\ tohost_we' = FALSE /\ UNCHANGED mem
         /\ reply' = NoReply /\ req' = req
<1>1. s = "SL_IDLE" /\ mem_req
  BY DEF AxInv, InStep, RequestHeld
<1>2. ~done /\ ~awvalid /\ ~wvalid /\ ~rvalid /\ ~bvalid /\ arvalid
  BY <1>1 DEF done, awvalid, wvalid, rvalid, bvalid, arvalid
<1>3. IF arready THEN SlaveAddress ELSE SlaveWait
  BY <1>2 DEF AxTick, Slave, SlaveAddress, SlaveWrite, SlaveRespond, SlaveWait
<1>4. req' = req /\ reply' = NoReply
  BY <1>1, <1>2 DEF AxTick, Core, mem_stall
<1>5. QED
  BY <1>1, <1>2, <1>3, <1>4 DEF AxTick, Master, SlaveAddress, SlaveWait

LEMMA CycleWrite ==
  ASSUME AxInv, ~Split, AxTick, st = "AX_AW"
  PROVE  /\ \/ st' = "AX_B" /\ TakeWrite
            \/ /\ st' = "AX_AW" /\ s' = "SL_IDLE"
               /\ tohost_we' = FALSE /\ UNCHANGED <<raddr_q, mem>>
         /\ awready /\ wready => st' = "AX_B"
         /\ reply' = NoReply /\ req' = req
<1>1. s = "SL_IDLE" /\ mem_req
  BY DEF AxInv, InStep, RequestHeld
<1>2. ~done /\ awvalid /\ wvalid /\ ~rvalid /\ ~bvalid /\ ~arvalid
  BY <1>1 DEF done, awvalid, wvalid, rvalid, bvalid, arvalid
<1>3. awready <=> wready
  BY <1>1 DEF awready, wready
<1>4. IF awready THEN SlaveWrite ELSE SlaveWait
  BY <1>2, <1>3 DEF AxTick, Slave, SlaveAddress, SlaveWrite, SlaveRespond, SlaveWait
<1>5. req' = req /\ reply' = NoReply
  BY <1>1, <1>2 DEF AxTick, Core, mem_stall
<1>6. QED
  BY <1>1, <1>3, <1>4, <1>5 DEF AxTick, Master, SlaveWrite, SlaveWait

LEMMA CycleResponse ==
  ASSUME AxInv, ~Split, AxTick, st \in {"AX_R", "AX_B"}
  PROVE  /\ tohost_we' = FALSE /\ UNCHANGED <<raddr_q, mem>>
         /\ \/ /\ UNCHANGED <<st, s, req>> /\ reply' = NoReply
            \/ /\ st' = "AX_IDLE" /\ s' = "SL_IDLE"
               /\ req' \in Reqs \cup {NoReq}
               /\ reply' = IF req.write THEN Ack ELSE mem[req.addr]
<1>1. /\ mem_req /\ (req.write <=> st = "AX_B")
      /\ s = IF st = "AX_R" THEN "SL_R" ELSE "SL_B"
      /\ st = "AX_R" => raddr_q = req.addr
  BY DEF AxInv, InStep, RequestHeld
<1>2. ~awvalid /\ ~wvalid /\ ~arvalid
  BY DEF awvalid, wvalid, arvalid
<1>3. done <=> (rvalid /\ rready) \/ (bvalid /\ bready)
  BY <1>1 DEF done, rready, bready
<1>4. IF done THEN SlaveRespond ELSE SlaveWait
  BY <1>2, <1>3 DEF AxTick, Slave, SlaveAddress, SlaveWrite, SlaveRespond, SlaveWait
<1>5. IF done THEN st' = "AX_IDLE" ELSE st' = st
  BY <1>1, <1>3 DEF AxTick, Master, rready, bready, rvalid, bvalid, done
<1>6. /\ done => /\ req' \in Reqs \cup {NoReq}
                 /\ reply' = IF req.write THEN Ack ELSE mem[req.addr]
      /\ ~done => req' = req /\ reply' = NoReply
  BY <1>1 DEF AxTick, Core, mem_stall, rdata
<1>7. QED
  BY <1>4, <1>5, <1>6 DEF SlaveRespond, SlaveWait

-----------------------------------------------------------------------------
LEMMA InvInit == AxInit => AxInv
BY NoReqApart, AxilAssumption
   DEF AxInit, AxInv, AxTypeOK, InStep, RequestHeld, mem_req

LEMMA InvReset == AxInv /\ AxReset => AxInv'
BY DEF AxReset, Inputs, AxInv, AxTypeOK, InStep, RequestHeld, mem_req

LEMMA InvTick == ASSUME AxInv, ~Split, AxTick PROVE AxInv'
<1>. USE DEF AxTypeOK, InStep, RequestHeld, mem_req
<1>1. rst' \in BOOLEAN /\ ready' \in BOOLEAN
  BY DEF AxTick, Inputs
<1>2. CASE st = "AX_IDLE"
  <2>1. CASE req = NoReq
    BY <1>1, <1>2, <2>1, CycleIdle DEF AxInv
  <2>2. CASE req # NoReq /\ req.write
    <3>1. /\ st' = "AX_AW" /\ s' = "SL_IDLE"
          /\ UNCHANGED <<req, raddr_q, mem>>
          /\ tohost_we' = FALSE /\ reply' = NoReply
      BY <1>2, <2>2, CycleIdle
    <3>3. AxTypeOK'
      BY <1>1, <3>1 DEF AxInv
    <3>4. InStep' /\ RequestHeld'
      BY <2>2, <3>1
    <3>5. QED
      BY <3>3, <3>4 DEF AxInv
  <2>3. CASE req # NoReq /\ ~req.write
    <3>1. /\ st' = "AX_AR" /\ s' = "SL_IDLE"
          /\ UNCHANGED <<req, raddr_q, mem>>
          /\ tohost_we' = FALSE /\ reply' = NoReply
      BY <1>2, <2>3, CycleIdle
    <3>3. AxTypeOK'
      BY <1>1, <3>1 DEF AxInv
    <3>4. InStep' /\ RequestHeld'
      BY <2>3, <3>1
    <3>5. QED
      BY <3>3, <3>4 DEF AxInv
  <2>4. QED
    BY <2>1, <2>2, <2>3
<1>3. CASE st = "AX_AR"
  <2>1. req # NoReq /\ ~req.write /\ req.addr \in Addr /\ s = "SL_IDLE"
    BY <1>3, RequestType DEF AxInv
  <2>2. AxTypeOK'
    BY <1>1, <1>3, <2>1, CycleAddress DEF AxInv
  <2>3. InStep' /\ RequestHeld'
    BY <1>3, <2>1, CycleAddress
  <2>4. QED
    BY <2>2, <2>3 DEF AxInv
<1>4. CASE st = "AX_AW"
  <2>1. req # NoReq /\ req.write
    BY <1>4, RequestType DEF AxInv
  <2>2. Port!Stored(mem, req) \in [Addr -> Port!Word]
    BY <2>1, StoredType DEF AxInv
  <2>3. req' = req /\ reply' = NoReply
    BY <1>4, CycleWrite
  <2>4. CASE st' = "AX_B" /\ TakeWrite
    <3>1. /\ s' = "SL_B" /\ mem' = Port!Stored(mem, req)
          /\ tohost_we' \in BOOLEAN /\ raddr_q' = raddr_q
      BY <2>4 DEF TakeWrite
    <3>2. AxTypeOK'
      BY <1>1, <2>2, <2>3, <2>4, <3>1 DEF AxInv
    <3>3. InStep' /\ RequestHeld'
      BY <2>1, <2>3, <2>4, <3>1
    <3>4. QED
      BY <3>2, <3>3 DEF AxInv
  <2>5. CASE /\ st' = "AX_AW" /\ s' = "SL_IDLE"
             /\ tohost_we' = FALSE /\ UNCHANGED <<raddr_q, mem>>
    <3>1. AxTypeOK'
      BY <1>1, <2>3, <2>5 DEF AxInv
    <3>2. InStep' /\ RequestHeld'
      BY <2>1, <2>3, <2>5
    <3>3. QED
      BY <3>1, <3>2 DEF AxInv
  <2>6. QED
    BY <1>4, <2>4, <2>5, CycleWrite
<1>5. CASE st \in {"AX_R", "AX_B"}
  <2>1. mem[req.addr] \in Port!Word
    BY <1>5, RequestType DEF AxInv
  <2>2. QED
    BY <1>1, <1>5, <2>1, CycleResponse DEF AxInv
<1>6. QED
  BY <1>2, <1>3, <1>4, <1>5 DEF AxInv

(* Types, the two machines in step, and the request that is held.          *)
THEOREM AxInvariant == ASSUME ~Split PROVE AxSpec => []AxInv
<1>1. AxInv /\ [AxNext]_avars => AxInv'
  <2>1. AxInv /\ UNCHANGED avars => AxInv'
    BY DEF avars, AxInv, AxTypeOK, InStep, RequestHeld, mem_req
  <2>2. QED
    BY <2>1, InvReset, InvTick DEF AxNext
<1>2. QED
  BY <1>1, InvInit, PTL DEF AxSpec

(* A valid that has not met its ready stays, with its payload.             *)
THEOREM AxHolds == ASSUME ~Split PROVE AxSpec => ValidHeld
<1>1. AxInv /\ [AxNext]_avars =>
        [~rst /\ ((arvalid /\ ~arready) \/ (awvalid /\ ~(awready /\ wready))) =>
           payload' = payload]_avars
  <2>1. SUFFICES ASSUME AxInv, AxTick,
                        (arvalid /\ ~arready) \/ (awvalid /\ ~(awready /\ wready))
                 PROVE  payload' = payload
    BY DEF AxNext, AxReset
  <2>2. CASE arvalid /\ ~arready
    <3>1. st' = "AX_AR" /\ req' = req
      BY <2>1, <2>2 DEF arvalid, AxTick, Master, Core, mem_stall, done, AxInv, RequestHeld
    <3>2. QED
      BY <2>2, <3>1 DEF payload, arvalid, awvalid, wvalid
  <2>3. CASE awvalid /\ ~(awready /\ wready)
    <3>1. st' = "AX_AW" /\ req' = req
      BY <2>1, <2>3 DEF awvalid, AxTick, Master, Core, mem_stall, done, AxInv, RequestHeld
    <3>2. QED
      BY <2>3, <3>1 DEF payload, arvalid, awvalid, wvalid
  <2>4. QED
    BY <2>1, <2>2, <2>3
<1>2. QED
  BY <1>1, AxInvariant, PTL DEF AxSpec, ValidHeld

-----------------------------------------------------------------------------
(* Each cycle is a step of the port.                                       *)
LEMMA PortStep == ASSUME AxInv, ~Split, AxNext PROVE [Port!PNext]_Port!pvars
<1>1. CASE AxReset
  <2>1. Port!Abort
    BY <1>1 DEF AxReset, Port!Abort
  <2>2. QED
    BY <2>1 DEF Port!PNext
<1>2. CASE AxTick /\ st = "AX_IDLE"
  <2>1. ~(s = "SL_B") /\ ~(s' = "SL_B")
    BY <1>2, CycleIdle DEF AxInv, InStep
  <2>2. CASE req = NoReq /\ req' \in Reqs
    BY <1>2, <2>1, <2>2, CycleIdle DEF Port!PNext, Port!Ask
  <2>3. CASE req' = req
    BY <1>2, <2>1, <2>3, CycleIdle DEF Port!PNext, Port!Wait
  <2>4. QED
    BY <1>2, <2>2, <2>3, CycleIdle DEF mem_req
<1>3. CASE AxTick /\ st = "AX_AR"
  <2>1. Port!Wait
    BY <1>3, CycleAddress DEF Port!Wait, AxInv, InStep
  <2>2. QED
    BY <2>1 DEF Port!PNext
<1>4. CASE AxTick /\ st = "AX_AW"
  <2>1. s = "SL_IDLE" /\ req # NoReq /\ req.write
    BY <1>4 DEF AxInv, InStep, RequestHeld, mem_req
  <2>2. CASE TakeWrite
    BY <1>4, <2>1, <2>2, CycleWrite DEF Port!PNext, Port!Take, TakeWrite
  <2>3. CASE s' = "SL_IDLE" /\ tohost_we' = FALSE /\ UNCHANGED mem
    BY <1>4, <2>1, <2>3, CycleWrite DEF Port!PNext, Port!Wait
  <2>4. QED
    BY <1>4, <2>2, <2>3, CycleWrite
<1>5. CASE AxTick /\ st \in {"AX_R", "AX_B"}
  <2>1. req # NoReq /\ (req.write => s = "SL_B")
    BY <1>5 DEF AxInv, InStep, RequestHeld, mem_req
  <2>2. CASE UNCHANGED <<st, s, req>> /\ reply' = NoReply
    BY <1>5, <2>2, CycleResponse DEF Port!PNext, Port!Wait
  <2>3. CASE /\ s' = "SL_IDLE" /\ req' \in Reqs \cup {NoReq}
             /\ reply' = IF req.write THEN Ack ELSE mem[req.addr]
    BY <1>5, <2>1, <2>3, CycleResponse DEF Port!PNext, Port!Answer
  <2>4. QED
    BY <1>5, <2>2, <2>3, CycleResponse
<1>6. QED
  BY <1>1, <1>2, <1>3, <1>4, <1>5 DEF AxNext, AxInv, AxTypeOK

(* Master and slave together implement the plain memory port of the core.  *)
THEOREM AxIsPort == ASSUME ~Split PROVE AxSpec => IsPort
<1>1. AxInit => Port!PInit
  BY DEF AxInit, Port!PInit
<1>2. AxInv /\ [AxNext]_avars => [Port!PNext]_Port!pvars
  <2>1. UNCHANGED avars => UNCHANGED Port!pvars
    BY DEF avars, Port!pvars
  <2>2. QED
    BY <2>1, PortStep
<1>3. QED
  BY <1>1, <1>2, AxInvariant, PTL DEF AxSpec, IsPort, Port!PSpec
=============================================================================
