---------------------------- MODULE KavachaAxil -----------------------------
(***************************************************************************)
(* The AXI4-Lite master that wraps the core and the memory slave behind it *)
(* (kavacha_axil.sv), one step per clock cycle.  Both FSMs move on the     *)
(* same edge; the channel signals between them are state functions.        *)
(*                                                                         *)
(* The core is its port: a request that stays as it is until it is         *)
(* answered (BusRequestStable of KavachaCore).  The slave of the           *)
(* repository is always ready; Waits lets it take any time over every      *)
(* handshake, and Split lets it take a write's address one cycle or more   *)
(* before the data, as other AXI4-Lite slaves do.                          *)
(***************************************************************************)
EXTENDS Naturals

CONSTANTS Addr, Dram, Tohost, Lane, Byte, Reqs, NoReq, NoReply, Ack,
          Waits, Split

VARIABLES
  rst,                      \* input
  st,                       \* master FSM
  s, raddr_q, mem, tohost_we,   \* slave
  req,                      \* what the core asks for
  ready,                    \* the slave gives its ready or valid this cycle
  reply                     \* history: what the core got on the last edge

avars == <<rst, st, s, raddr_q, mem, tohost_we, req, ready, reply>>

(* The port the core sees, KavachaPort states it.                          *)
Port == INSTANCE KavachaPort WITH taken <- (s = "SL_B")

ASSUME AxilAssumption == Port!PortAssumption /\ Waits \in BOOLEAN /\ Split \in BOOLEAN

AxTypeOK ==
  /\ rst \in BOOLEAN /\ st \in {"AX_IDLE", "AX_AR", "AX_R", "AX_AW", "AX_B"}
  /\ s \in {"SL_IDLE", "SL_W", "SL_R", "SL_B"}
  /\ raddr_q \in Addr /\ mem \in [Addr -> Port!Word] /\ tohost_we \in BOOLEAN
  /\ req \in Reqs \cup {NoReq} /\ ready \in BOOLEAN
  /\ reply \in Port!Word \cup {Ack, NoReply}

-----------------------------------------------------------------------------
(* Wires: valid and payload are the master's, ready and response the       *)
(* slave's on the request channels and the reverse on the response ones.   *)

mem_req == req # NoReq

arvalid == st = "AX_AR"
awvalid == st = "AX_AW"
wvalid  == st = "AX_AW"
rready  == st = "AX_R"
bready  == st = "AX_B"

arready == ready /\ s = "SL_IDLE"
awready == ready /\ s = "SL_IDLE"
wready  == ready /\ s = IF Split THEN "SL_W" ELSE "SL_IDLE"
rvalid  == ready /\ s = "SL_R"
bvalid  == ready /\ s = "SL_B"

rdata == mem[raddr_q]

(* What the master drives on a request channel while its valid is high.    *)
payload == <<arvalid, awvalid, wvalid, req>>

(* mutant: a write is over when the slave has taken it *)
done_early == (st = "AX_R" /\ rvalid) \/ (st = "AX_AW" /\ awready /\ wready)

done == (st = "AX_R" /\ rvalid) \/ (st = "AX_B" /\ bvalid)

mem_stall == mem_req /\ ~done

-----------------------------------------------------------------------------
(* mutant: a write goes back to idle without its response *)
MasterNoB ==
  \/ st = "AX_IDLE" /\ st' = IF ~mem_req THEN st ELSE IF req.write THEN "AX_AW" ELSE "AX_AR"
  \/ st = "AX_AR" /\ st' = IF arready THEN "AX_R" ELSE st
  \/ st = "AX_R" /\ st' = IF rvalid THEN "AX_IDLE" ELSE st
  \/ st = "AX_AW" /\ st' = IF awready /\ wready THEN "AX_IDLE" ELSE st
  \/ st = "AX_B" /\ st' = IF bvalid THEN "AX_IDLE" ELSE st

(* mutant: valid is withdrawn after one cycle *)
MasterImpatient ==
  \/ st = "AX_IDLE" /\ st' = IF ~mem_req THEN st ELSE IF req.write THEN "AX_AW" ELSE "AX_AR"
  \/ st = "AX_AR" /\ st' = IF arready THEN "AX_R" ELSE "AX_IDLE"
  \/ st = "AX_R" /\ st' = IF rvalid THEN "AX_IDLE" ELSE st
  \/ st = "AX_AW" /\ st' = IF awready /\ wready THEN "AX_B" ELSE st
  \/ st = "AX_B" /\ st' = IF bvalid THEN "AX_IDLE" ELSE st

Master ==
  \/ st = "AX_IDLE" /\ st' = IF ~mem_req THEN st ELSE IF req.write THEN "AX_AW" ELSE "AX_AR"
  \/ st = "AX_AR" /\ st' = IF arready THEN "AX_R" ELSE st
  \/ st = "AX_R" /\ st' = IF rvalid THEN "AX_IDLE" ELSE st
  \/ st = "AX_AW" /\ st' = IF awready /\ wready THEN "AX_B" ELSE st
  \/ st = "AX_B" /\ st' = IF bvalid THEN "AX_IDLE" ELSE st

(* The slave takes the write that is on its channels.                      *)
TakeWrite == /\ s' = "SL_B"
             /\ mem' = Port!Stored(mem, req)
             /\ tohost_we' = (req.addr = Tohost)
             /\ UNCHANGED raddr_q

(* A read takes the address; a split slave takes a write's the same way.   *)
SlaveAddress == /\ arvalid \/ (Split /\ awvalid)
                /\ arready
                /\ s' = IF arvalid THEN "SL_R" ELSE "SL_W"
                /\ raddr_q' = IF arvalid THEN req.addr ELSE raddr_q
                /\ tohost_we' = FALSE /\ UNCHANGED mem
SlaveWrite == wvalid /\ wready /\ (Split \/ (awvalid /\ awready)) /\ TakeWrite
SlaveRespond == /\ (rvalid /\ rready) \/ (bvalid /\ bready)
                /\ s' = "SL_IDLE"
                /\ tohost_we' = FALSE /\ UNCHANGED <<raddr_q, mem>>
SlaveWait == /\ ~(arvalid /\ arready) /\ ~(awvalid /\ awready) /\ ~(wvalid /\ wready)
             /\ ~(rvalid /\ rready) /\ ~(bvalid /\ bready)
             /\ tohost_we' = FALSE /\ UNCHANGED <<s, raddr_q, mem>>

Slave == SlaveAddress \/ SlaveWrite \/ SlaveRespond \/ SlaveWait

(* The core holds a request while it is stalled; rdata reaches it only in  *)
(* state AX_R.                                                             *)
Core ==
  /\ req' \in IF mem_stall THEN {req} ELSE Reqs \cup {NoReq}
  /\ reply' = IF ~(mem_req /\ done) THEN NoReply
              ELSE IF st = "AX_R" THEN rdata ELSE Ack

Inputs == rst' \in BOOLEAN /\ ready' \in IF Waits THEN BOOLEAN ELSE {TRUE}

AxTick == ~rst /\ Master /\ Slave /\ Core /\ Inputs

(* rst reaches core, master and slave; the memory keeps its content.       *)
AxReset == /\ rst
           /\ st' = "AX_IDLE" /\ s' = "SL_IDLE" /\ tohost_we' = FALSE
           /\ req' \in Reqs \cup {NoReq} /\ reply' = NoReply /\ Inputs
           /\ UNCHANGED <<raddr_q, mem>>

AxInit == /\ st = "AX_IDLE" /\ s = "SL_IDLE" /\ tohost_we = FALSE
          /\ req \in Reqs \cup {NoReq} /\ reply = NoReply
          /\ rst \in BOOLEAN /\ ready \in IF Waits THEN BOOLEAN ELSE {TRUE}
          /\ raddr_q \in Addr /\ mem \in [Addr -> Port!Word]

AxNext == AxTick \/ AxReset

(* The slave is ready again and again; a reset may always come.            *)
AxFair == WF_avars(AxTick /\ ready')

AxSpec == AxInit /\ [][AxNext]_avars

-----------------------------------------------------------------------------
(* Master and slave, two machines that only see each other's handshakes,   *)
(* are never out of step: a response is waited for by the state that asked *)
(* for it, for the request the core still holds.  (Not so when Split.)     *)
InStep ==
  \/ st \in {"AX_IDLE", "AX_AR", "AX_AW"} /\ s = "SL_IDLE"
  \/ st = "AX_R" /\ s = "SL_R" /\ raddr_q = req.addr
  \/ st = "AX_B" /\ s = "SL_B"

RequestHeld == st # "AX_IDLE" => mem_req /\ (req.write <=> st \in {"AX_AW", "AX_B"})

AxInv == AxTypeOK /\ InStep /\ RequestHeld

(* The AXI rule (and kavacha_axil.sv:47, "core is held stable while        *)
(* mem_stall"): a valid that has not met its ready stays, with its payload.*)
ValidHeld ==
  [][~rst /\ ((arvalid /\ ~arready) \/ (awvalid /\ ~(awready /\ wready))) =>
       payload' = payload]_avars

(* Through both FSMs the core still has a plain memory port: every access  *)
(* answered once with its own word, every write stored once.               *)
IsPort == Port!PSpec

(* Once the reset is over for good, every access is answered.              *)
Answered == <>[]~rst => (mem_req ~> (reply # NoReply \/ ~mem_req))
=============================================================================
