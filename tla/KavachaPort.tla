---------------------------- MODULE KavachaPort -----------------------------
(***************************************************************************)
(* What a core expects of the memory behind its port: one access at a      *)
(* time, each answered once; a read is answered with the word the memory   *)
(* holds; a write reaches the memory once, before its answer, in the bytes *)
(* its strobes select; a write of tohost is one pulse to the outside.      *)
(***************************************************************************)
CONSTANTS
  Addr,       \* word addresses
  Dram,       \* the writable ones
  Tohost,     \* the address whose writes go to the test bench
  Lane, Byte, \* a word is one byte in each lane
  Reqs,       \* the accesses the core may ask for
  NoReq, NoReply, Ack

Word == [Lane -> Byte]

Request == [write : BOOLEAN, addr : Addr, data : Word, strb : SUBSET Lane]

PortAssumption ==
  /\ Dram \subseteq Addr /\ Tohost \in Addr \ Dram
  /\ Reqs \subseteq Request /\ NoReq \notin Request
  /\ NoReply \notin Word \cup {Ack} /\ Ack \notin Word

VARIABLES
  req,        \* the access asked for and not yet answered
  taken,      \* it is a write, and the memory has it
  mem,
  tohost_we,  \* the pulse
  reply       \* what the core got on the last clock edge

pvars == <<req, taken, mem, tohost_we, reply>>

(* The memory after request r: only the selected bytes of a writable word. *)
Stored(m, r) ==
  IF r.write /\ r.addr \in Dram
  THEN [m EXCEPT ![r.addr] = [l \in Lane |-> IF l \in r.strb THEN r.data[l] ELSE @[l]]]
  ELSE m

PInit == /\ req \in Reqs \cup {NoReq} /\ taken = FALSE
         /\ mem \in [Addr -> Word]
         /\ tohost_we = FALSE /\ reply = NoReply

Ask == /\ req = NoReq /\ req' \in Reqs
       /\ tohost_we' = FALSE /\ reply' = NoReply
       /\ UNCHANGED <<taken, mem>>

Wait == /\ tohost_we' = FALSE /\ reply' = NoReply
        /\ UNCHANGED <<req, taken, mem>>

Take == /\ req # NoReq /\ req.write /\ ~taken
        /\ taken' = TRUE
        /\ mem' = Stored(mem, req)
        /\ tohost_we' = (req.addr = Tohost)
        /\ reply' = NoReply
        /\ UNCHANGED req

Answer == /\ req # NoReq /\ (req.write => taken)
          /\ reply' = IF req.write THEN Ack ELSE mem[req.addr]
          /\ taken' = FALSE /\ req' \in Reqs \cup {NoReq}
          /\ tohost_we' = FALSE
          /\ UNCHANGED mem

(* A reset: the access is forgotten, taken or not.                         *)
Abort == /\ req' \in Reqs \cup {NoReq} /\ taken' = FALSE
         /\ tohost_we' = FALSE /\ reply' = NoReply
         /\ UNCHANGED mem

PNext == Ask \/ Wait \/ Take \/ Answer \/ Abort

PSpec == PInit /\ [][PNext]_pvars
=============================================================================
