---------------------------- MODULE MCKavachaSoc ----------------------------
(***************************************************************************)
(* Instance of the debug module, hart and memory for TLC: two addresses,   *)
(* two words, and a debugger with one form of each DMI write that matters. *)
(***************************************************************************)
EXTENDS KavachaSoc

Bit == 0 .. 1
BothBoards == {"soc", "fpga"}

W(r, b) == [reg |-> r, bits |-> b, v |-> 0, a |-> 0]
Data(r) == {[W(r, {}) EXCEPT !.v = x] : x \in Bit}

Zeros == [a \in Addr |-> 0]

Go        == W("dmcontrol", {"dmactive"})
Halt      == W("dmcontrol", {"dmactive", "haltreq"})
Resume    == W("dmcontrol", {"dmactive", "resumereq"})
HoldReset == W("dmcontrol", {"dmactive", "haltreq", "ndmreset"})
ReadReg   == W("command", {"transfer"})
WriteReg  == W("command", {"transfer", "write"})
SbWrite1  == [W("sbdata0", {}) EXCEPT !.v = 1]

(* Halts, resets, resumes and register commands, and one system-bus write  *)
(* that may come at a bad time.                                            *)
HartSession == [writes |-> {Go, Halt, HoldReset, Resume, ReadReg, WriteReg,
                            [W("data0", {}) EXCEPT !.v = 1], SbWrite1},
                accesses |-> {}, image |-> Zeros]

(* Memory written and read, with the address advancing, while the hart is  *)
(* halted or while it loads and stores.                                    *)
BusSession == [writes |-> {Halt, Resume, SbWrite1, W("sbaddress0", {}),
                           W("sbcs", {"readonaddr", "autoincrement"})},
               accesses |-> Access, image |-> Zeros]

(* Commands the module refuses; the module switched off.                   *)
OddSession == [writes |-> {Go, Halt, W("dmcontrol", {}), ReadReg, W("command", {"otherType"}),
                           W("abstractcs", {"clearCmderr"})},
               accesses |-> {[NoAccess EXCEPT !.a = 1]},
               image |-> [a \in Addr |-> a]]

AllSessions == {HartSession, BusSession, OddSession}
AllWrites == UNION {x.writes : x \in AllSessions}
=============================================================================
