--------------------------- MODULE MCKavachaUnits ---------------------------
(***************************************************************************)
(* Instances of the units that stand alone for TLC: one of them runs, the  *)
(* others stay at rest.                                                    *)
(***************************************************************************)
EXTENDS KavachaAxil, KavachaJtag, KavachaMuldiv, KavachaRegfileEcc, KavachaPmp,
        KavachaBench

CONSTANT Units

VARIABLE unit

uvars == <<unit, avars, jvars, mdvars, rvars, pmpvars, benchvars>>

(* The bus: two bytes a word, a read-only word, a writable one and tohost. *)
Two == {1, 2}
ZeroWord == [l \in Two |-> 0]
OneWord  == [l \in Two |-> 1]
ReqValues ==
  [write : {FALSE}, addr : {1, 2}, data : {ZeroWord}, strb : {{}}] \cup
  [write : {TRUE}, addr : {2, 3}, data : {OneWord}, strb : {{1}, Two}]

(* The JTAG chain: one bit of data, two instructions.                      *)
One  == <<1>>
Zero1 == <<0>>

WordValues == {{}, {0}, WordBits, {1, 2, 31}, {j \in WordBits : j % 2 = 0}}

(* Every mode locked, NAPOT and OFF also unlocked.                         *)
PmpAddrs   == {0, 1, 3, 5, 7}
PmpConfigs == [A : Modes, L : {TRUE}, perm : {FALSE}] \cup
              [A : {"OFF", "NAPOT"}, L : {FALSE}, perm : BOOLEAN]

AxRest   == rst /\ req = NoReq /\ ready /\ raddr_q = 1 /\ mem = [a \in Addr |-> ZeroWord]

(* Bound: the answer registers start as zero or as one word that is not.   *)
JtagRest  == dmi_rdata = Zero1 /\ dmi_rstat = <<0, 0>>
JtagStart == JtagRest \/ (dmi_rdata = One /\ dmi_rstat = <<0, 1>>)

UnitsInit == /\ unit \in Units
             /\ AxInit /\ JtagInit /\ MdInit /\ RegInit /\ PmpInit /\ BenchInit
             /\ unit # "axil" => AxRest
             /\ IF unit = "jtag" THEN JtagStart ELSE JtagRest

AxStep   == unit = "axil" /\ AxNext /\ UNCHANGED <<unit, jvars, mdvars, rvars, pmpvars, benchvars>>
JtagStep == unit = "jtag" /\ JtagNext /\ UNCHANGED <<unit, avars, mdvars, rvars, pmpvars, benchvars>>
MulStep  == unit = "mul" /\ MdNext(Muls) /\ UNCHANGED <<unit, avars, jvars, rvars, pmpvars, benchvars>>
DivStep  == unit = "div" /\ MdNext(Divs) /\ UNCHANGED <<unit, avars, jvars, rvars, pmpvars, benchvars>>
RegStep  == unit = "ecc" /\ RegNext /\ UNCHANGED <<unit, avars, jvars, mdvars, pmpvars, benchvars>>
PmpStep  == unit = "pmp" /\ PmpNext /\ UNCHANGED <<unit, avars, jvars, mdvars, rvars, benchvars>>
BenchStep == unit = "bench" /\ BenchNext
             /\ UNCHANGED <<unit, avars, jvars, mdvars, rvars, pmpvars>>

UnitsNext == AxStep \/ JtagStep \/ MulStep \/ DivStep \/ RegStep \/ PmpStep
             \/ BenchStep

UnitsSpec == UnitsInit /\ [][UnitsNext]_uvars /\ (unit = "axil" => AxFair)
=============================================================================
