----------------------------- MODULE KavachaJtag -----------------------------
(***************************************************************************)
(* The JTAG side of the debug module (kavacha_debug.sv), one step per      *)
(* clock cycle: the pins sampled on clk, the TAP, the instruction and data *)
(* registers, and the DMI writes they make.  The adapter drives any        *)
(* sequence of TMS and TDI at any rate, changes both when TCK falls, and   *)
(* follows the TAP on its own; after a reset of the board it has lost it.  *)
(*                                                                         *)
(* A DMI word has AddrBits and DataBits (7 and 32 in the code) above the   *)
(* two bits of op, and its bits stand in the order they are shifted; IR    *)
(* is short and every instruction but DMI is one.  The data registers of   *)
(* the other instructions, which nothing uses, read as zero.               *)
(***************************************************************************)
EXTENDS Naturals, Sequences, SequencesExt

CONSTANTS AddrBits, DataBits, IrBits, IrDmi, IrIdcode,
          Apart     \* the distance of two writes that is asked for

DMI_W == AddrBits + DataBits + 2
B     == {0, 1}

ASSUME JtagAssumption == /\ AddrBits \in Nat /\ DataBits \in Nat \ {0}
                         /\ IrBits \in Nat \ {0} /\ IrDmi # IrIdcode
                         /\ Apart \in 1 .. 10
                         /\ {IrDmi, IrIdcode} \subseteq [1 .. IrBits -> B]

VARIABLES
  tck, tms, tdi,           \* pins
  tck_s, tms_s, tdi_s,     \* sampled twice, the newer first
  tap, ir, ir_shift, dr,
  dmi_rdata, dmi_rstat,
  dmi_write,               \* dmi_we_pulse: <<>> or the address and data written
  adapter,                 \* the adapter's own TAP state, or "lost"
  ones,                    \* history: ones in a row since the adapter is lost
  scanned,                 \* history: the last DMI_W bits of this scan
  since                    \* history: cycles since the last pulse, up to Apart

pins   == <<tck, tms, tdi, tck_s, tms_s, tdi_s>>
jvars  == <<pins, tap, ir, ir_shift, dr, dmi_rdata, dmi_rstat, dmi_write,
            adapter, ones, scanned, since>>

-----------------------------------------------------------------------------
(* mutant: the TAP moves as long as TCK is high *)
RiseLevel == tck_s[1] = 1

tck_rise == tck_s = <<1, 0>>

(* mutant: a pause before the update is not left *)
TapNextEx2(t, high) ==
  CASE t = "EX2_DR" -> IF high THEN "EX1_DR" ELSE "SHF_DR"
    [] t = "TLR" -> IF high THEN "TLR" ELSE "RTI"
    [] t \in {"RTI", "UPD_DR", "UPD_IR"} -> IF high THEN "SEL_DR" ELSE "RTI"
    [] t = "SEL_DR" -> IF high THEN "SEL_IR" ELSE "CAP_DR"
    [] t \in {"CAP_DR", "SHF_DR"} -> IF high THEN "EX1_DR" ELSE "SHF_DR"
    [] t = "EX1_DR" -> IF high THEN "UPD_DR" ELSE "PAU_DR"
    [] t = "PAU_DR" -> IF high THEN "EX2_DR" ELSE "PAU_DR"
    [] t = "SEL_IR" -> IF high THEN "TLR" ELSE "CAP_IR"
    [] t \in {"CAP_IR", "SHF_IR"} -> IF high THEN "EX1_IR" ELSE "SHF_IR"
    [] t = "EX1_IR" -> IF high THEN "UPD_IR" ELSE "PAU_IR"
    [] t = "PAU_IR" -> IF high THEN "EX2_IR" ELSE "PAU_IR"
    [] t = "EX2_IR" -> IF high THEN "UPD_IR" ELSE "SHF_IR"

TapNext(t, high) ==
  CASE t = "TLR" -> IF high THEN "TLR" ELSE "RTI"
    [] t \in {"RTI", "UPD_DR", "UPD_IR"} -> IF high THEN "SEL_DR" ELSE "RTI"
    [] t = "SEL_DR" -> IF high THEN "SEL_IR" ELSE "CAP_DR"
    [] t \in {"CAP_DR", "SHF_DR"} -> IF high THEN "EX1_DR" ELSE "SHF_DR"
    [] t = "EX1_DR" -> IF high THEN "UPD_DR" ELSE "PAU_DR"
    [] t = "PAU_DR" -> IF high THEN "EX2_DR" ELSE "PAU_DR"
    [] t = "EX2_DR" -> IF high THEN "UPD_DR" ELSE "SHF_DR"
    [] t = "SEL_IR" -> IF high THEN "TLR" ELSE "CAP_IR"
    [] t \in {"CAP_IR", "SHF_IR"} -> IF high THEN "EX1_IR" ELSE "SHF_IR"
    [] t = "EX1_IR" -> IF high THEN "UPD_IR" ELSE "PAU_IR"
    [] t = "PAU_IR" -> IF high THEN "EX2_IR" ELSE "PAU_IR"
    [] OTHER (* EX2_IR *) -> IF high THEN "UPD_IR" ELSE "SHF_IR"

Zero(n) == [i \in 1 .. n |-> 0]

(* mutant: bits enter at the end they leave from *)
ShiftedBack(q, bit) == <<bit>> \o Front(q)

Shifted(q, bit) == Append(Tail(q), bit)

InstructionRegister ==
  /\ ir' = CASE tck_rise /\ tap = "TLR" -> IrIdcode
             [] tck_rise /\ tap = "UPD_IR" -> ir_shift
             [] OTHER -> ir
  /\ ir_shift' = CASE tck_rise /\ tap = "CAP_IR" -> [Zero(IrBits) EXCEPT ![1] = 1]
                   [] tck_rise /\ tap = "SHF_IR" -> Shifted(ir_shift, tdi_s[2])
                   [] OTHER -> ir_shift

dmi_op == SubSeq(dr, 1, 2)
Reads  == tck_rise /\ tap = "UPD_DR" /\ ir = IrDmi /\ dmi_op = <<1, 0>>
Writes == tck_rise /\ tap = "UPD_DR" /\ ir = IrDmi /\ dmi_op = <<0, 1>>

(* A read latches whatever the register read holds.                        *)
DataRegister ==
  /\ dr' = CASE tck_rise /\ tap = "CAP_DR" ->
                  IF ir = IrDmi THEN dmi_rstat \o dmi_rdata \o Zero(AddrBits) ELSE Zero(DMI_W)
             [] tck_rise /\ tap = "SHF_DR" /\ ir = IrDmi -> Shifted(dr, tdi_s[2])
             [] OTHER -> dr
  /\ dmi_rdata' \in IF Reads THEN [1 .. DataBits -> B] ELSE {dmi_rdata}
  /\ dmi_rstat' = IF Reads \/ Writes THEN <<0, 0>> ELSE dmi_rstat
  /\ dmi_write' = IF Writes THEN SubSeq(dr, 3, DMI_W) ELSE <<>>

-----------------------------------------------------------------------------
(* The adapter.                                                            *)

Falls == tck' = 0 /\ tms' \in B /\ tdi' \in B
Rises == tck' = 1 /\ UNCHANGED <<tms, tdi>>

Pins == /\ \/ tck = 1 /\ Falls
           \/ tck = 0 /\ Rises
           \/ UNCHANGED <<tck, tms, tdi>>
        /\ tck_s' = <<tck, tck_s[1]>> /\ tms_s' = <<tms, tms_s[1]>> /\ tdi_s' = <<tdi, tdi_s[1]>>

(* What the adapter knows from the edges it has made.  Five ones in a row  *)
(* lead to TLR from anywhere.                                              *)
Follow ==
  LET edge  == tck = 0 /\ tck' = 1
      known == adapter # "lost"
  IN /\ ones' = IF known THEN 0 ELSE IF ~edge THEN ones ELSE IF tms = 1 THEN ones + 1 ELSE 0
     /\ adapter' = CASE edge /\ known -> TapNext(adapter, tms = 1)
                     [] edge /\ ~known /\ ones' = 5 -> "TLR"
                     [] OTHER -> adapter
     /\ scanned' = CASE edge /\ adapter = "CAP_DR" -> <<>>
                     [] edge /\ adapter = "SHF_DR" ->
                          IF Len(scanned) < DMI_W THEN Append(scanned, tdi)
                          ELSE Append(Tail(scanned), tdi)
                     [] OTHER -> scanned

JtagTick ==
  /\ tap' = IF tck_rise THEN TapNext(tap, tms_s[2] = 1) ELSE tap
  /\ InstructionRegister /\ DataRegister
  /\ Pins /\ Follow
  /\ since' = IF dmi_write # <<>> THEN 1 ELSE IF since < Apart THEN since + 1 ELSE since

(* rst leaves the shift registers, the latched answer and the pulse.       *)
JtagRst ==
  /\ tap' = "TLR" /\ ir' = IrIdcode
  /\ UNCHANGED <<ir_shift, dr, dmi_rdata, dmi_rstat, dmi_write>>
  /\ Pins
  /\ adapter' = "lost" /\ ones' = 0 /\ scanned' = <<>> /\ since' = Apart

(* The answer registers hold anything until the first access.              *)
JtagInit ==
  /\ tck = 0 /\ tms = 1 /\ tdi = 0
  /\ tck_s = <<0, 0>> /\ tms_s = <<1, 1>> /\ tdi_s = <<0, 0>>
  /\ tap = "TLR" /\ ir = IrIdcode /\ ir_shift = Zero(IrBits) /\ dr = Zero(DMI_W)
  /\ dmi_rdata \in [1 .. DataBits -> B] /\ dmi_rstat \in [1 .. 2 -> B]
  /\ dmi_write = <<>>
  /\ adapter = "lost" /\ ones = 0 /\ scanned = <<>> /\ since = Apart

JtagNext == JtagTick \/ JtagRst

-----------------------------------------------------------------------------
(* The sampled TAP is where the adapter believes it to be, but for an edge *)
(* that is under way; five ones bring the two together after a reset.      *)
InFlight == tck_rise \/ (tck = 1 /\ tck_s[1] = 0)

TapFollows == adapter # "lost" /\ ~InFlight => tap = adapter

(* A DMI write is the word the adapter has scanned, when it has scanned a  *)
(* whole one.                                                              *)
ScanDelivers ==
  [][dmi_write' # <<>> /\ ~JtagRst /\ adapter # "lost" /\ Len(scanned) = DMI_W =>
       SubSeq(scanned, 1, 2) = <<0, 1>> /\ dmi_write' = SubSeq(scanned, 3, DMI_W)]_jvars

(* However fast TCK is, two writes are Apart cycles apart; the engine      *)
(* (kavacha_debug.sv:345) relies on it, as Gap of KavachaSoc.              *)
UpdatesApart ==
  [][dmi_write' # <<>> /\ dmi_write = <<>> /\ ~JtagRst => since + 1 >= Apart]_jvars
=============================================================================
