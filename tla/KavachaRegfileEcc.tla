-------------------------- MODULE KavachaRegfileEcc --------------------------
(***************************************************************************)
(* The register file with error correction (kavacha_regfile_ecc.sv): a     *)
(* word is the set of its bits that are set, so that exclusive or is the   *)
(* symmetric difference of sets and a parity is that of a cardinality.     *)
(* x0 and one register are modelled, with the column codes of the source.  *)
(* Particles flip stored bits at any time.                                 *)
(***************************************************************************)
EXTENDS KavachaBits, Naturals, FiniteSets

CONSTANTS Words,      \* the data words written
          MaxFlips    \* bound: flips in a stored word between two writes

Hcol == << 3,  5,  6,  7,  9, 10, 11, 12, 13, 14, 15, 17, 18, 19, 20, 21,
          22, 23, 24, 25, 26, 27, 28, 29, 30, 31, 33, 34, 35, 36, 37, 38>>

WordBits  == 0 .. 31
CheckBits == 0 .. 5

ASSUME RegfileAssumption == Words \subseteq SUBSET WordBits /\ MaxFlips \in Nat

(* The code of a data bit, as a set of check bits.                         *)
hcol == [j \in WordBits |-> {i \in CheckBits : Bit(Hcol[j + 1], i) = 1}]

Xor(s, t) == (s \ t) \cup (t \ s)
Odd(s)    == Cardinality(s) % 2 = 1

VARIABLES
  data, check, par,    \* regs[1]: its three parts
  written,             \* history: the word last written
  flips                \* history: the stored bits that are wrong

rvars == <<data, check, par, written, flips>>

-----------------------------------------------------------------------------
(* The exclusive or of the codes of a word's bits.                         *)
Checks(d) == {i \in CheckBits : Odd({j \in d : i \in hcol[j]})}

(* mutant: the overall parity leaves the check bits out *)
EncParityData(d) == Odd(d)

EncParity(d) == Odd(d) # Odd(Checks(d))

syndrome == Xor(check, Checks(data))
perr     == (Odd(check) # par) # Odd(data)

Corrected == IF perr THEN Xor(data, {j \in WordBits : hcol[j] = syndrome}) ELSE data

(* A read of register ra while wd is written to wa, or while nothing is    *)
(* (we): forwarding, correction and the flags.                             *)
ReadPort(ra, we, wa, wd) ==
  LET fwd == we /\ wa # 0 /\ wa = ra
  IN [value |-> IF ra = 0 THEN {} ELSE IF fwd THEN wd ELSE Corrected,
      cerr  |-> ra # 0 /\ ~fwd /\ perr,
      uerr  |-> ra # 0 /\ ~fwd /\ ~perr /\ syndrome # {}]

RegWrite(wa, wd) ==
  /\ IF wa = 0 THEN UNCHANGED rvars
     ELSE /\ data' = wd /\ check' = Checks(wd) /\ par' = EncParity(wd)
          /\ written' = wd /\ flips' = {}

StoredBits ==
  ({"data"} \X WordBits) \cup ({"check"} \X CheckBits) \cup {<<"parity", 0>>}

(* A particle.                                                             *)
Flip(b) ==
  /\ b \notin flips /\ Cardinality(flips) < MaxFlips
  /\ flips' = flips \cup {b}
  /\ data'  = IF b[1] = "data" THEN Xor(data, {b[2]}) ELSE data
  /\ check' = IF b[1] = "check" THEN Xor(check, {b[2]}) ELSE check
  /\ par'   = (par # (b[1] = "parity"))
  /\ UNCHANGED written

RegInit == data = {} /\ check = Checks({}) /\ par = EncParity({}) /\ written = {} /\ flips = {}

RegNext == \/ \E wa \in 0 .. 1 : \E wd \in Words : RegWrite(wa, wd)
           \/ \E b \in StoredBits : Flip(b)

-----------------------------------------------------------------------------
(* kavacha_regfile_ecc.sv:5, "single-bit storage errors are CORRECTED on   *)
(* read, double-bit errors are DETECTED": whichever bits they hit, data,   *)
(* check or parity, and with no flag when nothing is wrong.                *)
SecDed ==
  LET r == ReadPort(1, FALSE, 0, {})
  IN /\ Cardinality(flips) <= 1 => r.value = written
     /\ r.cerr = (Cardinality(flips) = 1)
     /\ r.uerr = (Cardinality(flips) = 2)
=============================================================================
