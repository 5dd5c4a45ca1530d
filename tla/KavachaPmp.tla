------------------------------ MODULE KavachaPmp ------------------------------
(***************************************************************************)
(* Physical memory protection: the checker (kavacha_pmp.sv) and the        *)
(* registers beside it, as the CSR file keeps them (kavacha_csr.sv).  An   *)
(* access is of one kind; the permission bit of that kind is modelled.     *)
(* Addresses are in words and have AW bits (32 in the code).               *)
(***************************************************************************)
EXTENDS KavachaBits, Naturals, FiniteSets

CONSTANTS AW, NPMP, AddrValues, Configs

PAddr  == 0 .. Pow2[AW] - 1
Entry  == 0 .. NPMP - 1
Modes  == {"OFF", "TOR", "NA4", "NAPOT"}
Config == [A : Modes, L : BOOLEAN, perm : BOOLEAN]

ASSUME PmpAssumption == /\ AW \in Nat \ {0} /\ NPMP \in Nat \ {0}
                        /\ AddrValues \subseteq PAddr /\ Configs \subseteq Config

VARIABLES
  pmpcfg, pmpaddr,
  mml, mmwp, rlb      \* mseccfg; the checker is given mmwp alone

mseccfg == <<mml, mmwp, rlb>>
pmpvars == <<pmpcfg, pmpaddr, mseccfg>>

Off == [A |-> "OFF", L |-> FALSE, perm |-> FALSE]

-----------------------------------------------------------------------------
(* The checker.                                                            *)

(* Bits on which two addresses agree outside the mask pa ^ (pa + 1), the   *)
(* low ones of pa and the zero above them.                                 *)
Masked(pa) == {i \in 0 .. AW - 1 : Bit(pa, i) # Bit((pa + 1) % Pow2[AW], i)}

(* mutant: a top-of-range region includes its top *)
MatchTop(i, aw) ==
  CASE pmpcfg[i].A = "OFF"   -> FALSE
    [] pmpcfg[i].A = "TOR"   -> (IF i = 0 THEN 0 ELSE pmpaddr[i - 1]) <= aw /\ aw <= pmpaddr[i]
    [] pmpcfg[i].A = "NA4"   -> aw = pmpaddr[i]
    [] pmpcfg[i].A = "NAPOT" -> \A k \in (0 .. AW - 1) \ Masked(pmpaddr[i]) :
                                  Bit(aw, k) = Bit(pmpaddr[i], k)

match(i, aw) ==
  CASE pmpcfg[i].A = "OFF"   -> FALSE
    [] pmpcfg[i].A = "TOR"   -> (IF i = 0 THEN 0 ELSE pmpaddr[i - 1]) <= aw /\ aw < pmpaddr[i]
    [] pmpcfg[i].A = "NA4"   -> aw = pmpaddr[i]
    [] pmpcfg[i].A = "NAPOT" -> \A k \in (0 .. AW - 1) \ Masked(pmpaddr[i]) :
                                  Bit(aw, k) = Bit(pmpaddr[i], k)

allow(i, priv_m) == (priv_m /\ ~pmpcfg[i].L) \/ pmpcfg[i].perm

(* The scan goes down, so the lowest matching region is the last to set it.*)
fault(aw, priv_m) ==
  LET sel[i \in 0 .. NPMP] ==
        IF i = NPMP THEN ~priv_m \/ mmwp
        ELSE IF match(i, aw) THEN ~allow(i, priv_m) ELSE sel[i + 1]
  IN sel[0]

-----------------------------------------------------------------------------
(* Writes of the registers.  A locked entry stays as it is, unless RLB.    *)

Writable(i) == ~pmpcfg[i].L \/ rlb

WriteAddr(i, v) ==
  /\ pmpaddr' = IF Writable(i) THEN [pmpaddr EXCEPT ![i] = v] ELSE pmpaddr
  /\ UNCHANGED <<pmpcfg, mseccfg>>

(* One write carries the bytes of all the entries modelled.                *)
WriteCfg(c) ==
  /\ pmpcfg' = [i \in Entry |-> IF Writable(i) THEN c[i] ELSE pmpcfg[i]]
  /\ UNCHANGED <<pmpaddr, mseccfg>>

(* MML and MMWP are sticky.                                                *)
WriteMseccfg(l, m, r) ==
  /\ mml' = (mml \/ l) /\ mmwp' = (mmwp \/ m) /\ rlb' = r
  /\ UNCHANGED <<pmpcfg, pmpaddr>>

PmpRst == /\ pmpcfg' = [i \in Entry |-> Off] /\ pmpaddr' = [i \in Entry |-> 0]
          /\ mml' = FALSE /\ mmwp' = FALSE /\ rlb' = FALSE

PmpInit == /\ pmpcfg = [i \in Entry |-> Off] /\ pmpaddr = [i \in Entry |-> 0]
           /\ mml = FALSE /\ mmwp = FALSE /\ rlb = FALSE

PmpNext == \/ \E i \in Entry : \E v \in AddrValues : WriteAddr(i, v)
           \/ \E c \in [Entry -> Configs] : WriteCfg(c)
           \/ \E l, m, r \in BOOLEAN : WriteMseccfg(l, m, r)
           \/ PmpRst

-----------------------------------------------------------------------------
(* The regions as the instruction set describes them: a naturally aligned  *)
(* power of two, twice as long for each low bit of pmpaddr that is set.    *)
TrailingOnes(pa) == CHOOSE n \in 0 .. AW :
                      /\ \A k \in 0 .. n - 1 : Bit(pa, k) = 1
                      /\ n = AW \/ Bit(pa, n) = 0

Napot(pa) == LET size == Pow2[TrailingOnes(pa) + 1]
                 base == (pa \div size) * size
             IN {x \in PAddr : base <= x /\ x < base + size}

Region(i) ==
  CASE pmpcfg[i].A = "OFF"   -> {}
    [] pmpcfg[i].A = "TOR"   -> {x \in PAddr : x < pmpaddr[i] /\ (i > 0 => pmpaddr[i - 1] <= x)}
    [] pmpcfg[i].A = "NA4"   -> {pmpaddr[i]}
    [] pmpcfg[i].A = "NAPOT" -> Napot(pmpaddr[i])

(* The entries whose range holds the address, and the one that decides.    *)
Matching(aw) == {i \in Entry : aw \in Region(i)}
Winner(aw)   == CHOOSE i \in Matching(aw) : \A k \in Matching(aw) : i <= k

(* Without MML, whatever the registers came to hold: "the lowest-numbered  *)
(* matching region wins", M bypasses it unless it is locked, and an access *)
(* outside every region is for M alone, without MMWP.                      *)
ChecksRegions ==
  ~mml =>
    \A aw \in PAddr : \A priv_m \in BOOLEAN :
      fault(aw, priv_m) =
        IF Matching(aw) = {} THEN ~(priv_m /\ ~mmwp)
        ELSE ~(IF priv_m /\ ~pmpcfg[Winner(aw)].L THEN TRUE ELSE pmpcfg[Winner(aw)].perm)

(* README "Two-Tier Trust Model": in Machine Mode Lockdown "even Machine   *)
(* mode cannot silently escape".  The least of it: M does not fetch an     *)
(* instruction through an unlocked entry that grants the fetch to nobody.  *)
LockdownHolds ==
  mml => \A aw \in PAddr :
           /\ Matching(aw) # {}
           /\ ~pmpcfg[Winner(aw)].L /\ ~pmpcfg[Winner(aw)].perm
           => fault(aw, TRUE)
=============================================================================
