---------------------------- MODULE KavachaMuldiv ----------------------------
(***************************************************************************)
(* The multiply and divide unit (kavacha_muldiv.sv), one step per clock    *)
(* cycle, for words of XLEN bits (32 in the code).  A reset may come       *)
(* between any two steps; it clears the state and leaves the operands.     *)
(***************************************************************************)
EXTENDS KavachaBits, Integers

CONSTANT XLEN

ASSUME MuldivAssumption == XLEN \in Nat \ {0, 1}

W    == Pow2[XLEN]
Word == 0 .. W - 1

Muls == {"MD_MUL", "MD_MULH", "MD_MULHSU", "MD_MULHU"}
Divs == {"MD_DIV", "MD_DIVU", "MD_REM", "MD_REMU"}

VARIABLES
  md_state,                      \* S_IDLE .. S_FIN
  md_op, md_a, md_b,             \* op_q, a_q and b_q; dividend_raw is a_q
  bit_idx, dividend_mag, divisor_mag, quotient_q, rem_q,
  md_done, md_result

operands == <<md_op, md_a, md_b>>
division == <<bit_idx, dividend_mag, divisor_mag, quotient_q, rem_q>>
mdvars   == <<md_state, operands, division, md_done, md_result>>

MdTypeOK ==
  /\ md_state \in {"S_IDLE", "S_MUL", "S_DIV", "S_FIN"}
  /\ md_op \in Muls \cup Divs /\ md_a \in Word /\ md_b \in Word
  /\ bit_idx \in 0 .. XLEN - 1 /\ dividend_mag \in Word /\ divisor_mag \in Word
  /\ quotient_q \in Word /\ rem_q \in 0 .. 2 * W - 1
  /\ md_done \in BOOLEAN /\ md_result \in Word

-----------------------------------------------------------------------------
Negative(x)  == x >= W \div 2
Neg(x)       == (W - x) % W                      \* ~x + 1
Signed(x)    == IF Negative(x) THEN x - W ELSE x

Magnitude(op, x) == IF op \in {"MD_DIV", "MD_REM"} /\ Negative(x) THEN Neg(x) ELSE x

(* The product of XLEN+1 bit operands; an arithmetic shift is a floor.     *)
Product ==
  LET x == IF md_op \in {"MD_MUL", "MD_MULH", "MD_MULHSU"} THEN Signed(md_a) ELSE md_a
      y == IF md_op \in {"MD_MUL", "MD_MULH"} THEN Signed(md_b) ELSE md_b
  IN x * y

div_by_zero  == md_b = 0
div_overflow == md_op \in {"MD_DIV", "MD_REM"} /\ md_a = W \div 2 /\ md_b = W - 1

(* mutant: the quotient takes the sign of the dividend *)
NegQuotDividend == md_op = "MD_DIV" /\ Negative(md_a)

neg_quot == md_op = "MD_DIV" /\ Negative(md_a) # Negative(md_b)
neg_rem  == md_op = "MD_REM" /\ Negative(md_a)

rem_shifted == 2 * (rem_q % W) + Bit(dividend_mag, bit_idx)

(* mutant: a remainder as large as the divisor is left *)
fits_more == rem_shifted > divisor_mag

fits == rem_shifted >= divisor_mag

Finish(r) == md_result' = r /\ md_done' = TRUE /\ md_state' = "S_IDLE"

Start(op, a, b) ==
  /\ md_state = "S_IDLE"
  /\ md_op' = op /\ md_a' = a /\ md_b' = b
  /\ IF op \in Muls
     THEN md_state' = "S_MUL" /\ UNCHANGED division
     ELSE /\ md_state' = "S_DIV"
          /\ dividend_mag' = Magnitude(op, a) /\ divisor_mag' = Magnitude(op, b)
          /\ quotient_q' = 0 /\ rem_q' = 0 /\ bit_idx' = XLEN - 1
  /\ md_done' = FALSE /\ UNCHANGED md_result

Idle == /\ md_state = "S_IDLE" /\ md_done' = FALSE
        /\ UNCHANGED <<md_state, operands, division, md_result>>

Mul == /\ md_state = "S_MUL"
       /\ Finish(IF md_op = "MD_MUL" THEN Product % W ELSE (Product \div W) % W)
       /\ UNCHANGED <<operands, division>>

Special == /\ md_state = "S_DIV" /\ (div_by_zero \/ div_overflow)
           /\ Finish(CASE div_by_zero /\ md_op \in {"MD_DIV", "MD_DIVU"} -> W - 1
                       [] div_by_zero /\ md_op \in {"MD_REM", "MD_REMU"} -> md_a
                       [] ~div_by_zero /\ md_op = "MD_DIV" -> W \div 2
                       [] OTHER -> 0)
           /\ UNCHANGED <<operands, division>>

(* One bit of the quotient.                                                *)
Divide == /\ md_state = "S_DIV" /\ ~div_by_zero /\ ~div_overflow
          /\ rem_q' = IF fits THEN rem_shifted - divisor_mag ELSE rem_shifted
          /\ quotient_q' = (2 * quotient_q + IF fits THEN 1 ELSE 0) % W
          /\ IF bit_idx = 0
             THEN md_state' = "S_FIN" /\ UNCHANGED bit_idx
             ELSE bit_idx' = bit_idx - 1 /\ UNCHANGED md_state
          /\ md_done' = FALSE
          /\ UNCHANGED <<operands, dividend_mag, divisor_mag, md_result>>

Fin == /\ md_state = "S_FIN"
       /\ Finish(CASE md_op = "MD_DIV"  -> IF neg_quot THEN Neg(quotient_q) ELSE quotient_q
                   [] md_op = "MD_DIVU" -> quotient_q
                   [] md_op = "MD_REM"  -> IF neg_rem THEN Neg(rem_q % W) ELSE rem_q % W
                   [] OTHER -> rem_q % W)
       /\ UNCHANGED <<operands, division>>

MdRst == /\ md_state' = "S_IDLE" /\ md_done' = FALSE /\ md_result' = 0
         /\ UNCHANGED <<operands, division>>

MdNext(ops) == \/ \E op \in ops : \E a, b \in Word : Start(op, a, b)
               \/ Idle \/ Mul \/ Special \/ Divide \/ Fin
               \/ MdRst

(* Before the first reset the registers hold anything; nothing reads them. *)
MdInit == /\ md_state = "S_IDLE" /\ md_done = FALSE /\ md_result = 0
          /\ md_op = "MD_MUL" /\ md_a = 0 /\ md_b = 0
          /\ bit_idx = 0 /\ dividend_mag = 0 /\ divisor_mag = 0
          /\ quotient_q = 0 /\ rem_q = 0

-----------------------------------------------------------------------------
(* What the instruction set asks of each operation: quotients rounded      *)
(* towards zero, remainders with the sign of the dividend, and fixed       *)
(* results for a zero divisor and for the quotient that does not fit.      *)
Abs(x) == IF x < 0 THEN -x ELSE x
Quot(x, y) == IF (x < 0) # (y < 0) THEN -(Abs(x) \div Abs(y)) ELSE Abs(x) \div Abs(y)
Rem(x, y)  == x - y * Quot(x, y)

Expected(op, a, b) ==
  CASE op = "MD_MUL"    -> (a * b) % W
    [] op = "MD_MULH"   -> ((Signed(a) * Signed(b)) \div W) % W
    [] op = "MD_MULHSU" -> ((Signed(a) * b) \div W) % W
    [] op = "MD_MULHU"  -> (a * b) \div W
    [] op = "MD_DIV"    -> IF b = 0 THEN W - 1 ELSE Quot(Signed(a), Signed(b)) % W
    [] op = "MD_DIVU"   -> IF b = 0 THEN W - 1 ELSE a \div b
    [] op = "MD_REM"    -> IF b = 0 THEN a ELSE Rem(Signed(a), Signed(b)) % W
    [] op = "MD_REMU"   -> IF b = 0 THEN a ELSE a % b

(* done comes with the result of the operation last started, also after a  *)
(* reset has cut one before it short.                                      *)
MdResult == md_done => md_result = Expected(md_op, md_a, md_b)

(* The shift-subtract loop: what is left of the dividend is below the      *)
(* divisor, so the remainder never needs the bit the shift drops.          *)
RemainderFits ==
  md_state \in {"S_DIV", "S_FIN"} /\ ~div_by_zero /\ ~div_overflow => rem_q < divisor_mag
=============================================================================
