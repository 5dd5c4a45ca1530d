-------------------------- MODULE KavachaUnitProofs --------------------------
(***************************************************************************)
(* The units that stand alone, for words of every width: the multiply and  *)
(* divide unit, the register file with error correction and the PMP.       *)
(***************************************************************************)
EXTENDS KavachaMuldiv, KavachaRegfileEcc, KavachaPmp, FiniteSetTheorems,
        WellFoundedInduction, TLAPS

-----------------------------------------------------------------------------
(* Induction over the naturals, for one set at a time: the library's form  *)
(* takes an operator, but a set's least element serves as well.            *)

LEMMA Least ==
  ASSUME NEW S \in SUBSET Nat, S # {}
  PROVE  \E m \in S : \A n \in S : m <= n
<1>1. PICK m \in S : \A y \in S : ~(<<y, m>> \in OpToRel(<, Nat))
  BY NatLessThanWellFounded, WFMin
<1>2. \A y \in S : ~(y < m)
  BY <1>1 DEF OpToRel
<1>3. QED
  BY <1>2

LEMMA Induct ==
  ASSUME NEW S \in SUBSET Nat, 0 \in S, \A n \in S : n + 1 \in S
  PROVE  S = Nat
<1>1. SUFFICES ASSUME Nat \ S # {} PROVE FALSE
  OBVIOUS
<1>2. PICK m \in Nat \ S : \A n \in Nat \ S : m <= n
  BY <1>1, Least
<1>3. m # 0 /\ m - 1 \in Nat
  BY <1>2
<1>4. m - 1 \in S
  BY <1>2, <1>3
<1>5. QED
  BY <1>2, <1>4

(* The table of the powers up to n.                                        *)
Table(p, n) == /\ p \in [0 .. n -> Nat] /\ p[0] = 1
               /\ \A k \in 1 .. n : p[k] = 2 * p[k - 1]

LEMMA TableExists == ASSUME NEW n \in Nat PROVE \E p : Table(p, n)
<1> DEFINE S == {m \in Nat : \E p : Table(p, m)}
<1>1. 0 \in S
  <2>1. Table([k \in 0 .. 0 |-> 1], 0)
    BY DEF Table
  <2>2. QED
    BY <2>1
<1>2. ASSUME NEW m \in S PROVE m + 1 \in S
  <2>1. PICK p : Table(p, m)
    OBVIOUS
  <2> DEFINE q == [k \in 0 .. m + 1 |-> IF k = m + 1 THEN 2 * p[m] ELSE p[k]]
  <2>2. m \in Nat /\ p \in [0 .. m -> Nat] /\ p[0] = 1
    BY <2>1 DEF Table
  <2>3. q \in [0 .. m + 1 -> Nat]
    <3>1. p[m] \in Nat
      BY <2>2
    <3>2. \A k \in 0 .. m + 1 : k # m + 1 => p[k] \in Nat
      BY <2>2
    <3>3. QED
      BY <3>1, <3>2
  <2>4. q[0] = 1 /\ q[m + 1] = 2 * p[m] /\ \A k \in 0 .. m : q[k] = p[k]
    BY <2>2
  <2>5. ASSUME NEW k \in 1 .. m + 1 PROVE q[k] = 2 * q[k - 1]
    <3> HIDE DEF q
    <3>1. k - 1 \in 0 .. m /\ q[k - 1] = p[k - 1]
      BY <2>2, <2>4
    <3>2. CASE k = m + 1
      BY <2>2, <2>4, <3>1, <3>2
    <3>3. CASE k # m + 1
      <4>1. k \in 1 .. m /\ q[k] = p[k]
        BY <2>2, <2>4, <3>3
      <4>2. p[k] = 2 * p[k - 1]
        BY <2>1, <4>1 DEF Table
      <4>3. QED
        BY <3>1, <4>1, <4>2
    <3>4. QED
      BY <3>2, <3>3
  <2>6. Table(q, m + 1)
    <3> HIDE DEF q
    <3>1. QED
      BY <2>3, <2>4, <2>5 DEF Table
  <2>7. QED
    BY <2>2, <2>6
<1>3. S = Nat
  <2> HIDE DEF S
  <2>1. S \in SUBSET Nat
    BY DEF S
  <2>2. QED
    BY <1>1, <1>2, <2>1, Induct
<1>4. QED
  BY <1>3

LEMMA TableUnique ==
  ASSUME NEW m \in Nat, NEW n \in Nat, NEW p, NEW q, Table(p, m), Table(q, n),
         NEW k \in Nat, k <= m, k <= n
  PROVE  p[k] = q[k]
<1> DEFINE S == {i \in Nat : i <= m /\ i <= n => p[i] = q[i]}
<1>1. 0 \in S
  BY DEF Table
<1>2. ASSUME NEW i \in S PROVE i + 1 \in S
  <2>1. i + 1 <= m /\ i + 1 <= n => p[i + 1] = 2 * p[i] /\ q[i + 1] = 2 * q[i]
    BY DEF Table
  <2>2. QED
    BY <2>1
<1>3. S = Nat
  <2> HIDE DEF S
  <2>1. S \in SUBSET Nat
    BY DEF S
  <2>2. QED
    BY <1>1, <1>2, <2>1, Induct
<1>4. QED
  BY <1>3

LEMMA Pow2Def == Pow2 = [n \in Nat |-> IF n = 0 THEN 1 ELSE 2 * Pow2[n - 1]]
<1> DEFINE t(n) == CHOOSE p : Table(p, n)
           f == [n \in Nat |-> t(n)[n]]
<1>1. \A n \in Nat : Table(t(n), n)
  BY TableExists
<1>2. f = [n \in Nat |-> IF n = 0 THEN 1 ELSE 2 * f[n - 1]]
  <2>1. t(0)[0] = 1
    BY <1>1 DEF Table
  <2>2. ASSUME NEW n \in Nat, n # 0 PROVE t(n)[n] = 2 * t(n - 1)[n - 1]
    <3>1. n - 1 \in Nat /\ Table(t(n), n) /\ Table(t(n - 1), n - 1)
      BY <1>1, <2>2
    <3> HIDE DEF t
    <3>2. t(n)[n] = 2 * t(n)[n - 1]
      BY <2>2, <3>1 DEF Table
    <3>3. t(n)[n - 1] = t(n - 1)[n - 1]
      BY <3>1, TableUnique
    <3>4. QED
      BY <3>2, <3>3
  <2> HIDE DEF t
  <2>3. ASSUME NEW n \in Nat PROVE t(n)[n] = IF n = 0 THEN 1 ELSE 2 * f[n - 1]
    BY <2>1, <2>2
  <2>4. QED
    BY <2>3
<1>3. \E g : g = [n \in Nat |-> IF n = 0 THEN 1 ELSE 2 * g[n - 1]]
  BY <1>2
<1>4. QED
  BY <1>3 DEF Pow2

LEMMA Pow2Next ==
  /\ Pow2[0] = 1
  /\ \A n \in Nat : Pow2[n + 1] = 2 * Pow2[n]
<1>1. ASSUME NEW f, NEW g, f = [n \in Nat |-> IF n = 0 THEN 1 ELSE 2 * g[n - 1]]
      PROVE  f[0] = 1 /\ \A n \in Nat : f[n + 1] = 2 * g[n]
  <2>1. \A n \in Nat : n + 1 \in Nat /\ n + 1 # 0 /\ (n + 1) - 1 = n
    OBVIOUS
  <2>2. QED
    BY <1>1, <2>1
<1> HIDE DEF Pow2
<1>2. QED
  BY ONLY <1>1, Pow2Def

LEMMA Pow2Type == ASSUME NEW n \in Nat PROVE Pow2[n] \in Nat \ {0}
<1> DEFINE S == {m \in Nat : Pow2[m] \in Nat \ {0}}
<1>1. 0 \in S /\ \A m \in S : m + 1 \in S
  BY Pow2Next
<1>2. S = Nat
  <2> HIDE DEF S
  <2>1. S \in SUBSET Nat
    BY DEF S
  <2>2. QED
    BY <1>1, <2>1, Induct
<1>3. QED
  BY <1>2

MdSpec == MdInit /\ [][MdNext(Muls \cup Divs)]_mdvars

-----------------------------------------------------------------------------
(* Arithmetic.                                                             *)

LEMMA SmallMod == ASSUME NEW x \in Nat, NEW w \in Nat, x < w PROVE x % w = x
OBVIOUS

LEMMA DivMod ==
  ASSUME NEW x \in Int, NEW d \in Nat \ {0}
  PROVE  /\ x \div d \in Int /\ x % d \in 0 .. d - 1 /\ x = d * (x \div d) + (x % d)
         /\ x \in Nat => x \div d \in Nat /\ x \div d <= x
<1> DEFINE q == x \div d
           r == x % d
<1>1. q \in Int /\ r \in 0 .. d - 1 /\ x = d * q + r /\ (x \in Nat => q \in Nat)
  OBVIOUS
<1> HIDE DEF q, r
<1>2. q \in Nat => q <= d * q
  BY <1>1
<1>3. x \in Nat => q \in Nat /\ q <= x
  BY <1>1, <1>2
<1> QED
  BY <1>1, <1>3 DEF q, r

(* A multiple is no smaller than what it is a multiple of.                 *)
LEMMA Multiple ==
  ASSUME NEW d \in Nat \ {0}, NEW k \in Int, k >= 1
  PROVE  d * k >= d
OBVIOUS

(* Quotient and remainder are the only two numbers that divide.            *)
LEMMA DivUnique ==
  ASSUME NEW x \in Int, NEW d \in Nat \ {0}, NEW q \in Int, NEW r \in 0 .. d - 1,
         x = d * q + r
  PROVE  x \div d = q /\ x % d = r
<1> DEFINE a == x \div d
           s == x % d
<1>1. a \in Int /\ s \in 0 .. d - 1 /\ x = d * a + s
  BY DivMod
<1> HIDE DEF a, s
<1>2. d * (a - q) = r - s /\ d * (q - a) = s - r
  BY <1>1
<1>3. ~(a - q >= 1)
  BY <1>1, <1>2, Multiple
<1>4. ~(q - a >= 1)
  BY <1>1, <1>2, Multiple
<1>5. a = q
  BY <1>1, <1>3, <1>4
<1>6. s = r
  BY <1>1, <1>5
<1> QED
  BY <1>5, <1>6 DEF a, s

LEMMA ModShift ==
  ASSUME NEW u \in Int, NEW v \in Int, NEW d \in Nat \ {0}
  PROVE  (u + d * v) % d = u % d
<1> DEFINE a == u \div d
           s == u % d
<1>1. a \in Int /\ s \in 0 .. d - 1 /\ u = d * a + s
  BY DivMod
<1> HIDE DEF a, s
<1>2. u + d * v = d * (a + v) + s /\ u + d * v \in Int /\ a + v \in Int
  BY <1>1
<1>3. (u + d * v) % d = s
  BY <1>1, <1>2, DivUnique
<1> QED
  BY <1>3 DEF s

(* The bits of a number from i on are those from i + 1 on, and bit i.      *)
LEMMA NextBit ==
  ASSUME NEW x \in Nat, NEW i \in Nat
  PROVE  /\ Bit(x, i) \in 0 .. 1 /\ x \div Pow2[i] \in Nat /\ x \div Pow2[i + 1] \in Nat
         /\ x \div Pow2[i] = 2 * (x \div Pow2[i + 1]) + Bit(x, i)
<1> DEFINE p == Pow2[i]
           m == x \div p
           k == m \div 2
           b == m % 2
<1>1. p \in Nat \ {0} /\ Pow2[i + 1] = 2 * p
  BY Pow2Type, Pow2Next
<1> HIDE DEF p
<1> DEFINE s == x % p
<1>2. m \in Nat /\ s \in 0 .. p - 1 /\ x = p * m + s
  <2>1. x \in Int
    OBVIOUS
  <2> QED
    BY <1>1, <2>1, DivMod
<1> HIDE DEF m, s
<1>3. k \in Nat /\ b \in 0 .. 1 /\ m = 2 * k + b
  BY <1>2, DivMod
<1> HIDE DEF k, b
<1>4. p * m = (2 * p) * k + p * b
  BY <1>1, <1>2, <1>3
<1>5. p * b + s \in 0 .. 2 * p - 1
  BY <1>1, <1>2, <1>3
<1>6. x = (2 * p) * k + (p * b + s) /\ 2 * p \in Nat \ {0}
  BY <1>1, <1>2, <1>3, <1>4, <1>5
<1>7. x \div Pow2[i + 1] = k
  BY <1>1, <1>3, <1>5, <1>6, DivUnique
<1> QED
  BY <1>2, <1>3, <1>7 DEF Bit, p, m, b

LEMMA WordSize ==
  /\ W \in Nat /\ W >= 4 /\ W \div 2 \in Nat /\ W = 2 * (W \div 2)
  /\ \A x \in Word : x \in Nat /\ x < W
<1>1. XLEN - 2 \in Nat /\ XLEN - 1 \in Nat /\ (XLEN - 2) + 1 = XLEN - 1 /\ (XLEN - 1) + 1 = XLEN
  BY MuldivAssumption
<1>2. /\ Pow2[XLEN - 2] \in Nat \ {0} /\ Pow2[XLEN - 1] = 2 * Pow2[XLEN - 2]
      /\ Pow2[XLEN] = 2 * Pow2[XLEN - 1]
  BY <1>1, Pow2Type, Pow2Next
<1>3. W \in Nat /\ W = 4 * Pow2[XLEN - 2]
  BY <1>2 DEF W
<1> QED
  BY <1>2, <1>3 DEF Word

(* The signed reading of a word, and its magnitude.                        *)
LEMMA Signs ==
  ASSUME NEW op, NEW x \in Word
  PROVE  /\ Magnitude(op, x) \in Word /\ (Magnitude(op, x) = 0 <=> x = 0)
         /\ op \notin {"MD_DIV", "MD_REM"} => Magnitude(op, x) = x
         /\ op \in {"MD_DIV", "MD_REM"} =>
              Signed(x) = IF Negative(x) THEN -Magnitude(op, x) ELSE Magnitude(op, x)
         /\ Signed(x) \in Int /\ (Signed(x) < 0 <=> Negative(x))
         /\ \E v \in Int : Signed(x) = x + W * v
<1>1. W \in Nat /\ W >= 4 /\ W \div 2 \in Nat /\ W = 2 * (W \div 2) /\ x \in Nat /\ x < W
  BY WordSize
<1>2. x # 0 => Neg(x) = W - x
  BY <1>1, SmallMod DEF Neg
<1>3. Negative(x) => x # 0
  BY <1>1 DEF Negative
<1>4. /\ Magnitude(op, x) \in Word /\ (Magnitude(op, x) = 0 <=> x = 0)
      /\ op \notin {"MD_DIV", "MD_REM"} => Magnitude(op, x) = x
  BY <1>1, <1>2, <1>3 DEF Magnitude, Word
<1>5. op \in {"MD_DIV", "MD_REM"} =>
        Signed(x) = IF Negative(x) THEN -Magnitude(op, x) ELSE Magnitude(op, x)
  BY <1>1, <1>2, <1>3 DEF Magnitude, Signed
<1>6. Signed(x) \in Int /\ (Signed(x) < 0 <=> Negative(x))
  BY <1>1 DEF Negative, Signed
<1>7. Signed(x) = x + W * 0 \/ Signed(x) = x + W * (-1)
  BY <1>1 DEF Signed
<1> QED
  BY <1>4, <1>5, <1>6, <1>7

-----------------------------------------------------------------------------
(* The multiply and divide unit: what the loop has built so far, the       *)
(* quotient times the divisor and the remainder, is the part of the        *)
(* dividend that it has consumed.                                          *)
Runs == md_state \in {"S_DIV", "S_FIN"} /\ ~div_by_zero /\ ~div_overflow

Consumed ==
  IF md_state = "S_FIN" THEN dividend_mag ELSE dividend_mag \div Pow2[bit_idx + 1]

MdInv ==
  /\ md_state \in {"S_IDLE", "S_MUL", "S_DIV", "S_FIN"}
  /\ md_op \in Muls \cup Divs /\ md_a \in Word /\ md_b \in Word
  /\ md_state \in {"S_DIV", "S_FIN"} =>
       /\ md_op \in Divs /\ bit_idx \in 0 .. XLEN - 1
       /\ dividend_mag = Magnitude(md_op, md_a) /\ divisor_mag = Magnitude(md_op, md_b)
       /\ quotient_q \in Nat /\ rem_q \in Nat
  /\ md_state = "S_MUL" => md_op \in Muls
  /\ md_state = "S_FIN" => Runs
  /\ Runs => rem_q < divisor_mag /\ quotient_q * divisor_mag + rem_q = Consumed
  /\ MdResult

LEMMA MdStart ==
  ASSUME NEW op \in Muls \cup Divs, NEW a \in Word, NEW b \in Word, Start(op, a, b)
  PROVE  MdInv'
<1>1. md_op' = op /\ md_a' = a /\ md_b' = b /\ md_done' = FALSE
  BY DEF Start
<1>2. CASE op \in Muls
  BY <1>1, <1>2 DEF Start, MdInv, Runs, MdResult
<1>3. CASE op \notin Muls
  <2>1. /\ md_state' = "S_DIV" /\ quotient_q' = 0 /\ rem_q' = 0 /\ bit_idx' = XLEN - 1
        /\ dividend_mag' = Magnitude(op, a) /\ divisor_mag' = Magnitude(op, b)
    BY <1>3 DEF Start
  <2>2. /\ Magnitude(op, a) \in Nat /\ Magnitude(op, b) \in Nat
        /\ Magnitude(op, a) < W /\ (b # 0 => Magnitude(op, b) # 0) /\ W \in Nat \ {0}
    BY Signs, WordSize
  <2>3. bit_idx' \in 0 .. XLEN - 1 /\ Pow2[bit_idx' + 1] = W
    BY <2>1, MuldivAssumption DEF W
  <2>4. Magnitude(op, a) \div W = 0
    BY <2>2, DivUnique
  <2>5. Runs' => rem_q' < divisor_mag'
    BY <1>1, <2>1, <2>2 DEF Runs, div_by_zero
  <2>6. quotient_q' * divisor_mag' + rem_q' = Consumed'
    BY <2>1, <2>2, <2>3, <2>4 DEF Consumed
  <2>7. op \in Divs
    BY <1>3
  <2> QED
    BY <1>1, <2>1, <2>3, <2>5, <2>6, <2>7 DEF MdInv, MdResult
<1> QED
  BY <1>2, <1>3

(* One bit more of the dividend.                                           *)
LEMMA MdDivide == ASSUME MdInv, Divide PROVE MdInv'
<1> DEFINE i == bit_idx
           N == dividend_mag
           D == divisor_mag
           q == 2 * quotient_q + IF fits THEN 1 ELSE 0
<1>1. /\ md_state = "S_DIV" /\ ~div_by_zero /\ ~div_overflow /\ Runs
      /\ md_op \in Divs /\ md_a \in Word /\ md_b \in Word /\ bit_idx \in 0 .. XLEN - 1
      /\ N = Magnitude(md_op, md_a) /\ D = Magnitude(md_op, md_b)
      /\ quotient_q \in Nat /\ rem_q \in Nat /\ rem_q < D
      /\ quotient_q * D + rem_q = N \div Pow2[i + 1]
  BY DEF MdInv, Divide, Runs, Consumed
<1>2. N \in Nat /\ N < W /\ D \in Nat /\ D < W /\ W \in Nat \ {0} /\ i \in Nat
  BY <1>1, Signs, WordSize, MuldivAssumption
<1>3. rem_q % W = rem_q
  BY <1>1, <1>2, SmallMod
<1>4. /\ Bit(N, i) \in 0 .. 1 /\ N \div Pow2[i] \in Nat
      /\ N \div Pow2[i] = 2 * (N \div Pow2[i + 1]) + Bit(N, i)
  BY <1>2, NextBit
<1>5. rem_shifted = 2 * rem_q + Bit(N, i) /\ rem_shifted \in Nat /\ rem_shifted < 2 * D
  BY <1>1, <1>2, <1>3, <1>4 DEF rem_shifted
<1>6. /\ rem_q' = IF rem_shifted >= D THEN rem_shifted - D ELSE rem_shifted
      /\ quotient_q' = q % W
      /\ UNCHANGED <<md_op, md_a, md_b, dividend_mag, divisor_mag>> /\ md_done' = FALSE
      /\ IF i = 0 THEN md_state' = "S_FIN" /\ bit_idx' = i
                  ELSE bit_idx' = i - 1 /\ md_state' = "S_DIV"
  BY <1>1 DEF Divide, fits, operands
<1>7. rem_q' \in Nat /\ rem_q' < D
  BY <1>2, <1>5, <1>6
<1>8. q \in Nat /\ q * D + rem_q' = N \div Pow2[i]
  <2>1. 2 * (quotient_q * D + rem_q) + Bit(N, i) = N \div Pow2[i]
    BY <1>1, <1>4
  <2> HIDE DEF N, D, i
  <2>2. CASE fits
    <3>1. rem_shifted >= D
      BY <2>2 DEF fits, D
    <3>2. rem_q' = 2 * rem_q + Bit(N, i) - D
      <4>1. rem_q' = rem_shifted - D
        BY <1>6, <3>1
      <4> QED
        BY <1>1, <1>2, <1>4, <1>5, <4>1
    <3>3. q = 2 * quotient_q + 1
      BY <2>2
    <3> QED
      BY <1>1, <1>2, <1>4, <2>1, <3>2, <3>3
  <2>3. CASE ~fits
    <3>1. q = 2 * quotient_q /\ rem_q' = 2 * rem_q + Bit(N, i)
      BY <1>1, <1>5, <1>6, <2>3 DEF fits, D
    <3> QED
      BY <1>1, <1>2, <1>4, <2>1, <3>1
  <2> QED
    BY <2>2, <2>3
<1> HIDE DEF q
<1>9. q < W
  <2>1. N \div Pow2[i] <= N
    <3>1. N \in Int /\ Pow2[i] \in Nat \ {0}
      BY <1>2, Pow2Type
    <3> QED
      BY <1>2, <3>1, DivMod
  <2>2. q <= q * D
    BY <1>1, <1>2, <1>8
  <2> QED
    BY <1>2, <1>4, <1>7, <1>8, <2>1, <2>2
<1>10. quotient_q' = q
  BY <1>2, <1>6, <1>8, <1>9, SmallMod
<1>11. Consumed' = N \div Pow2[i]
  <2>1. CASE i = 0
    <3>1. N \div 1 = N
      BY <1>2
    <3> QED
      BY <1>6, <2>1, <3>1, Pow2Next DEF Consumed
  <2>2. CASE i # 0
    BY <1>2, <1>6, <2>2 DEF Consumed
  <2> QED
    BY <2>1, <2>2
<1>12. quotient_q' * divisor_mag' + rem_q' = Consumed'
  BY <1>6, <1>8, <1>10, <1>11
<1>13. ~div_by_zero' /\ ~div_overflow' /\ md_state' \in {"S_DIV", "S_FIN"}
  BY <1>1, <1>6 DEF div_by_zero, div_overflow
<1>14. bit_idx' \in 0 .. XLEN - 1
  BY <1>1, <1>6, MuldivAssumption
<1> QED
  BY <1>1, <1>6, <1>7, <1>8, <1>10, <1>12, <1>13, <1>14 DEF MdInv, Runs, MdResult

(* What the two numbers give that divide the magnitudes.                   *)
LEMMA Divided ==
  ASSUME NEW op \in Divs, NEW a \in Word, NEW b \in Word, b # 0,
         NEW q \in Nat, NEW r \in Nat, r < Magnitude(op, b),
         q * Magnitude(op, b) + r = Magnitude(op, a)
  PROVE  Expected(op, a, b) =
           CASE op = "MD_DIV"  -> IF Negative(a) # Negative(b) THEN Neg(q) ELSE q
             [] op = "MD_DIVU" -> q
             [] op = "MD_REM"  -> IF Negative(a) THEN Neg(r) ELSE r
             [] OTHER -> r
<1> DEFINE N == Magnitude(op, a)
           D == Magnitude(op, b)
<1>1. /\ N \in Nat /\ N < W /\ D \in Nat \ {0} /\ D < W /\ W \in Nat \ {0}
      /\ N = D * q + r
  BY Signs, WordSize
<1>2. N \div D = q /\ N % D = r
  BY <1>1, DivUnique
<1>3. q < W /\ r < W
  <2>1. q <= D * q
    BY <1>1
  <2> QED
    BY <1>1, <2>1
<1>4. q % W = q /\ r % W = r /\ (-q) % W = Neg(q) /\ (-r) % W = Neg(r)
  <2>1. q % W = q /\ r % W = r
    BY <1>1, <1>3, SmallMod
  <2>2. W - q = -q + W * 1 /\ W - r = -r + W * 1 /\ -q \in Int /\ -r \in Int
    BY <1>1
  <2>3. \A u, v \in Int : (u + W * v) % W = u % W
    BY <1>1, ModShift
  <2> QED
    BY <2>1, <2>2, <2>3 DEF Neg
<1>5. CASE op \in {"MD_DIV", "MD_REM"}
  <2>1. /\ Signed(a) = IF Negative(a) THEN -N ELSE N
        /\ Signed(b) = IF Negative(b) THEN -D ELSE D
        /\ (Signed(a) < 0 <=> Negative(a)) /\ (Signed(b) < 0 <=> Negative(b))
    BY <1>5, Signs
  <2> HIDE DEF N, D
  <2>2. Abs(Signed(a)) = N /\ Abs(Signed(b)) = D
    BY <1>1, <2>1 DEF Abs
  <2>3. Quot(Signed(a), Signed(b)) = IF Negative(a) # Negative(b) THEN -q ELSE q
    BY <1>2, <2>1, <2>2 DEF Quot, Negative
  <2>4. Rem(Signed(a), Signed(b)) = IF Negative(a) THEN -r ELSE r
    <3>1. (-D) * (-q) = D * q /\ (-D) * q = -(D * q) /\ D * (-q) = -(D * q)
      BY <1>1
    <3>2. Signed(b) * Quot(Signed(a), Signed(b)) = IF Negative(a) THEN -(D * q) ELSE D * q
      <4>1. CASE Negative(a) /\ Negative(b)
        BY <2>1, <2>3, <3>1, <4>1
      <4>2. CASE Negative(a) /\ ~Negative(b)
        BY <2>1, <2>3, <3>1, <4>2
      <4>3. CASE ~Negative(a) /\ Negative(b)
        BY <2>1, <2>3, <3>1, <4>3
      <4>4. CASE ~Negative(a) /\ ~Negative(b)
        BY <2>1, <2>3, <4>4 DEF Negative
      <4> QED
        BY <4>1, <4>2, <4>3, <4>4
    <3> QED
      BY <1>1, <2>1, <3>2 DEF Rem
  <2> QED
    BY <1>4, <1>5, <2>3, <2>4 DEF Expected
<1>6. CASE op \in {"MD_DIVU", "MD_REMU"}
  <2>1. N = a /\ D = b
    BY <1>6, Signs
  <2> QED
    BY <1>2, <1>6, <2>1 DEF Expected
<1> QED
  BY <1>5, <1>6 DEF Divs

LEMMA MdFin == ASSUME MdInv, Fin PROVE MdInv'
<1>1. /\ md_op \in Divs /\ md_a \in Word /\ md_b \in Word /\ md_b # 0
      /\ divisor_mag = Magnitude(md_op, md_b) /\ quotient_q \in Nat /\ rem_q \in Nat
      /\ rem_q < divisor_mag /\ quotient_q * divisor_mag + rem_q = Magnitude(md_op, md_a)
  BY DEF MdInv, Fin, Runs, Consumed, div_by_zero
<1>2. rem_q % W = rem_q
  BY <1>1, Signs, WordSize, SmallMod
<1>3. md_result' = Expected(md_op, md_a, md_b)
  BY <1>1, <1>2, Divided DEF Fin, Finish, neg_quot, neg_rem
<1> QED
  BY <1>3 DEF MdInv, MdResult, Runs, Fin, Finish, operands

LEMMA MdSpecial == ASSUME MdInv, Special PROVE MdInv'
<1> DEFINE H == W \div 2
<1>1. md_op \in Divs /\ md_a \in Word /\ md_b \in Word /\ (div_by_zero \/ div_overflow)
  BY DEF MdInv, Special
<1>2. W \in Nat /\ W >= 4 /\ H \in Nat /\ W = 2 * H
  BY WordSize
<1>3. CASE div_by_zero
  BY <1>1, <1>3 DEF MdInv, MdResult, Runs, Special, Finish, operands, Expected, div_by_zero, Divs
<1>4. CASE ~div_by_zero
  <2>1. md_op \in {"MD_DIV", "MD_REM"} /\ md_a = H /\ md_b = W - 1 /\ md_b # 0
    BY <1>1, <1>2, <1>4 DEF div_overflow, div_by_zero
  <2> HIDE DEF H
  <2>2. Signed(md_a) = -H /\ Signed(md_b) = -1 /\ -H < 0
    BY <1>2, <2>1 DEF Signed, Negative, H
  <2>3. H \div 1 = H /\ H % W = H /\ 0 % W = 0
    BY <1>2
  <2>4. Quot(-H, -1) = H
    BY <1>2, <2>3 DEF Quot, Abs
  <2>5. Rem(-H, -1) = 0
    BY <1>2, <2>4 DEF Rem
  <2>6. Expected(md_op, md_a, md_b) = IF md_op = "MD_DIV" THEN H ELSE 0
    BY <2>1, <2>2, <2>3, <2>4, <2>5 DEF Expected
  <2>7. md_result' = IF md_op = "MD_DIV" THEN H ELSE 0
    BY <1>4, <2>1 DEF Special, Finish, H
  <2> QED
    BY <2>6, <2>7 DEF MdInv, MdResult, Runs, Special, Finish, operands
<1> QED
  BY <1>3, <1>4

LEMMA MdMul == ASSUME MdInv, Mul PROVE MdInv'
<1>1. md_op \in Muls /\ md_a \in Word /\ md_b \in Word
  BY DEF MdInv, Mul
<1>2. W \in Nat \ {0} /\ md_a \in Nat /\ md_a < W /\ md_b \in Nat /\ md_b < W
  BY <1>1, WordSize
<1>3. (Signed(md_a) * Signed(md_b)) % W = (md_a * md_b) % W
  <2>1. PICK u \in Int : Signed(md_a) = md_a + W * u
    BY <1>1, Signs
  <2>2. PICK v \in Int : Signed(md_b) = md_b + W * v
    BY <1>1, Signs
  <2>3. (md_a + W * u) * (md_b + W * v)
          = md_a * md_b + W * (md_a * v + u * md_b + W * u * v)
    BY <1>2, <2>1, <2>2
  <2> DEFINE x == md_a * md_b
             y == md_a * v + u * md_b + W * u * v
  <2>4. x \in Int /\ y \in Int
    BY <1>2, <2>1, <2>2
  <2> HIDE DEF x, y
  <2>5. (x + W * y) % W = x % W
    BY <1>2, <2>4, ModShift
  <2> QED
    BY <2>1, <2>2, <2>3, <2>5 DEF x, y
<1>4. ((md_a * md_b) \div W) % W = (md_a * md_b) \div W
  <2> DEFINE x == md_a * md_b
             h == x \div W
  <2>1. x \in Nat /\ x < W * W
    BY <1>2
  <2> HIDE DEF x
  <2>2. h \in Nat /\ W * h <= x
    BY <1>2, <2>1, DivMod
  <2> HIDE DEF h
  <2>3. h < W
    <3>1. SUFFICES ASSUME h >= W PROVE FALSE
      BY <1>2, <2>2
    <3>2. W * W <= W * h
      BY <1>2, <2>2, <3>1
    <3> QED
      BY <1>2, <2>1, <2>2, <3>2
  <2> QED
    BY <1>2, <2>2, <2>3, SmallMod DEF h, x
<1>5. (IF md_op = "MD_MUL" THEN Product % W ELSE (Product \div W) % W)
        = Expected(md_op, md_a, md_b)
  BY <1>1, <1>3, <1>4 DEF Product, Expected, Muls
<1> QED
  BY <1>5 DEF MdInv, MdResult, Runs, Mul, Finish, operands

LEMMA MdOther ==
  ASSUME MdInv, Idle \/ MdRst \/ UNCHANGED mdvars
  PROVE  MdInv'
<1>1. CASE Idle
  BY <1>1 DEF Idle, operands, division, MdInv, MdResult, Runs
<1>2. CASE MdRst
  BY <1>2 DEF MdRst, operands, division, MdInv, MdResult, Runs
<1>3. CASE UNCHANGED mdvars
  BY <1>3 DEF mdvars, operands, division, MdInv, MdResult, Runs, Consumed, div_by_zero,
     div_overflow
<1> QED
  BY <1>1, <1>2, <1>3

(* MdInv: in every state of the unit quotient and remainder are those of   *)
(* the bits of the dividend that the loop has consumed.                    *)
THEOREM MdInvariant == MdSpec => []MdInv
<1>1. MdInit => MdInv
  BY WordSize DEF MdInit, MdInv, MdResult, Runs, Word, Muls
<1>2. MdInv /\ [MdNext(Muls \cup Divs)]_mdvars => MdInv'
  BY MdStart, MdDivide, MdFin, MdSpecial, MdMul, MdOther DEF MdNext
<1> QED
  BY <1>1, <1>2, PTL DEF MdSpec

(* Every operation gives what the instruction set asks, whatever the       *)
(* operands, the width of the words and the resets before it.              *)
THEOREM OperationsCorrect == MdSpec => []MdResult
<1>1. MdInv => MdResult
  BY DEF MdInv
<1> QED
  BY <1>1, MdInvariant, PTL

(* What is left of the dividend stays below the divisor.                   *)
THEOREM DivisionFits == MdSpec => []RemainderFits
<1>1. MdInv => RemainderFits
  BY DEF MdInv, Runs, RemainderFits
<1> QED
  BY <1>1, MdInvariant, PTL

-----------------------------------------------------------------------------
(* The register file: sets of bits and their parities.                     *)

LEMMA WordsFinite == ASSUME NEW d \in SUBSET WordBits PROVE IsFiniteSet(d)
<1>1. 0 \in Int /\ 31 \in Int
  OBVIOUS
<1>2. IsFiniteSet(0 .. 31)
  BY <1>1, FS_Interval, Zenon
<1> QED
  BY <1>2, FS_Subset DEF WordBits

LEMMA ChecksFinite == ASSUME NEW c \in SUBSET CheckBits PROVE IsFiniteSet(c)
<1>1. CheckBits \in SUBSET WordBits
  BY DEF CheckBits, WordBits
<1> QED
  BY <1>1, WordsFinite

LEMMA ParityNext == ASSUME NEW n \in Nat PROVE ((n + 1) % 2 = 1) <=> (n % 2 # 1)
OBVIOUS

(* A bit more or less changes the parity.                                  *)
LEMMA OddFlip ==
  ASSUME NEW s, IsFiniteSet(s), NEW b
  PROVE  Odd(Xor(s, {b})) = ~Odd(s)
<1>1. Cardinality(s) \in Nat
  BY FS_CardinalityType
<1>2. CASE b \in s
  <2>1. Xor(s, {b}) = s \ {b}
    BY <1>2 DEF Xor
  <2>2. Cardinality(s \ {b}) = Cardinality(s) - 1 /\ Cardinality(s \ {b}) \in Nat
    BY <1>2, FS_RemoveElement, FS_CardinalityType
  <2> QED
    <3>1. Cardinality(s) = Cardinality(s \ {b}) + 1
      BY <1>1, <2>2
    <3> QED
      BY <2>1, <2>2, <3>1, ParityNext DEF Odd
<1>3. CASE b \notin s
  <2>1. Xor(s, {b}) = s \cup {b}
    BY <1>3 DEF Xor
  <2>2. Cardinality(s \cup {b}) = Cardinality(s) + 1
    BY <1>3, FS_AddElement
  <2> QED
    BY <1>1, <2>1, <2>2, ParityNext DEF Odd
<1> QED
  BY <1>2, <1>3

(* Changing a data bit changes the check bits of its code.                 *)
LEMMA ChecksFlip ==
  ASSUME NEW d \in SUBSET WordBits, NEW b \in WordBits
  PROVE  Checks(Xor(d, {b})) = Xor(Checks(d), hcol[b])
<1> DEFINE of(e, i) == {j \in e : i \in hcol[j]}
<1>1. hcol[b] \subseteq CheckBits
  BY DEF hcol
<1>2. ASSUME NEW i \in CheckBits
      PROVE  Odd(of(Xor(d, {b}), i)) = (Odd(of(d, i)) # (i \in hcol[b]))
  <2>1. CASE i \in hcol[b]
    <3>1. of(Xor(d, {b}), i) = Xor(of(d, i), {b})
      BY <2>1 DEF Xor
    <3>2. IsFiniteSet(of(d, i))
      BY WordsFinite
    <3> HIDE DEF of
    <3>3. Odd(Xor(of(d, i), {b})) = ~Odd(of(d, i))
      BY <3>2, OddFlip
    <3> QED
      BY <2>1, <3>1, <3>3 DEF Odd
  <2>2. CASE i \notin hcol[b]
    <3>1. of(Xor(d, {b}), i) = of(d, i)
      BY <2>2 DEF Xor
    <3> HIDE DEF of
    <3> QED
      BY <2>2, <3>1 DEF Odd
  <2> QED
    BY <2>1, <2>2
<1>3. \A e : Checks(e) = {i \in CheckBits : Odd(of(e, i))}
  BY DEF Checks
<1>4. Checks(Xor(d, {b})) = {i \in CheckBits : Odd(of(d, i)) # (i \in hcol[b])}
  <2> HIDE DEF of
  <2> QED
    BY <1>2, <1>3
<1>5. Checks(d) = {i \in CheckBits : Odd(of(d, i))}
  BY <1>3
<1> HIDE DEF of
<1>6. \A i \in CheckBits : Odd(of(d, i)) \in BOOLEAN
  BY DEF Odd
<1> QED
  BY <1>1, <1>4, <1>5, <1>6 DEF Xor

-----------------------------------------------------------------------------
(* The codes: every data bit has one of its own, of two check bits or more.*)

LEMMA HcolValue ==
  ASSUME NEW j \in WordBits
  PROVE  Hcol[j + 1] = j + 3 + (IF j >= 1 THEN 1 ELSE 0) + (IF j >= 4 THEN 1 ELSE 0)
                         + (IF j >= 11 THEN 1 ELSE 0) + (IF j >= 26 THEN 1 ELSE 0)
BY DEF Hcol, WordBits

LEMMA SixBits ==
  ASSUME NEW x \in 0 .. 63
  PROVE  /\ \A i \in CheckBits : Bit(x, i) \in 0 .. 1
         /\ x = Bit(x, 0) + 2 * Bit(x, 1) + 4 * Bit(x, 2) + 8 * Bit(x, 3) + 16 * Bit(x, 4)
                  + 32 * Bit(x, 5)
<1>1. ASSUME NEW i \in Nat
      PROVE  /\ Bit(x, i) \in 0 .. 1 /\ x \div Pow2[i] \in Nat
             /\ x \div Pow2[i] = 2 * (x \div Pow2[i + 1]) + Bit(x, i)
  <2>1. x \in Nat
    OBVIOUS
  <2> QED
    BY <2>1, NextBit
<1>2. Pow2[0] = 1 /\ Pow2[6] = 64
  <2>1. /\ Pow2[0] = 1 /\ Pow2[1] = 2 * Pow2[0] /\ Pow2[2] = 2 * Pow2[1]
        /\ Pow2[3] = 2 * Pow2[2] /\ Pow2[4] = 2 * Pow2[3] /\ Pow2[5] = 2 * Pow2[4]
        /\ Pow2[6] = 2 * Pow2[5]
    BY Pow2Next
  <2> QED
    BY <2>1
<1>3. x \div 1 = x /\ x \div 64 = 0
  OBVIOUS
<1> DEFINE h(i) == x \div Pow2[i]
           b(i) == Bit(x, i)
<1>4. /\ h(0) = 2 * h(1) + b(0) /\ h(1) = 2 * h(2) + b(1) /\ h(2) = 2 * h(3) + b(2)
      /\ h(3) = 2 * h(4) + b(3) /\ h(4) = 2 * h(5) + b(4) /\ h(5) = 2 * h(6) + b(5)
  BY <1>1
<1>5. /\ h(0) = x /\ h(6) = 0
      /\ b(0) \in 0 .. 1 /\ b(1) \in 0 .. 1 /\ b(2) \in 0 .. 1 /\ b(3) \in 0 .. 1
      /\ b(4) \in 0 .. 1 /\ b(5) \in 0 .. 1
      /\ h(1) \in Nat /\ h(2) \in Nat /\ h(3) \in Nat /\ h(4) \in Nat /\ h(5) \in Nat
  BY <1>1, <1>2, <1>3
<1> HIDE DEF h, b
<1>6. PICK h1 \in Nat, h2 \in Nat, h3 \in Nat, h4 \in Nat, h5 \in Nat :
        h1 = h(1) /\ h2 = h(2) /\ h3 = h(3) /\ h4 = h(4) /\ h5 = h(5)
  BY <1>5
<1>7. PICK b0 \in 0 .. 1, b1 \in 0 .. 1, b2 \in 0 .. 1, b3 \in 0 .. 1, b4 \in 0 .. 1, b5 \in 0 .. 1 :
        b0 = b(0) /\ b1 = b(1) /\ b2 = b(2) /\ b3 = b(3) /\ b4 = b(4) /\ b5 = b(5)
  BY <1>5
<1>8. x = 2 * h1 + b0 /\ h1 = 2 * h2 + b1 /\ h2 = 2 * h3 + b2 /\ h3 = 2 * h4 + b3
      /\ h4 = 2 * h5 + b4 /\ h5 = b5
  BY <1>4, <1>5, <1>6, <1>7
<1>9. x = b0 + 2 * b1 + 4 * b2 + 8 * b3 + 16 * b4 + 32 * b5
  BY <1>8
<1> QED
  BY <1>1, <1>7, <1>9 DEF b, CheckBits

LEMMA CodesDistinct ==
  /\ \A j \in WordBits : hcol[j] \subseteq CheckBits /\ hcol[j] # {}
  /\ \A j \in WordBits, i \in CheckBits : hcol[j] # {i}
  /\ \A j, k \in WordBits : hcol[j] = hcol[k] => j = k
<1>1. \A j \in WordBits : \A i \in CheckBits : i \in hcol[j] <=> Bit(Hcol[j + 1], i) = 1
  BY DEF hcol
<1>2. \A j \in WordBits : Hcol[j + 1] \in 3 .. 38 \ {4, 8, 16, 32}
  BY HcolValue DEF WordBits
<1>3. \A j \in WordBits : hcol[j] \subseteq CheckBits
  BY DEF hcol
<1>4. ASSUME NEW j \in WordBits
      PROVE  /\ \A i \in CheckBits : Bit(Hcol[j + 1], i) = IF i \in hcol[j] THEN 1 ELSE 0
             /\ Hcol[j + 1] = (IF 0 \in hcol[j] THEN 1 ELSE 0) + (IF 1 \in hcol[j] THEN 2 ELSE 0)
                  + (IF 2 \in hcol[j] THEN 4 ELSE 0) + (IF 3 \in hcol[j] THEN 8 ELSE 0)
                  + (IF 4 \in hcol[j] THEN 16 ELSE 0) + (IF 5 \in hcol[j] THEN 32 ELSE 0)
  <2> DEFINE x == Hcol[j + 1]
  <2>1. x \in 0 .. 63
    BY <1>2
  <2>2. \A i \in CheckBits : i \in hcol[j] <=> Bit(x, i) = 1
    BY <1>1
  <2> HIDE DEF x
  <2>3. /\ \A i \in CheckBits : Bit(x, i) \in 0 .. 1
        /\ x = Bit(x, 0) + 2 * Bit(x, 1) + 4 * Bit(x, 2) + 8 * Bit(x, 3) + 16 * Bit(x, 4)
                 + 32 * Bit(x, 5)
    BY <2>1, SixBits
  <2>4. \A i \in CheckBits : Bit(x, i) = IF i \in hcol[j] THEN 1 ELSE 0
    BY <2>2, <2>3
  <2>5. 0 \in CheckBits /\ 1 \in CheckBits /\ 2 \in CheckBits /\ 3 \in CheckBits
        /\ 4 \in CheckBits /\ 5 \in CheckBits
    BY DEF CheckBits
  <2> QED
    BY <2>3, <2>4, <2>5 DEF x
<1>5. ASSUME NEW j \in WordBits PROVE hcol[j] # {}
  BY <1>2, <1>4
<1>6. ASSUME NEW j \in WordBits, NEW i \in CheckBits PROVE hcol[j] # {i}
  BY <1>2, <1>4 DEF CheckBits
<1>7. ASSUME NEW j \in WordBits, NEW k \in WordBits, hcol[j] = hcol[k] PROVE j = k
  <2>1. Hcol[j + 1] = Hcol[k + 1]
    BY <1>4, <1>7
  <2> QED
    BY <2>1, HcolValue DEF WordBits
<1> QED
  BY <1>3, <1>5, <1>6, <1>7

(* One term changes the sum of the three parities.                         *)
LEMMA Toggles ==
  ASSUME NEW a \in BOOLEAN, NEW b \in BOOLEAN, NEW c \in BOOLEAN
  PROVE  /\ ((~a # b) # c) = ~((a # b) # c) /\ ((a # ~b) # c) = ~((a # b) # c)
         /\ ((a # b) # ~c) = ~((a # b) # c) /\ (b # FALSE) = b /\ (b # TRUE) = ~b
  OBVIOUS

LEMMA Parities ==
  ASSUME par \in BOOLEAN
  PROVE  /\ \A s : Odd(s) \in BOOLEAN
         /\ perr = ((Odd(check) # par) # Odd(data)) /\ perr \in BOOLEAN
  BY DEF Odd, perr

(* What a wrong bit does to the data and to the syndrome.                  *)
Hit(d, b) == IF b[1] = "data" THEN Xor(d, {b[2]}) ELSE d
code(b)   == IF b[1] = "data" THEN hcol[b[2]] ELSE IF b[1] = "check" THEN {b[2]} ELSE {}

LEMMA StoredBit ==
  ASSUME NEW b \in StoredBits
  PROVE  \/ \E j \in WordBits : b = <<"data", j>>
         \/ \E i \in CheckBits : b = <<"check", i>>
         \/ b = <<"parity", 0>>
BY DEF StoredBits

LEMMA CodesApart ==
  ASSUME NEW a \in StoredBits, NEW b \in StoredBits, a # b
  PROVE  code(a) # code(b) /\ code(a) \subseteq CheckBits
<1>1. CASE \E j \in WordBits : a = <<"data", j>>
  BY <1>1, StoredBit, CodesDistinct DEF code
<1>2. CASE \E i \in CheckBits : a = <<"check", i>>
  BY <1>2, StoredBit, CodesDistinct DEF code
<1>3. CASE a = <<"parity", 0>>
  BY <1>3, StoredBit, CodesDistinct DEF code
<1> QED
  BY <1>1, <1>2, <1>3, StoredBit

(* The parity counts the wrong bits, the syndrome adds their codes.        *)
EccInv ==
  /\ data \in SUBSET WordBits /\ written \in SUBSET WordBits /\ check \in SUBSET CheckBits
  /\ par \in BOOLEAN
  /\ flips \in SUBSET StoredBits /\ IsFiniteSet(flips) /\ Cardinality(flips) <= 2
  /\ perr = Odd(flips)
  /\ flips = {} => data = written /\ syndrome = {}
  /\ \A a \in StoredBits : flips = {a} => data = Hit(written, a) /\ syndrome = code(a)
  /\ \A a, b \in StoredBits :
       a # b /\ flips = {a, b} => syndrome = Xor(code(a), code(b))

(* A word just encoded.                                                    *)
LEMMA Encoded ==
  ASSUME NEW wd \in SUBSET WordBits, data' = wd, check' = Checks(wd), par' = EncParity(wd),
         written' = wd, flips' = {}
  PROVE  EccInv'
<1>1. Checks(wd) \in SUBSET CheckBits
  BY DEF Checks
<1>2. IsFiniteSet({}) /\ Cardinality({}) = 0
  BY FS_EmptySet
<1>3. syndrome' = {}
  BY DEF syndrome, Xor
<1>4. perr' = FALSE /\ Odd({}) = FALSE /\ par' \in BOOLEAN
  BY <1>2 DEF perr, EncParity, Odd
<1>5. flips' \in SUBSET StoredBits /\ \A a, b : flips' # {a} /\ flips' # {a, b}
  OBVIOUS
<1>6. perr' = Odd(flips') /\ IsFiniteSet(flips') /\ Cardinality(flips') <= 2
  <2>1. Odd(flips') = FALSE
    BY <1>4
  <2>2. Cardinality(flips') = 0 /\ IsFiniteSet(flips')
    BY <1>2
  <2>3. perr' = Odd(flips')
    BY <1>4, <2>1, Zenon
  <2> QED
    BY <2>2, <2>3
<1> QED
  BY <1>1, <1>3, <1>4, <1>5, <1>6 DEF EccInv

LEMMA XorRules ==
  ASSUME NEW r, NEW s, NEW t
  PROVE  /\ Xor(r, Xor(s, t)) = Xor(Xor(r, s), t)
         /\ Xor(Xor(r, t), s) = Xor(Xor(r, s), t)
         /\ Xor(s, t) = Xor(t, s) /\ Xor({}, s) = s /\ Xor(s, {}) = s
         /\ Xor(Xor(s, t), t) = s
         /\ (Xor(s, t) = {} <=> s = t)
BY DEF Xor

LEMMA EccFlip ==
  ASSUME MaxFlips <= 2, EccInv, NEW b \in StoredBits, Flip(b)
  PROVE  EccInv'
<1>1. /\ data \in SUBSET WordBits /\ written \in SUBSET WordBits /\ check \in SUBSET CheckBits
      /\ flips \in SUBSET StoredBits /\ IsFiniteSet(flips) /\ Cardinality(flips) \in Nat
      /\ b \notin flips /\ Cardinality(flips) < MaxFlips
      /\ flips' = flips \cup {b} /\ written' = written /\ data' = Hit(data, b)
      /\ par \in BOOLEAN
  BY FS_CardinalityType DEF EccInv, Flip, Hit
<1>2. /\ data' \in SUBSET WordBits /\ check' \in SUBSET CheckBits /\ par' \in BOOLEAN
      /\ syndrome' = Xor(syndrome, code(b)) /\ perr' = ~perr
  <2>1. CASE \E j \in WordBits : b = <<"data", j>>
    <3>1. PICK j \in WordBits : b = <<"data", j>>
      BY <2>1
    <3>2. data' = Xor(data, {j}) /\ check' = check /\ par' = par /\ code(b) = hcol[j]
      BY <1>1, <3>1, Toggles DEF Flip, code
    <3>3. Checks(data') = Xor(Checks(data), hcol[j]) /\ Odd(data') = ~Odd(data)
      BY <1>1, <3>2, ChecksFlip, OddFlip, WordsFinite
    <3>4. syndrome' = Xor(syndrome, code(b))
      BY <3>2, <3>3, XorRules DEF syndrome
    <3>5. perr' = ~perr
      <4>1. perr' = ((Odd(check) # par) # ~Odd(data))
        BY <3>2, <3>3 DEF perr
      <4> QED
        BY <1>1, <4>1, Toggles, Parities
    <3>6. data' \in SUBSET WordBits
      BY <1>1, <3>2 DEF Xor
    <3> QED
      BY <1>1, <3>2, <3>4, <3>5, <3>6
  <2>2. CASE \E i \in CheckBits : b = <<"check", i>>
    <3>1. PICK i \in CheckBits : b = <<"check", i>>
      BY <2>2
    <3>2. data' = data /\ check' = Xor(check, {i}) /\ par' = par /\ code(b) = {i}
      BY <1>1, <3>1, Toggles DEF Flip, code
    <3>3. Odd(check') = ~Odd(check)
      BY <1>1, <3>2, OddFlip, ChecksFinite
    <3>4. syndrome' = Xor(syndrome, code(b))
      BY <3>2, XorRules DEF syndrome
    <3>5. perr' = ~perr
      <4>1. perr' = ((~Odd(check) # par) # Odd(data))
        <5>1. perr' = ((Odd(check') # par') # Odd(data'))
          BY Zenon DEF perr
        <5>2. Odd(data') = Odd(data)
          BY <3>2
        <5> QED
          BY <1>1, <3>2, <3>3, <5>1, <5>2, Parities
      <4> QED
        BY <1>1, <4>1, Toggles, Parities
    <3>6. check' \in SUBSET CheckBits
      BY <1>1, <3>2 DEF Xor
    <3> QED
      BY <1>1, <3>2, <3>4, <3>5, <3>6
  <2>3. CASE b = <<"parity", 0>>
    <3>1. data' = data /\ check' = check /\ par' = ~par /\ code(b) = {}
      BY <1>1, <2>3, Toggles DEF Flip, code
    <3>2. syndrome' = Xor(syndrome, code(b))
      BY <3>1, XorRules DEF syndrome
    <3>3. perr' = ~perr
      <4>1. perr' = ((Odd(check) # ~par) # Odd(data))
        BY <3>1 DEF perr
      <4> QED
        BY <1>1, <4>1, Toggles, Parities
    <3> QED
      BY <1>1, <3>1, <3>2, <3>3
  <2> QED
    BY <2>1, <2>2, <2>3, StoredBit
<1>3. Odd(flips') = ~Odd(flips)
  <2>1. flips' = Xor(flips, {b})
    BY <1>1 DEF Xor
  <2> QED
    BY <1>1, <2>1, OddFlip
<1>4. IsFiniteSet(flips') /\ Cardinality(flips') <= 2
  <2>1. IsFiniteSet(flips') /\ Cardinality(flips') = Cardinality(flips) + 1
    BY <1>1, FS_AddElement
  <2> QED
    BY <1>1, <2>1, RegfileAssumption
<1>5. perr' = Odd(flips')
  BY <1>2, <1>3 DEF EccInv
<1>6. ASSUME NEW a \in StoredBits, flips' = {a}
      PROVE  data' = Hit(written', a) /\ syndrome' = code(a)
  <2>1. a = b /\ flips = {}
    BY <1>1, <1>6
  <2> QED
    BY <1>1, <1>2, <2>1, XorRules DEF EccInv
<1>7. ASSUME NEW a \in StoredBits, NEW c \in StoredBits, a # c, flips' = {a, c}
      PROVE  syndrome' = Xor(code(a), code(c))
  <2>1. (b = a /\ flips = {c}) \/ (b = c /\ flips = {a})
    BY <1>1, <1>7
  <2> QED
    BY <1>2, <2>1, XorRules DEF EccInv
<1> QED
  BY <1>1, <1>2, <1>4, <1>5, <1>6, <1>7 DEF EccInv

(* One wrong bit is put right, two are told.                               *)
LEMMA EccReads == ASSUME EccInv PROVE SecDed
<1> DEFINE r == ReadPort(1, FALSE, 0, {})
<1>0. perr = Odd(flips) /\ perr \in BOOLEAN /\ (Odd(flips) <=> Cardinality(flips) % 2 = 1)
  BY Parities DEF EccInv, Odd
<1>1. r.value = Corrected /\ r.cerr = perr /\ r.uerr = (~perr /\ syndrome # {})
  BY <1>0 DEF ReadPort
<1> HIDE DEF r
<1>2. IsFiniteSet(flips) /\ Cardinality(flips) \in Nat /\ Cardinality(flips) <= 2
  BY FS_CardinalityType DEF EccInv
<1>9. SUFFICES /\ Cardinality(flips) <= 1 => Corrected = written
               /\ perr <=> Cardinality(flips) = 1
               /\ ~perr /\ syndrome # {} <=> Cardinality(flips) = 2
  BY <1>0, <1>1 DEF SecDed, r
<1>3. CASE Cardinality(flips) = 0
  <2>1. flips = {}
    BY <1>2, <1>3, FS_EmptySet
  <2>2. ~perr /\ syndrome = {} /\ data = written
    BY <1>0, <1>3, <2>1 DEF EccInv
  <2> QED
    BY <1>1, <1>3, <2>2, <1>9 DEF Corrected
<1>4. CASE Cardinality(flips) = 1
  <2>1. PICK a : flips = {a}
    BY <1>2, <1>4, FS_Singleton
  <2>2. a \in StoredBits /\ data = Hit(written, a) /\ syndrome = code(a)
    BY <2>1 DEF EccInv
  <2>3. perr
    BY <1>0, <1>4
  <2>4. Corrected = written
    <3>1. CASE \E j \in WordBits : a = <<"data", j>>
      <4>1. PICK j \in WordBits : a = <<"data", j>>
        BY <3>1
      <4>2. {k \in WordBits : hcol[k] = syndrome} = {j}
        BY <2>2, <4>1, CodesDistinct DEF code
      <4>3. data = Xor(written, {j})
        BY <2>2, <4>1 DEF Hit
      <4>4. Xor(Xor(written, {j}), {j}) = written
        BY XorRules
      <4> QED
        BY <2>3, <4>2, <4>3, <4>4 DEF Corrected
    <3>2. CASE (\E i \in CheckBits : a = <<"check", i>>) \/ a = <<"parity", 0>>
      <4>1. {k \in WordBits : hcol[k] = syndrome} = {}
        BY <2>2, <3>2, CodesDistinct DEF code
      <4>2. data = written
        BY <2>2, <3>2 DEF Hit
      <4> QED
        BY <2>3, <4>1, <4>2, XorRules DEF Corrected
    <3> QED
      BY <2>2, <3>1, <3>2, StoredBit
  <2> QED
    BY <1>4, <1>9, <2>3, <2>4
<1>5. CASE Cardinality(flips) = 2
  <2>1. PICK a \in flips : TRUE
    BY <1>2, <1>5, FS_EmptySet
  <2>2. IsFiniteSet(flips \ {a}) /\ Cardinality(flips \ {a}) = 1
    BY <1>2, <1>5, <2>1, FS_RemoveElement
  <2>3. PICK c : flips \ {a} = {c}
    BY <2>2, FS_Singleton
  <2>4. a \in StoredBits /\ c \in StoredBits /\ a # c /\ flips = {a, c}
    BY <2>1, <2>3 DEF EccInv
  <2>5. syndrome = Xor(code(a), code(c)) /\ syndrome # {}
    BY <2>4, CodesApart, XorRules DEF EccInv
  <2>6. ~perr
    BY <1>0, <1>5
  <2> QED
    BY <1>5, <1>9, <2>5, <2>6
<1> QED
  BY <1>2, <1>3, <1>4, <1>5

RegSpec == RegInit /\ [][RegNext]_rvars

(* "single-bit storage errors are CORRECTED on read, double-bit errors are *)
(* DETECTED", for every word that can be written and every one or two bits *)
(* of the 39 that go wrong before it is written again.                     *)
THEOREM EccCorrects == ASSUME MaxFlips <= 2 PROVE RegSpec => []SecDed
<1>1. RegInit => EccInv
  <2>1. SUFFICES ASSUME RegInit PROVE EccInv
    OBVIOUS
  <2>2. IsFiniteSet({}) /\ Cardinality({}) = 0
    BY FS_EmptySet
  <2>3. syndrome = {} /\ check \in SUBSET CheckBits
    BY <2>1 DEF RegInit, syndrome, Xor, Checks
  <2>4. perr = FALSE /\ Odd({}) = FALSE /\ par \in BOOLEAN
    BY <2>1, <2>2 DEF RegInit, perr, EncParity, Odd
  <2>5. flips \in SUBSET StoredBits /\ \A a, b : flips # {a} /\ flips # {a, b}
    BY <2>1 DEF RegInit
  <2>6. perr = Odd(flips) /\ IsFiniteSet(flips) /\ Cardinality(flips) <= 2
    <3>1. flips = {} /\ Odd(flips) = FALSE
      BY <2>1, <2>4 DEF RegInit
    <3>2. Cardinality(flips) = 0 /\ IsFiniteSet(flips)
      BY <2>2, <3>1
    <3>3. perr = Odd(flips)
      BY <2>4, <3>1, Zenon
    <3> QED
      BY <3>2, <3>3
  <2> QED
    BY <2>1, <2>3, <2>4, <2>5, <2>6 DEF EccInv, RegInit
<1>2. EccInv /\ [RegNext]_rvars => EccInv'
  <2>1. ASSUME EccInv, NEW wa \in 0 .. 1, NEW wd \in Words, RegWrite(wa, wd)
        PROVE  EccInv'
    <3>1. CASE wa = 0
      BY <2>1, <3>1 DEF RegWrite, rvars, EccInv, perr, syndrome
    <3>2. CASE wa # 0
      BY <2>1, <3>2, Encoded, RegfileAssumption DEF RegWrite
    <3> QED
      BY <3>1, <3>2
  <2>2. ASSUME EccInv, UNCHANGED rvars PROVE EccInv'
    BY <2>2 DEF rvars, EccInv, perr, syndrome
  <2> QED
    BY <2>1, <2>2, EccFlip DEF RegNext
<1> QED
  BY <1>1, <1>2, EccReads, PTL DEF RegSpec

-----------------------------------------------------------------------------
(* The PMP: bits and powers of two.                                        *)

LEMMA Pow2Sum ==
  ASSUME NEW a \in Nat, NEW b \in Nat
  PROVE  Pow2[a + b] = Pow2[a] * Pow2[b]
<1> DEFINE S == {m \in Nat : Pow2[a + m] = Pow2[a] * Pow2[m]}
<1>1. 0 \in S
  BY Pow2Next, Pow2Type
<1>2. ASSUME NEW m \in S PROVE m + 1 \in S
  <2>1. m \in Nat /\ a + m \in Nat /\ a + (m + 1) = (a + m) + 1 /\ Pow2[a + m] = Pow2[a] * Pow2[m]
    OBVIOUS
  <2>2. /\ Pow2[(a + m) + 1] = 2 * Pow2[a + m] /\ Pow2[m + 1] = 2 * Pow2[m]
        /\ Pow2[a] \in Nat /\ Pow2[m] \in Nat
    BY <2>1, Pow2Next, Pow2Type
  <2>3. 2 * (Pow2[a] * Pow2[m]) = Pow2[a] * (2 * Pow2[m])
    BY <2>2
  <2> QED
    BY <2>1, <2>2, <2>3
<1>3. S = Nat
  <2> HIDE DEF S
  <2>1. S \in SUBSET Nat
    BY DEF S
  <2> QED
    BY <1>1, <1>2, <2>1, Induct
<1> QED
  BY <1>3

(* Numbers that agree above some bit agree above every higher one.         *)
LEMMA DivDiv ==
  ASSUME NEW x \in Nat, NEW p \in Nat \ {0}, NEW c \in Nat \ {0}
  PROVE  x \div (p * c) = (x \div p) \div c
<1> DEFINE u == x \div p
           r == x % p
           v == u \div c
           s == u % c
<1>1. u \in Nat /\ r \in 0 .. p - 1 /\ x = p * u + r
  <2>1. x \in Int
    OBVIOUS
  <2> QED
    BY <2>1, DivMod
<1> HIDE DEF u, r
<1>2. v \in Nat /\ s \in 0 .. c - 1 /\ u = c * v + s
  <2>1. u \in Int
    BY <1>1
  <2> QED
    BY <1>1, <2>1, DivMod
<1> HIDE DEF v, s
<1>3. p * u = (p * c) * v + p * s
  BY <1>1, <1>2
<1>4. p * s <= p * (c - 1) /\ p * (c - 1) = p * c - p
  BY <1>1, <1>2
<1>5. p * c \in Nat \ {0} /\ p * s + r \in 0 .. p * c - 1
  <2>1. p * c \in Nat /\ p * s \in Nat /\ p * c >= p
    BY <1>2
  <2> QED
    BY <1>1, <1>4, <2>1
<1>6. x = (p * c) * v + (p * s + r)
  <2>1. (p * c) * v \in Nat /\ p * s \in Nat
    BY <1>2
  <2> QED
    BY <1>1, <1>3, <2>1
<1>7. x \div (p * c) = v
  BY <1>2, <1>5, <1>6, DivUnique
<1> QED
  BY <1>7 DEF v, u

LEMMA SameAbove ==
  ASSUME NEW x \in Nat, NEW y \in Nat, NEW m \in Nat, NEW k \in Nat, m <= k,
         x \div Pow2[m] = y \div Pow2[m]
  PROVE  x \div Pow2[k] = y \div Pow2[k] /\ Bit(x, k) = Bit(y, k)
<1>1. k - m \in Nat /\ m + (k - m) = k
  OBVIOUS
<1>2. Pow2[k] = Pow2[m] * Pow2[k - m] /\ Pow2[m] \in Nat \ {0} /\ Pow2[k - m] \in Nat \ {0}
  <2>1. Pow2[m + (k - m)] = Pow2[m] * Pow2[k - m]
    BY <1>1, Pow2Sum
  <2> QED
    BY <1>1, <2>1, Pow2Type
<1>3. /\ x \div (Pow2[m] * Pow2[k - m]) = (x \div Pow2[m]) \div Pow2[k - m]
      /\ y \div (Pow2[m] * Pow2[k - m]) = (y \div Pow2[m]) \div Pow2[k - m]
  BY <1>2, DivDiv
<1>4. x \div Pow2[k] = y \div Pow2[k]
  BY <1>2, <1>3
<1> QED
  BY <1>4 DEF Bit

(* Adding a multiple of a higher power of two leaves a bit as it is.       *)
LEMMA BitShift ==
  ASSUME NEW u \in Nat, NEW w \in Nat, NEW k \in Nat
  PROVE  Bit(u + Pow2[k + 1] * w, k) = Bit(u, k)
<1> DEFINE p == Pow2[k]
           a == u \div p
           r == u % p
<1>1. p \in Nat \ {0} /\ Pow2[k + 1] = 2 * p
  BY Pow2Type, Pow2Next
<1> HIDE DEF p
<1>2. a \in Nat /\ r \in 0 .. p - 1 /\ u = p * a + r
  <2>1. u \in Int
    OBVIOUS
  <2> QED
    BY <1>1, <2>1, DivMod
<1> HIDE DEF a, r
<1>3. (2 * p) * w = p * (2 * w) /\ p * (a + 2 * w) = p * a + p * (2 * w)
  BY <1>1, <1>2
<1>4. u + Pow2[k + 1] * w = p * (a + 2 * w) + r /\ u + Pow2[k + 1] * w \in Nat
  BY <1>1, <1>2, <1>3
<1>5. (u + Pow2[k + 1] * w) \div p = a + 2 * w
  <2>1. a + 2 * w \in Int /\ u + Pow2[k + 1] * w \in Int
    BY <1>2, <1>4
  <2> QED
    BY <1>1, <1>2, <1>4, <2>1, DivUnique
<1>6. (a + 2 * w) % 2 = a % 2
  BY <1>2
<1> QED
  BY <1>5, <1>6 DEF Bit, a, p

LEMMA ModBits ==
  ASSUME NEW y \in Nat, NEW n \in Nat, NEW k \in Nat, k < n
  PROVE  Bit(y % Pow2[n], k) = Bit(y, k)
<1> DEFINE p == Pow2[n]
           a == y \div p
           r == y % p
           c == Pow2[n - (k + 1)]
<1>1. n - (k + 1) \in Nat /\ (k + 1) + (n - (k + 1)) = n /\ k + 1 \in Nat
  OBVIOUS
<1>2. p \in Nat \ {0} /\ c \in Nat \ {0} /\ p = Pow2[k + 1] * c /\ Pow2[k + 1] \in Nat \ {0}
  BY <1>1, Pow2Sum, Pow2Type
<1> HIDE DEF p, c
<1>3. a \in Nat /\ r \in Nat /\ y = p * a + r
  <2>1. y \in Int /\ p \in Nat \ {0}
    BY <1>2
  <2>2. a \in Int /\ r \in 0 .. p - 1 /\ y = p * a + r /\ (y \in Nat => a \in Nat)
    BY <2>1, DivMod
  <2> QED
    BY <2>1, <2>2
<1> HIDE DEF a, r
<1>4. y = r + Pow2[k + 1] * (c * a) /\ c * a \in Nat
  <2>1. PICK m \in Nat : m = Pow2[k + 1]
    BY <1>2
  <2>2. (m * c) * a = m * (c * a)
    BY <1>2, <1>3
  <2>3. c * a \in Nat
    BY <1>2, <1>3
  <2>4. p * a = m * (c * a)
    BY <1>2, <2>1, <2>2, Zenon
  <2>5. m * (c * a) \in Nat
    BY <2>1, <2>3
  <2>6. y = r + m * (c * a)
    BY <1>3, <2>4, <2>5
  <2> QED
    BY <2>1, <2>3, <2>6, Zenon
<1>5. Bit(y, k) = Bit(r, k)
  <2>1. Bit(r + Pow2[k + 1] * (c * a), k) = Bit(r, k)
    BY <1>3, <1>4, BitShift
  <2> QED
    BY <1>4, <2>1, Zenon
<1> QED
  BY <1>5 DEF r, p

(* Numbers below 2^n that agree from bit m on agree above it.              *)
LEMMA SameHighBits ==
  ASSUME NEW n \in Nat, NEW x \in 0 .. Pow2[n] - 1, NEW y \in 0 .. Pow2[n] - 1, NEW m \in Nat,
         \A k \in m .. n - 1 : Bit(x, k) = Bit(y, k)
  PROVE  x \div Pow2[m] = y \div Pow2[m]
<1>1. Pow2[n] \in Nat \ {0} /\ x \in Nat /\ y \in Nat
  BY Pow2Type
<1>2. x \div Pow2[n] = y \div Pow2[n]
  <2>1. \A z \in 0 .. Pow2[n] - 1 : z = Pow2[n] * 0 + z
    BY <1>1
  <2> QED
    BY <1>1, <2>1, DivUnique
<1>3. CASE m >= n
  BY <1>1, <1>2, <1>3, SameAbove
<1>4. CASE m < n
  <2> DEFINE S == {j \in Nat : j <= n - m => x \div Pow2[n - j] = y \div Pow2[n - j]}
  <2>1. 0 \in S
    BY <1>2
  <2>2. ASSUME NEW j \in S PROVE j + 1 \in S
    <3>1. SUFFICES ASSUME j + 1 <= n - m
                   PROVE  x \div Pow2[n - (j + 1)] = y \div Pow2[n - (j + 1)]
      OBVIOUS
    <3>2. /\ n - (j + 1) \in m .. n - 1 /\ n - (j + 1) \in Nat
          /\ (n - (j + 1)) + 1 = n - j /\ j <= n - m
      BY <1>4, <3>1
    <3>3. x \div Pow2[n - j] = y \div Pow2[n - j] /\ Bit(x, n - (j + 1)) = Bit(y, n - (j + 1))
      BY <3>2
    <3> DEFINE i == n - (j + 1)
    <3>4. i \in Nat /\ i + 1 = n - j
      BY <3>2
    <3> HIDE DEF i
    <3>5. /\ x \div Pow2[i] = 2 * (x \div Pow2[i + 1]) + Bit(x, i)
          /\ y \div Pow2[i] = 2 * (y \div Pow2[i + 1]) + Bit(y, i)
      BY <1>1, <3>4, NextBit
    <3> QED
      BY <3>3, <3>4, <3>5 DEF i
  <2>3. S = Nat
    <3> HIDE DEF S
    <3>1. S \in SUBSET Nat
      BY DEF S
    <3> QED
      BY <2>1, <2>2, <3>1, Induct
  <2>4. n - m \in Nat /\ n - m <= n - m /\ n - (n - m) = m
    BY <1>4
  <2>5. n - m \in S
    <3> HIDE DEF S
    <3> QED
      BY <2>3, <2>4
  <2> QED
    BY <2>4, <2>5
<1> QED
  BY <1>3, <1>4

(* A number whose low n bits are ones is one below a multiple of 2^n.      *)
LEMMA LowOnes ==
  ASSUME NEW x \in Nat, NEW n \in Nat, \A k \in 0 .. n - 1 : Bit(x, k) = 1
  PROVE  x + 1 = Pow2[n] * (x \div Pow2[n] + 1)
<1> DEFINE S == {j \in Nat : j <= n => x + 1 = Pow2[j] * (x \div Pow2[j] + 1)}
<1>1. 0 \in S
  <2>1. x \div 1 = x /\ 1 * (x + 1) = x + 1
    OBVIOUS
  <2> QED
    BY <2>1, Pow2Next
<1>2. ASSUME NEW j \in S PROVE j + 1 \in S
  <2>1. SUFFICES ASSUME j + 1 <= n PROVE x + 1 = Pow2[j + 1] * (x \div Pow2[j + 1] + 1)
    OBVIOUS
  <2>2. /\ j \in 0 .. n - 1 /\ j \in Nat /\ Bit(x, j) = 1
        /\ x + 1 = Pow2[j] * (x \div Pow2[j] + 1)
    BY <2>1
  <2> HIDE DEF S
  <2>3. x \div Pow2[j + 1] \in Nat /\ x \div Pow2[j] = 2 * (x \div Pow2[j + 1]) + Bit(x, j)
    BY <2>2, NextBit, Zenon
  <2>4. Pow2[j + 1] = 2 * Pow2[j] /\ Pow2[j] \in Nat
    BY <2>2, Pow2Next, Pow2Type
  <2> DEFINE h == x \div Pow2[j + 1]
             p == Pow2[j]
             d == x \div Pow2[j]
  <2>5. x + 1 = p * (d + 1) /\ d = 2 * h + 1 /\ h \in Nat /\ p \in Nat
    <3>1. x + 1 = p * (d + 1)
      BY <2>2, Zenon
    <3>2. d = 2 * h + 1
      BY <2>2, <2>3, Zenon
    <3> HIDE DEF h, p, d
    <3> QED
      BY <2>3, <2>4, <3>1, <3>2 DEF h, p
  <2>6. Pow2[j + 1] * (h + 1) = (2 * p) * (h + 1)
    BY <2>4, Zenon
  <2> HIDE DEF h, p, d
  <2>7. p * ((2 * h + 1) + 1) = (2 * p) * (h + 1)
    BY <2>5
  <2>8. x + 1 = Pow2[j + 1] * (h + 1)
    BY <2>5, <2>6, <2>7, Zenon
  <2> QED
    BY <2>8, Zenon DEF h
<1>3. S = Nat
  <2> HIDE DEF S
  <2>1. S \in SUBSET Nat
    BY DEF S
  <2> QED
    BY <1>1, <1>2, <2>1, Induct
<1> QED
  BY <1>3

-----------------------------------------------------------------------------
(* The mask pa ^ (pa + 1) of the checker is the region of the architecture.*)

LEMMA AddrSize == Pow2[AW] \in Nat \ {0} /\ AW \in Nat /\ \A x \in PAddr : x \in Nat /\ x < Pow2[AW]
<1>1. Pow2[AW] \in Nat \ {0} /\ AW \in Nat
  BY PmpAssumption, Pow2Type
<1> QED
  BY <1>1 DEF PAddr

LEMMA Trailing ==
  ASSUME NEW pa \in PAddr
  PROVE  LET t == TrailingOnes(pa)
         IN /\ t \in 0 .. AW /\ \A k \in 0 .. t - 1 : Bit(pa, k) = 1
            /\ t = AW \/ Bit(pa, t) = 0
<1> DEFINE S == {n \in Nat : n = AW \/ Bit(pa, n) = 0}
<1>1. pa \in Nat /\ AW \in Nat /\ \A k \in Nat : Bit(pa, k) \in 0 .. 1
  <2>1. pa \in Nat /\ AW \in Nat
    BY AddrSize
  <2> QED
    BY <2>1, NextBit
<1>2. PICK n \in S : \A k \in S : n <= k
  <2>1. S \in SUBSET Nat /\ AW \in S
    BY <1>1
  <2> HIDE DEF S
  <2> QED
    BY <2>1, Least
<1>3. n \in 0 .. AW /\ (n = AW \/ Bit(pa, n) = 0)
  BY <1>1, <1>2
<1>4. \A k \in 0 .. n - 1 : Bit(pa, k) = 1
  BY <1>1, <1>2, <1>3
<1>5. \E m \in 0 .. AW : (\A k \in 0 .. m - 1 : Bit(pa, k) = 1) /\ (m = AW \/ Bit(pa, m) = 0)
  BY <1>3, <1>4
<1> QED
  BY <1>5 DEF TrailingOnes

LEMMA MaskIs ==
  ASSUME NEW pa \in PAddr
  PROVE  Masked(pa) = {k \in 0 .. AW - 1 : k <= TrailingOnes(pa)}
<1> DEFINE t == TrailingOnes(pa)
           v == pa \div Pow2[t]
<1>1. /\ t \in 0 .. AW /\ t \in Nat /\ (\A k \in 0 .. t - 1 : Bit(pa, k) = 1)
      /\ t = AW \/ Bit(pa, t) = 0
  BY Trailing, AddrSize
<1>2. pa \in Nat /\ AW \in Nat /\ pa + 1 \in Nat
  BY AddrSize
<1> HIDE DEF t
<1>3. pa + 1 = Pow2[t] * (v + 1) /\ v \in Nat /\ Pow2[t] \in Nat \ {0}
  BY <1>1, <1>2, LowOnes, NextBit, Pow2Type
<1>4. ASSUME NEW k \in 0 .. AW - 1
      PROVE  Bit((pa + 1) % Pow2[AW], k) = Bit(pa + 1, k)
  BY <1>2, ModBits
(* The ones below the lowest zero become zeros.                            *)
<1>5. ASSUME NEW k \in 0 .. AW - 1, k < t
      PROVE  Bit(pa, k) = 1 /\ Bit(pa + 1, k) = 0
  <2> DEFINE c == Pow2[t - (k + 1)]
  <2>1. k \in Nat /\ k + 1 \in Nat /\ t - (k + 1) \in Nat /\ (k + 1) + (t - (k + 1)) = t
    BY <1>1, <1>5
  <2>2. Pow2[(k + 1) + (t - (k + 1))] = Pow2[k + 1] * c
    BY <2>1, Pow2Sum
  <2>3. c \in Nat /\ Pow2[k + 1] \in Nat /\ Pow2[t] = Pow2[k + 1] * c
    BY <2>1, <2>2, Pow2Type
  <2> HIDE DEF c, v
  <2>4. c * (v + 1) \in Nat /\ (Pow2[k + 1] * c) * (v + 1) = Pow2[k + 1] * (c * (v + 1))
    <3> DEFINE e == Pow2[k + 1]
               w == v + 1
    <3>1. c \in Nat /\ w \in Nat /\ e \in Nat
      BY <1>3, <2>3
    <3> HIDE DEF e, w
    <3>2. c * w \in Nat /\ (e * c) * w = e * (c * w)
      BY <3>1
    <3> QED
      BY <3>2 DEF e, w
  <2>5. Bit(0 + Pow2[k + 1] * (c * (v + 1)), k) = Bit(0, k)
    BY <2>1, <2>4, BitShift
  <2>6. Bit(0, k) = 0
    <3>1. Pow2[k] \in Nat \ {0}
      BY <2>1, Pow2Type
    <3>2. 0 \div Pow2[k] = 0
      BY <3>1
    <3> QED
      BY <3>2 DEF Bit
  <2>7. pa + 1 = 0 + Pow2[k + 1] * (c * (v + 1))
    BY <1>2, <1>3, <2>3, <2>4
  <2>8. Bit(pa, k) = 1
    BY <1>1, <1>5
  <2> QED
    BY <2>5, <2>6, <2>7, <2>8
(* The lowest zero becomes a one.                                          *)
<1>6. ASSUME t < AW PROVE Bit(pa, t) = 0 /\ Bit(pa + 1, t) = 1
  <2>1. Bit(pa, t) = 0
    BY <1>1, <1>6
  <2>2. v % 2 = 0
    BY <2>1 DEF Bit
  <2>3. (pa + 1) \div Pow2[t] = v + 1
    <3>1. pa + 1 = Pow2[t] * (v + 1) + 0 /\ v + 1 \in Int /\ 0 \in 0 .. Pow2[t] - 1
      BY <1>2, <1>3
    <3> HIDE DEF v
    <3> QED
      BY <1>2, <1>3, <3>1, DivUnique
  <2> HIDE DEF v
  <2>4. (v + 1) % 2 = 1
    BY <1>3, <2>2
  <2> QED
    BY <2>1, <2>3, <2>4 DEF Bit
(* Nothing above it changes.                                               *)
<1>7. ASSUME t < AW, NEW k \in 0 .. AW - 1, k > t
      PROVE  Bit(pa, k) = Bit(pa + 1, k)
  <2> DEFINE h == pa \div Pow2[t + 1]
             p == Pow2[t]
  <2>1. v = 2 * h /\ h \in Nat /\ Pow2[t + 1] = 2 * p /\ p \in Nat \ {0}
    BY <1>1, <1>2, <1>6, <1>7, NextBit, Pow2Next, Pow2Type
  <2>2. pa + 1 = p * (v + 1)
    BY <1>3
  <2> HIDE DEF h, p, v
  <2>3. p * (2 * h + 1) = (2 * p) * h + p
    BY <2>1
  <2>4. pa + 1 = (2 * p) * h + p /\ p \in 0 .. 2 * p - 1 /\ 2 * p \in Nat \ {0}
    BY <2>1, <2>2, <2>3
  <2>5. (pa + 1) \div (2 * p) = h
    BY <1>2, <2>1, <2>4, DivUnique
  <2>6. (pa + 1) \div Pow2[t + 1] = pa \div Pow2[t + 1]
    BY <2>1, <2>5 DEF h
  <2>7. t + 1 \in Nat /\ k \in Nat /\ t + 1 <= k
    BY <1>1, <1>7
  <2> QED
    BY <1>2, <2>6, <2>7, SameAbove
<1>8. ASSUME NEW k \in 0 .. AW - 1
      PROVE  (Bit(pa, k) # Bit((pa + 1) % Pow2[AW], k)) <=> k <= t
  <2>1. CASE k < t
    BY <1>4, <1>5, <2>1, <1>1
  <2>2. CASE k = t
    BY <1>2, <1>4, <1>6, <2>2
  <2>3. CASE k > t
    <3>1. t < AW
      BY <1>1, <1>2, <2>3
    <3> QED
      BY <1>1, <1>4, <1>7, <2>3, <3>1
  <2> QED
    BY <1>1, <1>2, <2>1, <2>2, <2>3
<1> QED
  BY <1>8 DEF Masked, t

LEMMA NapotIs ==
  ASSUME NEW pa \in PAddr, NEW aw \in PAddr
  PROVE  (\A k \in (0 .. AW - 1) \ Masked(pa) : Bit(aw, k) = Bit(pa, k)) <=> aw \in Napot(pa)
<1> DEFINE m == TrailingOnes(pa) + 1
           size == Pow2[m]
           h == pa \div size
           g == aw \div size
<1>1. m \in Nat /\ m >= 1 /\ pa \in Nat /\ aw \in Nat /\ AW \in Nat
  BY Trailing, AddrSize
<1>2. (0 .. AW - 1) \ Masked(pa) = m .. AW - 1
  BY <1>1, MaskIs, Trailing
<1>3. ASSUME \A k \in m .. AW - 1 : Bit(aw, k) = Bit(pa, k) PROVE g = h
  <2> HIDE DEF m
  <2> QED
    BY <1>1, <1>3, SameHighBits DEF PAddr
<1>4. ASSUME g = h PROVE \A k \in m .. AW - 1 : Bit(aw, k) = Bit(pa, k)
  <2> HIDE DEF m
  <2> QED
    BY <1>1, <1>4, SameAbove
<1>5. aw \in Napot(pa) <=> h * size <= aw /\ aw < h * size + size
  BY DEF Napot
<1>6. size \in Nat \ {0}
  <2> HIDE DEF m
  <2> QED
    BY <1>1, Pow2Type
<1>7. h \in Nat /\ g \in Nat /\ aw % size \in 0 .. size - 1 /\ aw = size * g + (aw % size)
  <2> HIDE DEF size
  <2>1. pa \in Int /\ aw \in Int
    BY <1>1
  <2> QED
    BY <1>1, <1>6, <2>1, DivMod
<1>8. (h * size <= aw /\ aw < h * size + size) <=> g = h
  <2> DEFINE r == aw % size
  <2>1. h \in Nat /\ g \in Nat /\ r \in 0 .. size - 1 /\ aw = size * g + r
    BY <1>7
  <2>2. ASSUME h * size <= aw, aw < h * size + size PROVE g = h
    <3>1. aw = size * h + (aw - h * size) /\ aw - h * size \in 0 .. size - 1
      <4> HIDE DEF h, g, r, size
      <4> QED
        BY <1>1, <1>6, <2>1, <2>2
    <3>2. aw \in Int /\ h \in Int
      BY <1>1, <2>1
    <3> HIDE DEF size, h
    <3>3. aw \div size = h
      BY <1>6, <3>1, <3>2, DivUnique
    <3> QED
      BY <3>3
  <2>3. ASSUME g = h PROVE h * size <= aw /\ aw < h * size + size
    <3> HIDE DEF h, g, r, size
    <3>1. size * g = h * size
      BY <1>6, <2>1, <2>3
    <3> QED
      BY <1>1, <1>6, <2>1, <3>1
  <2> QED
    BY <2>2, <2>3
<1> QED
  BY <1>2, <1>3, <1>4, <1>5, <1>8

-----------------------------------------------------------------------------
(* The checker.                                                            *)
PmpInv ==
  /\ pmpcfg \in [Entry -> Config] /\ pmpaddr \in [Entry -> PAddr]
  /\ mml \in BOOLEAN /\ mmwp \in BOOLEAN /\ rlb \in BOOLEAN

LEMMA MatchIs ==
  ASSUME PmpInv, NEW i \in Entry, NEW aw \in PAddr
  PROVE  match(i, aw) <=> aw \in Region(i)
<1>1. /\ pmpcfg[i].A \in Modes /\ pmpaddr[i] \in PAddr /\ aw \in Nat /\ i \in Nat
      /\ i > 0 => pmpaddr[i - 1] \in PAddr
  <2>1. i > 0 => i - 1 \in Entry
    BY PmpAssumption DEF Entry
  <2> QED
    BY <2>1, AddrSize DEF PmpInv, Config, Entry
<1>2. CASE pmpcfg[i].A = "OFF"
  BY <1>2 DEF match, Region
<1>3. CASE pmpcfg[i].A = "TOR"
  BY <1>1, <1>3, AddrSize DEF match, Region
<1>4. CASE pmpcfg[i].A = "NA4"
  BY <1>4 DEF match, Region
<1>5. CASE pmpcfg[i].A = "NAPOT"
  BY <1>1, <1>5, NapotIs DEF match, Region
<1> QED
  BY <1>1, <1>2, <1>3, <1>4, <1>5 DEF Modes

(* A scan from the top over a set m of matching entries, each with its     *)
(* verdict v, ends with the verdict of the lowest.                         *)
Hits(m, i)  == {k \in m : i <= k}
Lowest(s)   == CHOOSE k \in s : \A l \in s : k <= l
Scan(m, v, d, i) == IF Hits(m, i) = {} THEN d ELSE v[Lowest(Hits(m, i))]

LEMMA LowestIs ==
  ASSUME NEW s \in SUBSET Nat, s # {}
  PROVE  Lowest(s) \in s /\ \A l \in s : Lowest(s) <= l
BY Least DEF Lowest

LEMMA ScanStep ==
  ASSUME NEW m \in SUBSET Entry, NEW v, NEW d, NEW i \in 0 .. NPMP
  PROVE  Scan(m, v, d, i) = IF i = NPMP THEN d
                            ELSE IF i \in m THEN v[i] ELSE Scan(m, v, d, i + 1)
<1>1. NPMP \in Nat /\ m \in SUBSET Nat /\ i \in Nat /\ \A k \in m : k \in Nat /\ k < NPMP
  BY PmpAssumption DEF Entry
<1>2. CASE i = NPMP
  <2>1. \A k \in m : ~(i <= k)
    BY <1>1, <1>2
  <2>2. Hits(m, i) = {}
    BY <2>1 DEF Hits
  <2> QED
    BY <1>2, <2>2 DEF Scan
<1>3. CASE i # NPMP /\ i \in m
  <2>1. i \in Hits(m, i) /\ Hits(m, i) \in SUBSET Nat /\ \A k \in Hits(m, i) : i <= k
    <3>1. i <= i
      BY <1>1
    <3> QED
      BY <1>1, <1>3, <3>1 DEF Hits
  <2>2. /\ Lowest(Hits(m, i)) \in Hits(m, i)
        /\ \A l \in Hits(m, i) : Lowest(Hits(m, i)) <= l
    BY <2>1, LowestIs
  <2>3. Lowest(Hits(m, i)) = i
    BY <2>1, <2>2
  <2> QED
    BY <1>3, <2>1, <2>3 DEF Scan
<1>4. CASE i # NPMP /\ i \notin m
  <2>1. Hits(m, i) = Hits(m, i + 1)
    <3>1. \A k \in m : i <= k <=> i + 1 <= k
      BY <1>1, <1>4
    <3> QED
      BY <3>1 DEF Hits
  <2> QED
    BY <1>4, <2>1 DEF Scan
<1> QED
  BY <1>2, <1>3, <1>4

LEMMA ScanUnique ==
  ASSUME NEW m \in SUBSET Entry, NEW v, NEW d, NEW f,
         \A i \in 0 .. NPMP : f[i] = IF i = NPMP THEN d ELSE IF i \in m THEN v[i] ELSE f[i + 1]
  PROVE  f[0] = Scan(m, v, d, 0)
<1> DEFINE S == {j \in Nat : j <= NPMP => f[NPMP - j] = Scan(m, v, d, NPMP - j)}
<1>1. NPMP \in Nat
  BY PmpAssumption
<1>2. 0 \in S
  <2>1. NPMP - 0 = NPMP /\ NPMP \in 0 .. NPMP
    BY <1>1
  <2>2. f[NPMP] = d /\ Scan(m, v, d, NPMP) = d
    BY <2>1, ScanStep
  <2> QED
    BY <2>1, <2>2
<1>3. ASSUME NEW j \in S PROVE j + 1 \in S
  <2>1. SUFFICES ASSUME j + 1 <= NPMP
                 PROVE  f[NPMP - (j + 1)] = Scan(m, v, d, NPMP - (j + 1))
    OBVIOUS
  <2> DEFINE i == NPMP - (j + 1)
  <2>2. i \in 0 .. NPMP /\ i # NPMP /\ i + 1 = NPMP - j /\ j <= NPMP
    BY <1>1, <2>1
  <2>3. f[i + 1] = Scan(m, v, d, i + 1)
    BY <2>2
  <2> HIDE DEF i
  <2>4. f[i] = IF i \in m THEN v[i] ELSE f[i + 1]
    BY <2>2
  <2>5. Scan(m, v, d, i) = IF i \in m THEN v[i] ELSE Scan(m, v, d, i + 1)
    BY <2>2, ScanStep
  <2> QED
    BY <2>3, <2>4, <2>5 DEF i
<1>4. S = Nat
  <2> HIDE DEF S
  <2>1. S \in SUBSET Nat
    BY DEF S
  <2> QED
    BY <1>2, <1>3, <2>1, Induct
<1>5. NPMP \in S
  <2> HIDE DEF S
  <2> QED
    BY <1>1, <1>4
<1>6. NPMP - NPMP = 0 /\ NPMP <= NPMP
  BY <1>1
<1> QED
  BY <1>5, <1>6

LEMMA FaultIs ==
  ASSUME NEW aw, NEW priv_m
  PROVE  fault(aw, priv_m) =
           Scan({i \in Entry : match(i, aw)}, [i \in Entry |-> ~allow(i, priv_m)],
                ~priv_m \/ mmwp, 0)
<1> DEFINE m == {i \in Entry : match(i, aw)}
           v == [i \in Entry |-> ~allow(i, priv_m)]
           d == ~priv_m \/ mmwp
           step(f) == [i \in 0 .. NPMP |-> IF i = NPMP THEN d
                         ELSE IF match(i, aw) THEN ~allow(i, priv_m) ELSE f[i + 1]]
           g == [i \in 0 .. NPMP |-> Scan(m, v, d, i)]
<1>1. NPMP \in Nat /\ \A i \in 0 .. NPMP : i # NPMP => i \in Entry /\ i + 1 \in 0 .. NPMP
  BY PmpAssumption DEF Entry
<1>2. g = step(g)
  <2>1. ASSUME NEW i \in 0 .. NPMP
        PROVE  g[i] = IF i = NPMP THEN d
                      ELSE IF match(i, aw) THEN ~allow(i, priv_m) ELSE g[i + 1]
    <3>1. Scan(m, v, d, i) = IF i = NPMP THEN d
                             ELSE IF i \in m THEN v[i] ELSE Scan(m, v, d, i + 1)
      <4>1. m \in SUBSET Entry
        OBVIOUS
      <4> HIDE DEF m, v, d
      <4> QED
        BY <4>1, ScanStep
    <3>2. i # NPMP => g[i + 1] = Scan(m, v, d, i + 1) /\ (i \in m <=> match(i, aw))
                      /\ v[i] = ~allow(i, priv_m)
      <4>1. i # NPMP => g[i + 1] = Scan(m, v, d, i + 1)
        <5> HIDE DEF m, v, d
        <5> QED
          BY <1>1
      <4> QED
        BY <1>1, <4>1
    <3>3. g[i] = Scan(m, v, d, i)
      BY Zenon
    <3> HIDE DEF g, m, v, d
    <3> QED
      BY <3>1, <3>2, <3>3
  <2>2. \A h : h = g => step(h) = [i \in 0 .. NPMP |-> g[i]]
    <3> HIDE DEF g, d
    <3> QED
      BY <2>1
  <2>3. g = [i \in 0 .. NPMP |-> g[i]]
    BY Zenon
  <2> QED
    BY <2>2, <2>3, Zenon
<1>3. PICK f : f = step(f) /\ fault(aw, priv_m) = f[0]
  <2>1. \E f : f = step(f)
    BY <1>2
  <2> QED
    BY <2>1 DEF fault
<1>4. \A h : f = step(h) =>
        \A i \in 0 .. NPMP : f[i] = IF i = NPMP THEN d ELSE IF i \in m THEN v[i] ELSE h[i + 1]
  <2>1. \A i \in 0 .. NPMP : i # NPMP => (i \in m <=> match(i, aw)) /\ v[i] = ~allow(i, priv_m)
    BY <1>1
  <2> HIDE DEF m, v, d
  <2> QED
    BY <2>1
<1>5. \A i \in 0 .. NPMP : f[i] = IF i = NPMP THEN d ELSE IF i \in m THEN v[i] ELSE f[i + 1]
  <2> HIDE DEF m, v, d, step
  <2> QED
    BY <1>3, <1>4
<1>6. f[0] = Scan(m, v, d, 0)
  <2>1. m \in SUBSET Entry
    OBVIOUS
  <2> HIDE DEF m, v, d, step
  <2> QED
    BY <1>5, <2>1, ScanUnique
<1> QED
  BY <1>3, <1>6

LEMMA PmpChecks == ASSUME PmpInv PROVE ChecksRegions
<1> SUFFICES ASSUME NEW aw \in PAddr, NEW priv_m \in BOOLEAN
             PROVE  fault(aw, priv_m) =
                      IF Matching(aw) = {} THEN ~(priv_m /\ ~mmwp)
                      ELSE ~(IF priv_m /\ ~pmpcfg[Winner(aw)].L THEN TRUE
                             ELSE pmpcfg[Winner(aw)].perm)
  BY DEF ChecksRegions
<1> DEFINE hits == {i \in Entry : aw \in Region(i)}
           v == [i \in Entry |-> ~allow(i, priv_m)]
           d == ~priv_m \/ mmwp
<1>1. {i \in Entry : match(i, aw)} = hits
  BY MatchIs
<1>2. fault(aw, priv_m) = Scan(hits, v, d, 0)
  BY <1>1, FaultIs
<1>3. Hits(hits, 0) = hits /\ hits \in SUBSET Nat /\ hits \in SUBSET Entry
  BY PmpAssumption DEF Hits, Entry
<1>4. \A i \in Entry : pmpcfg[i].L \in BOOLEAN /\ pmpcfg[i].perm \in BOOLEAN
  BY DEF PmpInv, Config
<1>5. CASE hits = {}
  <2>1. fault(aw, priv_m) = d
    BY <1>2, <1>3, <1>5 DEF Scan
  <2>2. d = ~(priv_m /\ ~mmwp)
    BY DEF PmpInv
  <2> QED
    BY <1>5, <2>1, <2>2 DEF Matching
<1>6. CASE hits # {}
  <2> DEFINE first == CHOOSE i \in hits : \A k \in hits : i <= k
  <2>1. first = Lowest(hits)
    BY DEF Lowest
  <2>2. first \in Entry
    <3> HIDE DEF hits, first
    <3> QED
      BY <1>3, <1>6, <2>1, LowestIs
  <2>3. fault(aw, priv_m) = v[first]
    <3> HIDE DEF hits, first, v, d
    <3> QED
      BY <1>2, <1>3, <1>6, <2>1 DEF Scan
  <2> HIDE DEF first, hits
  <2>4. v[first] = ~allow(first, priv_m)
    BY <2>2
  <2> DEFINE verdict == ~(IF priv_m /\ ~pmpcfg[first].L THEN TRUE ELSE pmpcfg[first].perm)
  <2>5. (~allow(first, priv_m)) = verdict
    BY <1>4, <2>2 DEF allow
  <2> HIDE DEF v, d, verdict
  <2>6. fault(aw, priv_m) = verdict
    <3>1. v[first] = verdict
      BY <2>4, <2>5
    <3> QED
      BY <2>3, <3>1, Zenon
  <2> QED
    BY <1>6, <2>6 DEF first, hits, verdict, Matching, Winner
<1> QED
  BY <1>5, <1>6

PmpSpec == PmpInit /\ [][PmpNext]_pmpvars

(* "The lowest-numbered matching region wins": for every number of entries *)
(* and every width of an address, the mask and the scan of the checker     *)
(* decide as the regions of the instruction set do, whatever software has  *)
(* written to the registers, as long as it has not set MML.                *)
THEOREM RegionsDecide == PmpSpec => []ChecksRegions
<1>1. Off \in Config /\ 0 \in PAddr
  BY AddrSize DEF Off, Config, Modes, PAddr
<1>2. PmpInit => PmpInv
  BY <1>1 DEF PmpInit, PmpInv
<1>3. ASSUME PmpInv, [PmpNext]_pmpvars PROVE PmpInv'
  <2>1. CASE \E i \in Entry : \E v \in AddrValues : WriteAddr(i, v)
    BY <1>3, <2>1, PmpAssumption DEF PmpInv, WriteAddr, mseccfg
  <2>2. CASE \E c \in [Entry -> Configs] : WriteCfg(c)
    <3>1. PICK c \in [Entry -> Configs] : WriteCfg(c)
      BY <2>2
    <3>2. \A i \in Entry : c[i] \in Config /\ pmpcfg[i] \in Config
      BY <1>3, PmpAssumption DEF PmpInv
    <3>3. pmpcfg' \in [Entry -> Config]
      BY <3>1, <3>2 DEF WriteCfg
    <3> QED
      BY <1>3, <3>1, <3>3 DEF PmpInv, WriteCfg, mseccfg
  <2>3. CASE \E l, m, r \in BOOLEAN : WriteMseccfg(l, m, r)
    BY <1>3, <2>3 DEF PmpInv, WriteMseccfg
  <2>4. CASE PmpRst
    BY <1>1, <2>4 DEF PmpInv, PmpRst
  <2>5. CASE UNCHANGED pmpvars
    BY <1>3, <2>5 DEF PmpInv, pmpvars, mseccfg
  <2> QED
    BY <1>3, <2>1, <2>2, <2>3, <2>4, <2>5 DEF PmpNext
<1> QED
  BY <1>2, <1>3, PmpChecks, PTL DEF PmpSpec
=============================================================================
