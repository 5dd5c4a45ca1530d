----------------------------- MODULE KavachaBits -----------------------------
(***************************************************************************)
(* Numbers as the words of the hardware.                                   *)
(***************************************************************************)
EXTENDS Naturals

(* The powers of two, as the function a proof can unfold.                  *)
Pow2[n \in Nat] == IF n = 0 THEN 1 ELSE 2 * Pow2[n - 1]

(* x[i].                                                                   *)
Bit(x, i) == (x \div Pow2[i]) % 2
=============================================================================
