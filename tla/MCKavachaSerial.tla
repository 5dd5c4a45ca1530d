--------------------------- MODULE MCKavachaSerial ---------------------------
(***************************************************************************)
(* Instance of the serial link for TLC: two data bits, four cycles a bit.  *)
(***************************************************************************)
EXTENDS KavachaSerial

R == <<0, 1>>     \* READY
X == <<1, 0>>     \* EXIT
T == <<1, 1>>     \* any output, and the trigger

Put(x) == [op |-> "put", b |-> x]
Get    == [op |-> "get"]

(* A benchmark, and a program that talks on: it sets the divisor to what   *)
(* it is, and reads twice.                                                 *)
Bench == <<Put(R), Get, Put(T), Put(X)>>
Talk  == <<Get, [op |-> "baud", d |-> 1], Put(X), Get>>

BenchAndTalk == {Bench, Talk}
TwoBytes == <<T, R>>

(* What the theorems about the bytes suppose.                              *)
ASSUME SameRateHolds == SameRate
=============================================================================
