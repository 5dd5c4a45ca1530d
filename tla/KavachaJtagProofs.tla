-------------------------- MODULE KavachaJtagProofs --------------------------
(***************************************************************************)
(* The sampled TAP stays with the adapter, at every rate of TCK, for every *)
(* sequence of TMS and resets at any time; two writes of the DMI are ten   *)
(* clocks apart; and a scan of a whole word writes that word.              *)
(***************************************************************************)
EXTENDS KavachaJtag, SequenceTheorems, TLAPS

JtagSpec == JtagInit /\ [][JtagNext]_jvars

TapStates == {"TLR", "RTI", "SEL_DR", "CAP_DR", "SHF_DR", "EX1_DR", "PAU_DR", "EX2_DR",
              "UPD_DR", "SEL_IR", "CAP_IR", "SHF_IR", "EX1_IR", "PAU_IR", "EX2_IR", "UPD_IR"}

(* Ones that lead from a state of the TAP to TLR.                          *)
Distance == [t \in TapStates |->
  CASE t = "TLR" -> 0
    [] t = "SEL_IR" -> 1
    [] t = "SEL_DR" -> 2
    [] t \in {"RTI", "UPD_DR", "UPD_IR"} -> 3
    [] t \in {"EX1_DR", "EX2_DR", "EX1_IR", "EX2_IR"} -> 4
    [] OTHER -> 5]

PinTypes ==
  /\ tck \in B /\ tms \in B
  /\ tck_s \in B \X B /\ tms_s \in B \X B
  /\ tap \in TapStates /\ adapter \in TapStates \cup {"lost"} /\ ones \in 0 .. 5
  /\ adapter # "lost" => ones = 0 \/ adapter = "TLR"

(* An edge of TCK that is not sampled yet, and one that is sampled now.    *)
Pending == tck = 1 /\ tck_s[1] = 0
Sampled == tck_s[1] = 1 /\ tck_s[2] = 0

(* Where the TAP is once the edge under way has reached it.                *)
Arrives == IF Pending THEN TapNext(tap, tms = 1)
           ELSE IF Sampled THEN TapNext(tap, tms_s[2] = 1) ELSE tap

(* TMS does not change with a rising edge, so it is sampled with it.       *)
TapInv ==
  /\ PinTypes
  /\ Pending => tms_s[1] = tms
  /\ adapter # "lost" => Arrives = adapter
  /\ adapter = "lost" => ones < 5 /\ Distance[Arrives] <= 5 - ones

-----------------------------------------------------------------------------
LEMMA TapNextType ==
  ASSUME NEW t \in TapStates, NEW h \in BOOLEAN
  PROVE  TapNext(t, h) \in TapStates
BY DEF TapNext, TapStates

(* A one brings the TAP nearer to TLR, where more ones leave it.           *)
LEMMA OnesLeadHome ==
  ASSUME NEW t \in TapStates
  PROVE  /\ Distance[t] \in 0 .. 5
         /\ Distance[t] = 0 => t = "TLR"
         /\ Distance[TapNext(t, TRUE)] <= Distance[t] - 1 \/ Distance[TapNext(t, TRUE)] = 0
<1> SUFFICES ASSUME NEW n, n = TapNext(t, TRUE)
             PROVE  /\ Distance[t] \in 0 .. 5
                    /\ Distance[t] = 0 => t = "TLR"
                    /\ Distance[n] <= Distance[t] - 1 \/ Distance[n] = 0
  OBVIOUS
<1>1. CASE t \in {"TLR"}
  <2>1. n = "TLR"
    BY <1>1 DEF TapNext
  <2>2. Distance[t] = 0 /\ Distance[n] = 0
    BY <1>1, <2>1 DEF Distance, TapStates
  <2> QED
    BY <1>1, <2>2
<1>2. CASE t \in {"SEL_IR"}
  <2>1. n = "TLR"
    BY <1>2 DEF TapNext
  <2>2. Distance[t] = 1 /\ Distance[n] = 0
    BY <1>2, <2>1 DEF Distance, TapStates
  <2> QED
    BY <1>2, <2>2
<1>3. CASE t \in {"SEL_DR"}
  <2>1. n = "SEL_IR"
    BY <1>3 DEF TapNext
  <2>2. Distance[t] = 2 /\ Distance[n] = 1
    BY <1>3, <2>1 DEF Distance, TapStates
  <2> QED
    BY <1>3, <2>2
<1>4. CASE t \in {"RTI", "UPD_DR", "UPD_IR"}
  <2>1. n = "SEL_DR"
    BY <1>4 DEF TapNext
  <2>2. Distance[t] = 3 /\ Distance[n] = 2
    BY <1>4, <2>1 DEF Distance, TapStates
  <2> QED
    BY <1>4, <2>2
<1>5. CASE t \in {"EX1_DR", "EX2_DR", "EX1_IR", "EX2_IR"}
  <2>1. n \in {"UPD_DR", "UPD_IR"}
    BY <1>5 DEF TapNext
  <2>2. Distance[t] = 4 /\ Distance[n] = 3
    BY <1>5, <2>1 DEF Distance, TapStates
  <2> QED
    BY <1>5, <2>2
<1>6. CASE t \in {"CAP_DR", "SHF_DR", "PAU_DR", "CAP_IR", "SHF_IR", "PAU_IR"}
  <2>1. n \in {"EX1_DR", "EX2_DR", "EX1_IR", "EX2_IR"}
    BY <1>6 DEF TapNext
  <2>2. Distance[t] = 5 /\ Distance[n] = 4
    BY <1>6, <2>1 DEF Distance, TapStates
  <2> QED
    BY <1>6, <2>2
<1> QED
  BY <1>1, <1>2, <1>3, <1>4, <1>5, <1>6 DEF TapStates

LEMMA RiseIsSampled ==
  ASSUME PinTypes
  PROVE  tck_rise <=> Sampled
BY DEF PinTypes, tck_rise, Sampled, B

(* Whatever happens to the pins, the TAP goes where it was to arrive, and  *)
(* one edge further if one is made now.                                    *)
LEMMA Moves ==
  ASSUME TapInv, Pins, tap' = IF tck_rise THEN TapNext(tap, tms_s[2] = 1) ELSE tap
  PROVE  /\ Pending' => tms_s'[1] = tms'
         /\ Arrives' = IF tck = 0 /\ tck' = 1 THEN TapNext(Arrives, tms = 1) ELSE Arrives
<1>1. /\ tck \in B /\ tms \in B /\ tck_s \in B \X B /\ tms_s \in B \X B
      /\ tck_rise <=> Sampled
  BY RiseIsSampled DEF TapInv, PinTypes
<1>2. /\ tck_s'[1] = tck /\ tck_s'[2] = tck_s[1]
      /\ tms_s'[1] = tms /\ tms_s'[2] = tms_s[1]
  BY DEF Pins
<1>3. \/ tck = 1 /\ tck' = 0
      \/ tck = 0 /\ tck' = 1 /\ tms' = tms
      \/ tck' = tck /\ tms' = tms
  BY DEF Pins, Falls, Rises
<1>4. Pending' <=> tck' = 1 /\ tck = 0
  BY <1>2 DEF Pending
<1>5. Sampled' <=> Pending
  BY <1>1, <1>2 DEF Sampled, Pending, B
<1>6. Pending' => tms_s'[1] = tms'
  BY <1>2, <1>3, <1>4
<1>7. Pending => tms_s[1] = tms /\ ~Sampled
  BY DEF TapInv, Pending, Sampled
<1>8. CASE Pending'
  <2>1. ~Pending /\ tms' = tms
    BY <1>3, <1>4, <1>8 DEF Pending
  <2>2. tap' = Arrives
    BY <1>1, <2>1 DEF Arrives
  <2>3. Arrives' = TapNext(tap', tms' = 1)
    BY <1>8 DEF Arrives
  <2> QED
    BY <1>4, <1>6, <1>8, <2>1, <2>2, <2>3
<1>9. CASE ~Pending' /\ Pending
  <2>1. tap' = tap
    BY <1>1, <1>7, <1>9
  <2>2. Arrives' = TapNext(tap', tms_s'[2] = 1)
    BY <1>5, <1>9 DEF Arrives
  <2>3. tms_s'[2] = tms
    BY <1>2, <1>7, <1>9
  <2>4. Arrives = TapNext(tap, tms = 1)
    BY <1>9 DEF Arrives
  <2> QED
    BY <1>4, <1>6, <1>9, <2>1, <2>2, <2>3, <2>4
<1>10. CASE ~Pending' /\ ~Pending
  <2>1. tap' = Arrives
    BY <1>1, <1>10 DEF Arrives
  <2>2. Arrives' = tap'
    BY <1>5, <1>10 DEF Arrives
  <2> QED
    BY <1>4, <1>6, <1>10, <2>1, <2>2
<1> QED
  BY <1>8, <1>9, <1>10

LEMMA TickKeeps ==
  ASSUME TapInv, JtagTick
  PROVE  TapInv'
<1> DEFINE edge == tck = 0 /\ tck' = 1
<1>1. /\ Pending' => tms_s'[1] = tms'
      /\ Arrives' = IF edge THEN TapNext(Arrives, tms = 1) ELSE Arrives
  BY Moves DEF JtagTick
<1>2. /\ tck' \in B /\ tms' \in B /\ tck_s' \in B \X B /\ tms_s' \in B \X B
  BY DEF JtagTick, Pins, Falls, Rises, TapInv, PinTypes, B
<1>3. tap' \in TapStates
  BY TapNextType DEF JtagTick, TapInv, PinTypes
<1>4. Arrives \in TapStates
  BY TapNextType DEF Arrives, TapInv, PinTypes
<1>5. CASE adapter # "lost"
  <2>1. ones' = 0 /\ adapter' = IF edge THEN TapNext(adapter, tms = 1) ELSE adapter
    BY <1>5 DEF JtagTick, Follow
  <2>2. Arrives' = adapter'
    BY <1>1, <1>5, <2>1 DEF TapInv
  <2>3. adapter' \in TapStates /\ "lost" \notin TapStates
    BY <1>5, <2>1, TapNextType DEF TapInv, PinTypes, TapStates
  <2> QED
    BY <1>1, <1>2, <1>3, <2>1, <2>2, <2>3 DEF TapInv, PinTypes
<1>6. CASE adapter = "lost" /\ edge /\ tms = 1
  <2>1. ones' = ones + 1 /\ adapter' = IF ones' = 5 THEN "TLR" ELSE "lost"
    BY <1>6 DEF JtagTick, Follow
  <2>2. Arrives' = TapNext(Arrives, TRUE)
    BY <1>1, <1>6
  <2>3. ones \in 0 .. 4 /\ Distance[Arrives] <= 5 - ones
    BY <1>6 DEF TapInv, PinTypes
  <2>4. Arrives' \in TapStates
    BY <1>4, <2>2, TapNextType
  <2>5. Distance[Arrives'] <= 5 - ones'
    <3>1. /\ Distance[Arrives] \in 0 .. 5
          /\ \/ Distance[TapNext(Arrives, TRUE)] <= Distance[Arrives] - 1
             \/ Distance[TapNext(Arrives, TRUE)] = 0
      BY <1>4, OnesLeadHome
    <3>2. ASSUME NEW next \in TapStates, next = TapNext(Arrives, TRUE)
          PROVE  Distance[next] <= 5 - ones'
      <4>1. /\ Distance[next] \in 0 .. 5
            /\ Distance[next] <= Distance[Arrives] - 1 \/ Distance[next] = 0
        BY <3>1, <3>2, OnesLeadHome
      <4> QED
        BY <2>1, <2>3, <3>1, <4>1
    <3> QED
      BY <2>2, <2>4, <3>2
  <2>6. ones' = 5 => Arrives' = "TLR"
    <3>1. Distance[Arrives'] \in 0 .. 5 /\ (Distance[Arrives'] = 0 => Arrives' = "TLR")
      BY <2>4, OnesLeadHome
    <3> QED
      BY <2>5, <3>1
  <2> QED
    BY <1>1, <1>2, <1>3, <2>1, <2>3, <2>5, <2>6 DEF TapInv, PinTypes, TapStates
<1>7. CASE adapter = "lost" /\ edge /\ tms # 1
  <2>1. ones' = 0 /\ adapter' = "lost"
    BY <1>7 DEF JtagTick, Follow
  <2>2. Arrives' \in TapStates
    BY <1>1, <1>4, <1>7, TapNextType
  <2>3. Distance[Arrives'] \in 0 .. 5
    BY <2>2, OnesLeadHome
  <2> QED
    BY <1>1, <1>2, <1>3, <2>1, <2>2, <2>3 DEF TapInv, PinTypes
<1>8. CASE adapter = "lost" /\ ~edge
  <2>1. ones' = ones /\ adapter' = "lost"
    BY <1>8 DEF JtagTick, Follow
  <2> QED
    BY <1>1, <1>2, <1>3, <1>8, <2>1 DEF TapInv, PinTypes
<1> QED
  BY <1>5, <1>6, <1>7, <1>8

LEMMA ResetKeeps ==
  ASSUME TapInv, JtagRst
  PROVE  TapInv'
<1>1. /\ tck' \in B /\ tms' \in B /\ tck_s' \in B \X B /\ tms_s' \in B \X B
  BY DEF JtagRst, Pins, Falls, Rises, TapInv, PinTypes, B
<1>2. tap' = "TLR" /\ adapter' = "lost" /\ ones' = 0
  BY DEF JtagRst
<1>3. Pending' => tms_s'[1] = tms'
  BY DEF JtagRst, Pins, Falls, Rises, Pending, TapInv, PinTypes, B
<1>4. Arrives' \in TapStates
  <2>1. tap' \in TapStates
    BY <1>2 DEF TapStates
  <2>2. TapNext(tap', tms' = 1) \in TapStates /\ TapNext(tap', tms_s'[2] = 1) \in TapStates
    BY <2>1, TapNextType
  <2> QED
    BY <2>1, <2>2 DEF Arrives
<1>5. Distance[Arrives'] \in 0 .. 5
  BY <1>4, OnesLeadHome
<1>6. PinTypes'
  BY <1>1, <1>2 DEF PinTypes, TapStates
<1> QED
  BY <1>2, <1>3, <1>5, <1>6 DEF TapInv

LEMMA TapInvariant == JtagSpec => []TapInv
<1>1. JtagInit => TapInv
  <2> SUFFICES ASSUME JtagInit PROVE TapInv
    OBVIOUS
  <2>1. /\ tck = 0 /\ tms = 1 /\ tck_s = <<0, 0>> /\ tms_s = <<1, 1>>
        /\ tap = "TLR" /\ adapter = "lost" /\ ones = 0
    BY DEF JtagInit
  <2>2. PinTypes
    BY <2>1 DEF PinTypes, TapStates, B
  <2>3. ~Pending /\ ~Sampled
    BY <2>1 DEF Pending, Sampled
  <2>4. Arrives = "TLR"
    BY <2>1, <2>3 DEF Arrives
  <2>5. Distance["TLR"] = 0
    BY DEF Distance, TapStates
  <2> QED
    BY <2>1, <2>2, <2>3, <2>4, <2>5 DEF TapInv
<1>2. TapInv /\ [JtagNext]_jvars => TapInv'
  <2> SUFFICES ASSUME TapInv, [JtagNext]_jvars PROVE TapInv'
    OBVIOUS
  <2>1. CASE UNCHANGED jvars
    BY <2>1 DEF jvars, pins, TapInv, PinTypes, Pending, Sampled, Arrives
  <2> QED
    BY <2>1, TickKeeps, ResetKeeps DEF JtagNext
<1> QED
  BY <1>1, <1>2, PTL DEF JtagSpec

(* TapFollows: a debugger that has brought the TAP home with five ones is  *)
(* never out of step with it until the next reset.                         *)
THEOREM TapStays == JtagSpec => []TapFollows
<1>1. TapInv => TapFollows
  <2>1. ASSUME TapInv, ~InFlight PROVE Arrives = tap
    BY <2>1, RiseIsSampled DEF TapInv, InFlight, Arrives, Pending
  <2> QED
    BY <2>1 DEF TapInv, TapFollows
<1> QED
  BY <1>1, TapInvariant, PTL

-----------------------------------------------------------------------------
(* The shift register and the answer.                                      *)
DataTypes ==
  /\ tdi \in B /\ tdi_s \in B \X B
  /\ dr \in [1 .. DMI_W -> B]
  /\ dmi_rdata \in [1 .. DataBits -> B] /\ dmi_rstat \in [1 .. 2 -> B]

LEMMA Width == DMI_W \in Nat /\ DMI_W >= 3 /\ DMI_W = 2 + DataBits + AddrBits
BY JtagAssumption DEF DMI_W

LEMMA BitsAreSeq ==
  ASSUME NEW n \in Nat, NEW q \in [1 .. n -> B]
  PROVE  q \in Seq(B) /\ Len(q) = n
<1>1. \A i \in 1 .. n : q[i] \in B
  OBVIOUS
<1>2. /\ SubSeq(q, 1, n) \in Seq(B) /\ Len(SubSeq(q, 1, n)) = n
      /\ \A i \in 1 .. n : SubSeq(q, 1, n)[i] = q[i]
  <2>1. 1 \in Int /\ n \in Int /\ n - 1 + 1 = n /\ (n < 1 => n = 0)
    OBVIOUS
  <2>2. /\ SubSeq(q, 1, n) \in Seq(B)
        /\ Len(SubSeq(q, 1, n)) = IF 1 <= n THEN n - 1 + 1 ELSE 0
        /\ \A i \in 1 .. n - 1 + 1 : SubSeq(q, 1, n)[i] = q[1 + i - 1]
    BY <1>1, <2>1, SubSeqProperties
  <2> QED
    BY <2>1, <2>2
<1>3. SubSeq(q, 1, n) = q
  BY <1>2, LenProperties
<1> QED
  BY <1>2, <1>3

(* The op of a word, its two lowest bits.                                  *)
LEMMA FirstTwo ==
  ASSUME NEW q \in [1 .. DMI_W -> B]
  PROVE  SubSeq(q, 1, 2) = <<q[1], q[2]>>
<1>1. q[1] \in B /\ q[2] \in B /\ \A i \in 1 .. 2 : q[i] \in B
  BY Width
<1>2. /\ SubSeq(q, 1, 2) \in Seq(B) /\ Len(SubSeq(q, 1, 2)) = 2
      /\ SubSeq(q, 1, 2)[1] = q[1] /\ SubSeq(q, 1, 2)[2] = q[2]
  <2>1. /\ SubSeq(q, 1, 2) \in Seq(B)
        /\ Len(SubSeq(q, 1, 2)) = IF 1 <= 2 THEN 2 - 1 + 1 ELSE 0
        /\ \A i \in 1 .. 2 - 1 + 1 : SubSeq(q, 1, 2)[i] = q[1 + i - 1]
    BY <1>1, SubSeqProperties
  <2> QED
    BY <2>1
<1>3. <<q[1], q[2]>> \in Seq(B) /\ Len(<<q[1], q[2]>>) = 2
  BY <1>1
<1> DEFINE s == SubSeq(q, 1, 2)
           t == <<q[1], q[2]>>
<1>4. s \in Seq(B) /\ t \in Seq(B) /\ Len(s) = Len(t) /\ Len(s) = 2
      /\ s[1] = t[1] /\ s[2] = t[2]
  BY <1>2, <1>3
<1> HIDE DEF s, t
<1>5. \A i \in 1 .. Len(s) : s[i] = t[i]
  BY <1>4
<1>6. s = t
  BY <1>4, <1>5, SeqEqual
<1> QED
  BY <1>6 DEF s, t

LEMMA SeqIsBits ==
  ASSUME NEW q \in Seq(B)
  PROVE  q \in [1 .. Len(q) -> B] /\ Len(q) \in Nat
BY LenProperties

(* What a capture holds: the answer below zeros, or zeros.                 *)
LEMMA Captured ==
  ASSUME NEW st \in [1 .. 2 -> B], NEW rd \in [1 .. DataBits -> B]
  PROVE  /\ st \o rd \o Zero(AddrBits) \in [1 .. DMI_W -> B]
         /\ SubSeq(st \o rd \o Zero(AddrBits), 1, 2) = <<st[1], st[2]>>
         /\ Zero(DMI_W) \in [1 .. DMI_W -> B] /\ SubSeq(Zero(DMI_W), 1, 2) = <<0, 0>>
<1>1. DataBits \in Nat /\ AddrBits \in Nat /\ DMI_W \in Nat /\ DMI_W >= 3
      /\ DMI_W = 2 + DataBits + AddrBits
  BY Width, JtagAssumption
<1>2. st \in Seq(B) /\ Len(st) = 2 /\ rd \in Seq(B) /\ Len(rd) = DataBits
  BY <1>1, BitsAreSeq
<1>3. Zero(AddrBits) \in Seq(B) /\ Len(Zero(AddrBits)) = AddrBits
  <2>1. Zero(AddrBits) \in [1 .. AddrBits -> B]
    BY DEF Zero, B
  <2> QED
    BY <1>1, <2>1, BitsAreSeq
<1>4. /\ st \o rd \in Seq(B) /\ Len(st \o rd) = 2 + DataBits
      /\ (st \o rd)[1] = st[1] /\ (st \o rd)[2] = st[2]
  <2>1. /\ st \o rd \in Seq(B) /\ Len(st \o rd) = Len(st) + Len(rd)
        /\ \A i \in 1 .. Len(st) + Len(rd) :
             (st \o rd)[i] = IF i <= Len(st) THEN st[i] ELSE rd[i - Len(st)]
    BY <1>2, ConcatProperties
  <2> QED
    BY <1>1, <1>2, <2>1
<1> DEFINE c == st \o rd \o Zero(AddrBits)
<1>5. c \in Seq(B) /\ Len(c) = DMI_W /\ c[1] = st[1] /\ c[2] = st[2]
  <2> DEFINE a == st \o rd
             z == Zero(AddrBits)
  <2>1. a \in Seq(B) /\ z \in Seq(B) /\ Len(a) = 2 + DataBits /\ Len(z) = AddrBits
        /\ a[1] = st[1] /\ a[2] = st[2]
    BY <1>3, <1>4
  <2> HIDE DEF a, z
  <2>2. /\ a \o z \in Seq(B) /\ Len(a \o z) = Len(a) + Len(z)
        /\ \A i \in 1 .. Len(a) + Len(z) :
             (a \o z)[i] = IF i <= Len(a) THEN a[i] ELSE z[i - Len(a)]
    BY <2>1, ConcatProperties
  <2>3. a \o z \in Seq(B) /\ Len(a \o z) = DMI_W
        /\ (a \o z)[1] = st[1] /\ (a \o z)[2] = st[2]
    BY <1>1, <2>1, <2>2
  <2> QED
    BY <2>3 DEF a, z
<1> HIDE DEF c
<1>6. c \in [1 .. DMI_W -> B] /\ SubSeq(c, 1, 2) = <<st[1], st[2]>>
  <2>1. c \in [1 .. DMI_W -> B]
    BY <1>5, SeqIsBits
  <2> QED
    BY <1>1, <1>5, <2>1, FirstTwo
<1>7. Zero(DMI_W) \in [1 .. DMI_W -> B] /\ SubSeq(Zero(DMI_W), 1, 2) = <<0, 0>>
  <2>1. Zero(DMI_W) \in [1 .. DMI_W -> B] /\ Zero(DMI_W)[1] = 0 /\ Zero(DMI_W)[2] = 0
    BY <1>1 DEF Zero, B
  <2> QED
    BY <2>1, FirstTwo
<1> QED
  BY <1>6, <1>7 DEF c

LEMMA ShiftedIs ==
  ASSUME NEW q \in [1 .. DMI_W -> B], NEW bit \in B
  PROVE  /\ Shifted(q, bit) \in [1 .. DMI_W -> B]
         /\ \A k \in 1 .. DMI_W - 1 : Shifted(q, bit)[k] = q[k + 1]
         /\ Shifted(q, bit)[DMI_W] = bit
<1>1. DMI_W \in Nat /\ DMI_W >= 3 /\ q \in Seq(B) /\ Len(q) = DMI_W
  BY Width, BitsAreSeq
<1>2. q # <<>>
  BY <1>1
<1>3. Tail(q) \in Seq(B) /\ Len(Tail(q)) = DMI_W - 1
      /\ \A k \in 1 .. DMI_W - 1 : Tail(q)[k] = q[k + 1]
  BY <1>1, <1>2, HeadTailProperties
<1> DEFINE a == Append(Tail(q), bit)
<1>4. /\ a \in Seq(B) /\ Len(a) = DMI_W /\ a[DMI_W] = bit
      /\ \A k \in 1 .. DMI_W - 1 : a[k] = q[k + 1]
  <2>1. /\ a \in Seq(B) /\ Len(a) = Len(Tail(q)) + 1 /\ a[Len(Tail(q)) + 1] = bit
        /\ \A k \in 1 .. Len(Tail(q)) : a[k] = Tail(q)[k]
    BY <1>3, AppendProperties
  <2> HIDE DEF a
  <2> QED
    BY <1>1, <1>3, <2>1
<1> HIDE DEF a
<1>5. a \in [1 .. DMI_W -> B]
  BY <1>4, SeqIsBits
<1> QED
  BY <1>4, <1>5 DEF Shifted, a

LEMMA DataKeeps ==
  ASSUME DataTypes, PinTypes, JtagNext
  PROVE  DataTypes'
<1>1. tdi' \in B /\ tdi_s' \in B \X B
  BY DEF DataTypes, JtagNext, JtagTick, JtagRst, Pins, Falls, Rises
<1>2. CASE JtagTick
  <2>1. dr' \in [1 .. DMI_W -> B]
    <3>1. /\ dmi_rstat \o dmi_rdata \o Zero(AddrBits) \in [1 .. DMI_W -> B]
          /\ Zero(DMI_W) \in [1 .. DMI_W -> B] /\ Shifted(dr, tdi_s[2]) \in [1 .. DMI_W -> B]
          /\ dr \in [1 .. DMI_W -> B]
      BY Captured, ShiftedIs DEF DataTypes
    <3> QED
      BY <1>2, <3>1 DEF JtagTick, DataRegister
  <2>2. dmi_rdata' \in [1 .. DataBits -> B]
    BY <1>2 DEF JtagTick, DataRegister, DataTypes
  <2>3. dmi_rstat' \in [1 .. 2 -> B]
    BY <1>2 DEF JtagTick, DataRegister, DataTypes, B
  <2> QED
    BY <1>1, <2>1, <2>2, <2>3 DEF DataTypes
<1>3. CASE JtagRst
  BY <1>1, <1>3 DEF JtagRst, DataTypes
<1> QED
  BY <1>2, <1>3 DEF JtagNext

LEMMA DataStarts == ASSUME JtagInit PROVE DataTypes
BY Captured, JtagAssumption DEF JtagInit, DataTypes, B

-----------------------------------------------------------------------------
(* How far the next write is.  A captured word has no op, because a write  *)
(* clears dmi_rstat, so the TAP must shift once before the next update.    *)
Ready == dmi_op = <<0, 1>>

(* Edges up to and including the one that writes, at the least.            *)
Left ==
  CASE tap = "UPD_DR" -> IF Ready THEN 1 ELSE 5
    [] tap \in {"EX1_DR", "EX2_DR"} -> IF Ready THEN 2 ELSE 4
    [] tap = "PAU_DR" -> IF Ready THEN 3 ELSE 5
    [] tap = "SHF_DR" -> 3
    [] tap = "CAP_DR" -> 4
    [] tap = "TLR" -> 6
    [] OTHER -> 5

(* Cycles up to and including the one that sees the next edge; an edge     *)
(* takes two.                                                              *)
First == IF tck_s[1] = 0 THEN 2 ELSE IF tck_s[2] = 0 THEN 1 ELSE 3

Elapsed == IF dmi_write = <<>> THEN since ELSE 0

GapInv ==
  /\ since \in Nat /\ since <= Apart
  /\ dmi_rstat = <<0, 0>> \/ (dmi_write = <<>> /\ since = Apart)
  /\ Elapsed + First + 2 * (Left - 1) >= Apart

LEMMA LeftType == Left \in 1 .. 6
BY DEF Left

(* An edge brings the write nearer by one at the most.                     *)
LEMMA LeftStep ==
  ASSUME DataTypes, tap \in TapStates, dmi_rstat = <<0, 0>>, JtagTick, tck_rise
  PROVE  Left' >= Left - 1
<1>1. \/ tap' = TapNext(tap, TRUE)
      \/ tap' = TapNext(tap, FALSE)
  BY DEF JtagTick
<1>2. tap \notin {"CAP_DR", "SHF_DR"} => (Ready' <=> Ready)
  <2>1. tap \notin {"CAP_DR", "SHF_DR"} => dr' = dr
    BY DEF JtagTick, DataRegister
  <2> QED
    BY <2>1 DEF Ready, dmi_op
<1>3. tap = "CAP_DR" => ~Ready'
  <2>1. SUFFICES ASSUME tap = "CAP_DR" PROVE SubSeq(dr', 1, 2) = <<0, 0>>
    BY DEF Ready, dmi_op
  <2>2. /\ SubSeq(dmi_rstat \o dmi_rdata \o Zero(AddrBits), 1, 2) = <<0, 0>>
        /\ SubSeq(Zero(DMI_W), 1, 2) = <<0, 0>>
    BY Captured DEF DataTypes
  <2>3. dr' = dmi_rstat \o dmi_rdata \o Zero(AddrBits) \/ dr' = Zero(DMI_W)
    BY <2>1 DEF JtagTick, DataRegister
  <2> QED
    BY <2>2, <2>3
<1>4. CASE tap \in {"TLR", "RTI", "UPD_IR", "SEL_DR", "SEL_IR"}
  <2>1. tap' \in {"TLR", "RTI", "SEL_DR", "SEL_IR", "CAP_DR", "CAP_IR"}
        /\ (tap = "TLR" => tap' \in {"TLR", "RTI"})
    BY <1>1, <1>4 DEF TapNext
  <2> QED
    BY <1>4, <2>1 DEF Left
<1>5. CASE tap \in {"CAP_IR", "SHF_IR", "EX1_IR", "PAU_IR", "EX2_IR"}
  <2>1. tap' \in {"SHF_IR", "EX1_IR", "PAU_IR", "EX2_IR", "UPD_IR"}
    BY <1>1, <1>5 DEF TapNext
  <2> QED
    BY <1>5, <2>1 DEF Left
<1>6. CASE tap = "UPD_DR"
  <2>1. tap' \in {"RTI", "SEL_DR"}
    BY <1>1, <1>6 DEF TapNext
  <2> QED
    BY <1>6, <2>1 DEF Left
<1>7. CASE tap \in {"CAP_DR", "SHF_DR"}
  <2>1. tap' \in {"SHF_DR", "EX1_DR"}
    BY <1>1, <1>7 DEF TapNext
  <2> QED
    BY <1>3, <1>7, <2>1 DEF Left
<1>8. CASE tap \in {"EX1_DR", "PAU_DR", "EX2_DR"}
  <2>1. /\ tap = "EX1_DR" => tap' \in {"UPD_DR", "PAU_DR"}
        /\ tap = "PAU_DR" => tap' \in {"PAU_DR", "EX2_DR"}
        /\ tap = "EX2_DR" => tap' \in {"UPD_DR", "SHF_DR"}
    BY <1>1 DEF TapNext
  <2>2. Ready' <=> Ready
    BY <1>2, <1>8
  <2>3. CASE tap = "EX1_DR"
    BY <2>1, <2>2, <2>3 DEF Left
  <2>4. CASE tap = "PAU_DR"
    BY <2>1, <2>2, <2>4 DEF Left
  <2>5. CASE tap = "EX2_DR"
    BY <2>1, <2>2, <2>5 DEF Left
  <2> QED
    BY <1>8, <2>3, <2>4, <2>5
<1> QED
  BY <1>4, <1>5, <1>6, <1>7, <1>8 DEF TapStates

(* A write takes the TAP five edges away from the next one.                *)
LEMMA WritesFrom ==
  ASSUME JtagTick, dmi_write' # <<>>
  PROVE  /\ tck_rise /\ tap = "UPD_DR" /\ Ready /\ ir = IrDmi
         /\ dmi_write' = SubSeq(dr, 3, DMI_W) /\ dmi_rstat' = <<0, 0>>
         /\ tap' \in {"RTI", "SEL_DR"}
<1>1. Writes
  BY DEF JtagTick, DataRegister
<1> QED
  BY <1>1 DEF JtagTick, DataRegister, Writes, Ready, TapNext

LEMMA Budget ==
  ASSUME NEW a \in 1 .. 10, NEW e \in Nat, NEW f \in 1 .. 3, NEW l \in 1 .. 6,
         NEW e2 \in Nat, NEW f2 \in 1 .. 3, NEW l2 \in 1 .. 6
  PROVE  /\ e >= a \/ l = 6 \/ (f >= 2 /\ l = 5) => e + f + 2 * (l - 1) >= a
         /\ /\ e + f + 2 * (l - 1) >= a /\ e2 >= e + 1
            /\ (f = 1 /\ f2 >= 2 /\ l2 >= l - 1) \/ (f2 >= f - 1 /\ l2 = l)
            => e2 + f2 + 2 * (l2 - 1) >= a
OBVIOUS

LEMMA GapTick ==
  ASSUME TapInv, DataTypes, GapInv, JtagTick
  PROVE  GapInv'
<1>1. /\ Apart \in 1 .. 10 /\ since \in Nat /\ since <= Apart
      /\ tap \in TapStates /\ tck \in B /\ tck_s \in B \X B
      /\ tck_rise <=> Sampled
  BY JtagAssumption, RiseIsSampled DEF GapInv, TapInv, PinTypes
<1>2. tck_s'[1] = tck /\ tck_s'[2] = tck_s[1]
  BY DEF JtagTick, Pins
<1>3. /\ First \in 1 .. 3 /\ First' \in 1 .. 3 /\ First' >= First - 1
      /\ tck_rise => First = 1 /\ First' >= 2
  BY <1>1, <1>2 DEF First, Sampled, B
<1>4. since' \in Nat /\ since' <= Apart
  BY <1>1 DEF JtagTick
<1>5. Left \in 1 .. 6 /\ Left' \in 1 .. 6
  BY DEF Left
<1>6. CASE dmi_write' # <<>>
  <2>1. tck_rise /\ dmi_rstat' = <<0, 0>> /\ tap' \in {"RTI", "SEL_DR"}
    BY <1>6, WritesFrom
  <2>2. Left' = 5
    BY <2>1 DEF Left
  <2>3. Elapsed' = 0
    BY <1>6 DEF Elapsed
  <2>4. Elapsed' + First' + 2 * (Left' - 1) >= Apart
    BY <1>1, <1>3, <1>5, <2>1, <2>2, <2>3, Budget
  <2> QED
    BY <1>4, <2>1, <2>4 DEF GapInv
<1>7. CASE dmi_write' = <<>>
  <2>1. Elapsed' >= Elapsed + 1 \/ Elapsed' >= Apart
    BY <1>1, <1>7 DEF JtagTick, Elapsed
  <2>2. Elapsed' \in Nat /\ Elapsed \in Nat
    BY <1>1, <1>4 DEF Elapsed
  <2>3. dmi_rstat' = <<0, 0>> \/ (dmi_write = <<>> /\ since = Apart /\ since' = Apart)
    <3>1. dmi_rstat' \in {dmi_rstat, <<0, 0>>}
      BY DEF JtagTick, DataRegister
    <3> QED
      BY <1>1, <3>1 DEF GapInv, JtagTick
  <2>4. Elapsed' + First' + 2 * (Left' - 1) >= Apart
    <3>1. CASE Elapsed' >= Apart
      BY <1>1, <1>3, <1>5, <2>2, <3>1, Budget
    <3>2. CASE Elapsed' < Apart
      <4>1. Elapsed' >= Elapsed + 1
        BY <1>1, <2>1, <2>2, <3>2
      <4>2. dmi_rstat = <<0, 0>>
        BY <1>1, <1>7, <3>2 DEF GapInv, Elapsed, JtagTick
      <4>3. CASE tck_rise
        <5>1. Left' >= Left - 1
          BY <1>1, <4>2, <4>3, LeftStep
        <5> QED
          BY <1>1, <1>3, <1>5, <2>2, <4>1, <4>3, <5>1, Budget DEF GapInv
      <4>4. CASE ~tck_rise
        <5>1. Left' = Left
          BY <4>4 DEF JtagTick, DataRegister, Left, Ready, dmi_op
        <5> QED
          BY <1>1, <1>3, <1>5, <2>2, <4>1, <5>1, Budget DEF GapInv
      <4> QED
        BY <4>3, <4>4
    <3> QED
      BY <1>1, <2>2, <3>1, <3>2
  <2> QED
    BY <1>4, <1>7, <2>3, <2>4 DEF GapInv
<1> QED
  BY <1>6, <1>7

LEMMA GapReset ==
  ASSUME TapInv, GapInv, JtagRst
  PROVE  GapInv'
<1>1. /\ Apart \in 1 .. 10 /\ since' = Apart /\ tap' = "TLR"
      /\ dmi_rstat' = dmi_rstat /\ dmi_write' = dmi_write
  BY JtagAssumption DEF JtagRst
<1>2. Left' = 6 /\ Left' \in 1 .. 6
  BY <1>1 DEF Left
<1>3. First' \in 1 .. 3
  BY DEF First
<1>4. dmi_rstat' = <<0, 0>> \/ (dmi_write' = <<>> /\ since' = Apart)
  BY <1>1 DEF GapInv
<1>5. Elapsed' \in Nat
  BY <1>1 DEF Elapsed
<1>6. Elapsed' + First' + 2 * (Left' - 1) >= Apart
  BY <1>1, <1>2, <1>3, <1>5, Budget
<1> QED
  BY <1>1, <1>4, <1>6 DEF GapInv

LEMMA GapInvariant == JtagSpec => [](TapInv /\ DataTypes /\ GapInv)
<1>1. JtagInit => DataTypes /\ GapInv
  <2> SUFFICES ASSUME JtagInit PROVE DataTypes /\ GapInv
    OBVIOUS
  <2>1. Apart \in 1 .. 10 /\ since = Apart /\ dmi_write = <<>> /\ First \in 1 .. 3
    BY JtagAssumption DEF JtagInit, First
  <2>2. Elapsed = Apart
    BY <2>1 DEF Elapsed
  <2> QED
    BY <2>1, <2>2, LeftType, DataStarts DEF GapInv
<1>2. TapInv /\ DataTypes /\ GapInv /\ [JtagNext]_jvars => DataTypes' /\ GapInv'
  <2> SUFFICES ASSUME TapInv, DataTypes, GapInv, [JtagNext]_jvars
               PROVE  DataTypes' /\ GapInv'
    OBVIOUS
  <2>1. CASE JtagNext
    BY <2>1, DataKeeps, GapTick, GapReset DEF JtagNext, TapInv
  <2>2. CASE UNCHANGED jvars
    BY <2>2 DEF jvars, pins, DataTypes, GapInv, Elapsed, First, Left, Ready, dmi_op
  <2> QED
    BY <2>1, <2>2
<1> QED
  BY <1>1, <1>2, TapInvariant, PTL DEF JtagSpec

(* UpdatesApart: at every rate of TCK and for every sequence of TMS and    *)
(* TDI two writes of the DMI are ten cycles apart, and so are two writes   *)
(* around a reset: what the one-shot strobe of the engine relies on.       *)
THEOREM WritesSpaced == JtagSpec => UpdatesApart
<1>1. ASSUME TapInv, GapInv, [JtagNext]_jvars
      PROVE  [dmi_write' # <<>> /\ dmi_write = <<>> /\ ~JtagRst => since + 1 >= Apart]_jvars
  <2> SUFFICES ASSUME JtagTick, dmi_write' # <<>>, dmi_write = <<>>
               PROVE  since + 1 >= Apart
    BY <1>1 DEF JtagNext
  <2>1. tck_rise /\ tap = "UPD_DR" /\ Ready
    BY WritesFrom
  <2>2. Left = 1 /\ First = 1 /\ Elapsed = since
    BY <1>1, <2>1, RiseIsSampled DEF Left, First, Elapsed, TapInv, Sampled
  <2> QED
    BY <1>1, <2>2, JtagAssumption DEF GapInv
<1> QED
  BY <1>1, GapInvariant, PTL DEF JtagSpec, UpdatesApart

-----------------------------------------------------------------------------
(* What the adapter has shifted is what dr holds, once the edge under way  *)
(* has reached it.                                                         *)
Scans == {"SHF_DR", "EX1_DR", "PAU_DR", "EX2_DR", "UPD_DR"}

Held == IF tap = "SHF_DR" /\ Pending THEN Shifted(dr, tdi)
        ELSE IF tap = "SHF_DR" /\ Sampled THEN Shifted(dr, tdi_s[2]) ELSE dr

(* The bits of s are the last that were shifted into q.                    *)
Match(q, s) == \A k \in 1 .. Len(s) : s[k] = q[DMI_W - Len(s) + k]

Pushed(s, bit) == IF Len(s) < DMI_W THEN Append(s, bit) ELSE Append(Tail(s), bit)

ScanInv ==
  /\ scanned \in Seq(B) /\ Len(scanned) <= DMI_W
  /\ Pending => tdi_s[1] = tdi
  /\ adapter # "lost" =>
       /\ tap = "CAP_DR" /\ (Pending \/ Sampled) => scanned = <<>>
       /\ tap \in Scans /\ ir = IrDmi => Match(Held, scanned)

LEMMA PushMatch ==
  ASSUME NEW q \in [1 .. DMI_W -> B], NEW s \in Seq(B), Len(s) <= DMI_W, NEW bit \in B
  PROVE  /\ Pushed(s, bit) \in Seq(B) /\ Len(Pushed(s, bit)) <= DMI_W
         /\ Match(q, s) => Match(Shifted(q, bit), Pushed(s, bit))
<1>1. DMI_W \in Nat /\ DMI_W >= 3 /\ Len(s) \in Nat
  BY Width, LenProperties
<1> DEFINE n == Len(s)
<1>2. CASE n < DMI_W
  <2> DEFINE a == Append(s, bit)
  <2>1. /\ a \in Seq(B) /\ Len(a) = n + 1 /\ a[n + 1] = bit
        /\ \A k \in 1 .. n : a[k] = s[k]
    BY AppendProperties
  <2> HIDE DEF a
  <2>2. ASSUME Match(q, s), NEW k \in 1 .. n + 1
        PROVE  a[k] = Shifted(q, bit)[DMI_W - (n + 1) + k]
    <3>1. CASE k = n + 1
      <4>1. DMI_W - (n + 1) + k = DMI_W
        BY <1>1, <3>1
      <4> QED
        BY <2>1, <3>1, <4>1, ShiftedIs
    <3>2. CASE k # n + 1
      <4>1. k \in 1 .. n /\ DMI_W - (n + 1) + k \in 1 .. DMI_W - 1
            /\ (DMI_W - (n + 1) + k) + 1 = DMI_W - n + k
        BY <1>1, <1>2, <3>2
      <4>2. Shifted(q, bit)[DMI_W - (n + 1) + k] = q[DMI_W - n + k]
        <5> DEFINE j == DMI_W - (n + 1) + k
        <5>1. j \in 1 .. DMI_W - 1 /\ j + 1 = DMI_W - n + k
          BY <4>1
        <5> HIDE DEF j
        <5>2. Shifted(q, bit)[j] = q[j + 1]
          BY <5>1, ShiftedIs
        <5> QED
          BY <5>1, <5>2 DEF j
      <4>3. s[k] = q[DMI_W - n + k]
        BY <2>2, <4>1 DEF Match
      <4> QED
        BY <2>1, <4>1, <4>2, <4>3
    <3> QED
      BY <3>1, <3>2
  <2>3. Pushed(s, bit) = a
    BY <1>2 DEF Pushed, a
  <2>4. Len(a) <= DMI_W
    BY <1>1, <1>2, <2>1
  <2>5. Match(q, s) => Match(Shifted(q, bit), a)
    <3>1. SUFFICES ASSUME Match(q, s), NEW k \in 1 .. Len(a)
                   PROVE  a[k] = Shifted(q, bit)[DMI_W - Len(a) + k]
      BY DEF Match
    <3> QED
      BY <2>1, <2>2, <3>1
  <2> QED
    BY <2>1, <2>3, <2>4, <2>5
<1>3. CASE n = DMI_W
  <2> DEFINE t == Tail(s)
             a == Append(t, bit)
  <2>1. s # <<>>
    BY <1>1, <1>3
  <2>2. t \in Seq(B) /\ Len(t) = n - 1 /\ \A k \in 1 .. n - 1 : t[k] = s[k + 1]
    BY <2>1, HeadTailProperties
  <2> HIDE DEF t
  <2>3. /\ a \in Seq(B) /\ Len(a) = Len(t) + 1 /\ a[Len(t) + 1] = bit
        /\ \A k \in 1 .. Len(t) : a[k] = t[k]
    BY <2>2, AppendProperties
  <2> HIDE DEF a
  <2>4. Len(a) = DMI_W /\ a[DMI_W] = bit /\ \A k \in 1 .. DMI_W - 1 : a[k] = s[k + 1]
    BY <1>1, <1>3, <2>2, <2>3
  <2>5. ASSUME Match(q, s), NEW k \in 1 .. DMI_W
        PROVE  a[k] = Shifted(q, bit)[DMI_W - DMI_W + k]
    <3>1. DMI_W - DMI_W + k = k
      BY <1>1
    <3>2. CASE k = DMI_W
      BY <2>4, <3>1, <3>2, ShiftedIs
    <3>3. CASE k # DMI_W
      <4>1. k \in 1 .. DMI_W - 1 /\ k + 1 \in 1 .. n /\ DMI_W - n + (k + 1) = k + 1
        BY <1>1, <1>3, <3>3
      <4>2. s[k + 1] = q[k + 1]
        BY <2>5, <4>1 DEF Match
      <4>3. Shifted(q, bit)[k] = q[k + 1]
        BY <4>1, ShiftedIs
      <4>4. a[k] = s[k + 1]
        BY <2>4, <4>1
      <4> QED
        BY <3>1, <4>2, <4>3, <4>4
    <3> QED
      BY <3>2, <3>3, Zenon
  <2>6. Pushed(s, bit) = a
    BY <1>1, <1>3 DEF Pushed, a, t
  <2> QED
    BY <1>1, <2>3, <2>4, <2>5, <2>6 DEF Match
<1> QED
  BY <1>1, <1>2, <1>3

LEMMA ScanTick ==
  ASSUME TapInv, TapInv', DataTypes, DataTypes', ScanInv, JtagTick
  PROVE  ScanInv'
<1> DEFINE edge == tck = 0 /\ tck' = 1
<1>1. /\ tck_rise <=> Sampled
      /\ tck \in B /\ tck_s \in B \X B /\ tap \in TapStates
      /\ tdi \in B /\ tdi' \in B /\ dr' \in [1 .. DMI_W -> B]
      /\ scanned \in Seq(B) /\ Len(scanned) <= DMI_W
  BY RiseIsSampled DEF TapInv, PinTypes, DataTypes, ScanInv
<1>2. /\ tck_s'[1] = tck /\ tck_s'[2] = tck_s[1]
      /\ tdi_s'[1] = tdi /\ tdi_s'[2] = tdi_s[1] /\ (edge => tdi' = tdi)
  BY DEF JtagTick, Pins, Falls, Rises
<1>3. /\ Pending' <=> edge
      /\ Sampled' <=> Pending
      /\ Pending => ~Sampled /\ ~edge
  BY <1>1, <1>2 DEF Pending, Sampled, B
<1>4. Pending' => tdi_s'[1] = tdi'
  BY <1>2, <1>3
<1>5. tap' = IF Sampled THEN TapNext(tap, tms_s[2] = 1) ELSE tap
  BY <1>1 DEF JtagTick
<1>6. /\ scanned' = IF edge /\ adapter = "CAP_DR" THEN <<>>
                    ELSE IF edge /\ adapter = "SHF_DR" THEN Pushed(scanned, tdi) ELSE scanned
  BY DEF JtagTick, Follow, Pushed
<1>7. scanned' \in Seq(B) /\ Len(scanned') <= DMI_W
  <2>1. <<>> \in Seq(B) /\ Len(<<>>) <= DMI_W
    BY Width
  <2>2. Pushed(scanned, tdi) \in Seq(B) /\ Len(Pushed(scanned, tdi)) <= DMI_W
    BY <1>1, PushMatch
  <2> QED
    BY <1>1, <1>6, <2>1, <2>2
(* An adapter that finds the TAP again finds it outside a scan.            *)
<1>8. ASSUME adapter = "lost", adapter' # "lost"
      PROVE  tap' \notin Scans \cup {"CAP_DR"}
  <2>1. edge /\ adapter' = "TLR"
    BY <1>8 DEF JtagTick, Follow
  <2>2. TapNext(tap', tms' = 1) = "TLR"
    BY <1>3, <1>8, <2>1 DEF TapInv, Arrives
  <2>3. tap' \in TapStates
    BY DEF TapInv, PinTypes
  <2>4. tap' \in {"TLR", "SEL_IR"}
    BY <2>2, <2>3 DEF TapNext, TapStates
  <2> QED
    BY <2>4 DEF Scans
<1>9. ASSUME adapter # "lost", ~Pending
      PROVE  tap' = adapter
  <2>1. tap' = Arrives
    BY <1>5, <1>9 DEF Arrives
  <2> QED
    BY <1>9, <2>1 DEF TapInv
<1>10. ASSUME adapter # "lost", tap' = "CAP_DR", Pending' \/ Sampled'
       PROVE  scanned' = <<>>
  <2>1. CASE Pending'
    BY <1>3, <1>6, <1>9, <1>10, <2>1
  <2>2. CASE Sampled'
    BY <1>3, <1>5, <1>6, <1>10, <2>2 DEF ScanInv
  <2> QED
    BY <1>10, <2>1, <2>2
<1>11. ASSUME adapter # "lost", tap' \in Scans, ir' = IrDmi
       PROVE  Match(Held', scanned')
  <2>1. tap \in Scans \cup {"CAP_DR"} /\ (tap = "CAP_DR" => Sampled)
    BY <1>1, <1>5, <1>11 DEF TapNext, Scans, TapStates
  <2>2. ir = IrDmi
    BY <1>11, <2>1 DEF JtagTick, InstructionRegister, Scans
  <2>3. CASE Pending
    <3>1. ~edge /\ ~Sampled /\ Sampled' /\ ~Pending' /\ tap' = tap /\ scanned' = scanned
      BY <1>3, <1>5, <1>6, <2>3
    <3>2. dr' = dr
      BY <1>1, <3>1 DEF JtagTick, DataRegister
    <3>3. tdi_s'[2] = tdi
      BY <1>2, <2>3 DEF ScanInv
    <3>4. Held' = Held
      BY <2>3, <3>1, <3>2, <3>3 DEF Held
    <3> QED
      BY <1>11, <2>1, <2>2, <3>1, <3>4 DEF ScanInv
  <2>4. CASE ~Pending
    <3>1. ~Sampled' /\ tap' = adapter
      BY <1>3, <1>9, <1>11, <2>4
    <3>2. Match(dr', scanned)
      <4>1. CASE tap = "CAP_DR"
        <5>1. scanned = <<>>
          BY <1>11, <2>1, <4>1 DEF ScanInv
        <5> QED
          BY <5>1 DEF Match
      <4>2. CASE tap \in Scans
        <5>1. dr' = Held
          BY <1>1, <2>2, <2>4, <4>2 DEF Held, JtagTick, DataRegister, Scans
        <5> QED
          BY <1>11, <2>2, <4>2, <5>1 DEF ScanInv
      <4> QED
        BY <2>1, <4>1, <4>2
    <3>3. CASE edge /\ adapter = "SHF_DR"
      <4>1. scanned' = Pushed(scanned, tdi) /\ Held' = Shifted(dr', tdi)
        BY <1>2, <1>3, <1>6, <3>1, <3>3 DEF Held
      <4> QED
        BY <1>1, <3>2, <4>1, PushMatch
    <3>4. CASE ~(edge /\ adapter = "SHF_DR")
      <4>1. scanned' = scanned /\ Held' = dr'
        BY <1>3, <1>6, <1>11, <3>1, <3>4 DEF Held, Scans
      <4> QED
        BY <3>2, <4>1
    <3> QED
      BY <3>3, <3>4
  <2> QED
    BY <2>3, <2>4
<1> QED
  BY <1>4, <1>7, <1>8, <1>10, <1>11 DEF ScanInv

LEMMA ScanReset == ASSUME TapInv, JtagRst PROVE ScanInv'
<1>1. adapter' = "lost" /\ scanned' = <<>>
  BY DEF JtagRst
<1>2. Pending' => tdi_s'[1] = tdi'
  BY DEF JtagRst, Pins, Falls, Rises, Pending, TapInv, PinTypes, B
<1>3. <<>> \in Seq(B) /\ Len(<<>>) <= DMI_W
  BY Width
<1> QED
  BY <1>1, <1>2, <1>3 DEF ScanInv

LEMMA ScanInvariant == JtagSpec => [](TapInv /\ DataTypes /\ ScanInv)
<1>1. JtagInit => ScanInv
  BY Width DEF JtagInit, ScanInv, Pending
<1>2. /\ TapInv /\ TapInv' /\ DataTypes /\ DataTypes' /\ ScanInv /\ [JtagNext]_jvars
      => ScanInv'
  <2> SUFFICES ASSUME TapInv, TapInv', DataTypes, DataTypes', ScanInv, [JtagNext]_jvars
               PROVE  ScanInv'
    OBVIOUS
  <2>1. CASE UNCHANGED jvars
    BY <2>1 DEF jvars, pins, ScanInv, Held, Pending, Sampled
  <2> QED
    BY <2>1, ScanTick, ScanReset DEF JtagNext
<1> QED
  BY <1>1, <1>2, GapInvariant, PTL DEF JtagSpec

(* ScanDelivers: a debugger in step with the TAP that shifts a whole word  *)
(* writes exactly that word, whatever pauses it makes, at every rate of    *)
(* TCK and every width of the DMI.                                         *)
THEOREM WordsDelivered == JtagSpec => ScanDelivers
<1>1. ASSUME TapInv, DataTypes, ScanInv, [JtagNext]_jvars
      PROVE  [dmi_write' # <<>> /\ ~JtagRst /\ adapter # "lost" /\ Len(scanned) = DMI_W =>
                SubSeq(scanned, 1, 2) = <<0, 1>> /\ dmi_write' = SubSeq(scanned, 3, DMI_W)]_jvars
  <2> SUFFICES ASSUME JtagTick, dmi_write' # <<>>, adapter # "lost", Len(scanned) = DMI_W
               PROVE  /\ SubSeq(scanned, 1, 2) = <<0, 1>>
                      /\ dmi_write' = SubSeq(scanned, 3, DMI_W)
    BY <1>1 DEF JtagNext
  <2>1. /\ tap = "UPD_DR" /\ Ready /\ ir = IrDmi
        /\ dmi_write' = SubSeq(dr, 3, DMI_W)
    BY WritesFrom
  <2>2. Match(dr, scanned) /\ scanned \in Seq(B) /\ dr \in [1 .. DMI_W -> B]
    BY <1>1, <2>1 DEF ScanInv, Held, Scans, DataTypes
  <2>3. scanned = dr
    <3>1. scanned \in [1 .. DMI_W -> B]
      BY <2>2, SeqIsBits
    <3>2. \A k \in 1 .. DMI_W : scanned[k] = dr[k]
      <4>1. \A k \in 1 .. DMI_W : DMI_W - DMI_W + k = k
        BY Width
      <4> QED
        BY <2>2, <4>1 DEF Match
    <3> QED
      BY <2>2, <3>1, <3>2
  <2> QED
    BY <2>1, <2>3 DEF Ready, dmi_op
<1> QED
  BY <1>1, ScanInvariant, PTL DEF JtagSpec, ScanDelivers
=============================================================================
