---------------------------- MODULE T16450RxProofs ----------------------------
(***************************************************************************)
(* What the receiver of the T16450 does on a clock, whoever drives its      *)
(* line: the lemmas that the theorems about the loopback and about a peer   *)
(* rest on.                                                                 *)
(***************************************************************************)
EXTENDS T16450Rx, SequenceTheorems, FiniteSetTheorems, TLAPS

Words(n) == [1..n -> Bit]

LEMMA FormatTypes ==
  ASSUME LCR \in Formats
  PROVE  /\ LCR.wls \in 5..8 /\ LCR.eps \in Bit
         /\ LCR.stb \in BOOLEAN /\ LCR.pen \in BOOLEAN /\ LCR.sp \in BOOLEAN
BY LineAssumption

LEMMA BitRange == Bit = 0..1
BY DEF Bit

LEMMA WordIsSeq ==
  ASSUME NEW n \in Nat, NEW w \in Words(n)
  PROVE  w \in Seq(Bit) /\ Len(w) = n
<1>1. w \in Seq(Bit)
  BY SeqDef DEF Words
<1>2. DOMAIN w = 1..n /\ DOMAIN w = 1..Len(w) /\ Len(w) \in Nat
  BY <1>1, LenProperties DEF Words
<1>3. Len(w) = n
  BY <1>2
<1> QED
  BY <1>1, <1>3

\* A bit is appended to those sampled.
LEMMA BitSampled ==
  ASSUME NEW n \in 5..8, NEW s \in Words(n), NEW k \in 1..n, NEW w \in Words(n),
         \A i \in 1..n : i <= k - 1 => s[n - (k - 1) + i] = w[i]
  PROVE  /\ Append(Tail(s), w[k]) \in Words(n)
         /\ \A i \in 1..n : i <= k => Append(Tail(s), w[k])[n - k + i] = w[i]
<1>1. s \in Seq(Bit) /\ Len(s) = n /\ s # << >> /\ w[k] \in Bit
  <2>1. s \in Seq(Bit) /\ Len(s) = n
    BY WordIsSeq
  <2> QED
    BY <2>1 DEF Words
<1>2. /\ Tail(s) \in Seq(Bit) /\ Len(Tail(s)) = n - 1
      /\ \A i \in 1 .. n - 1 : Tail(s)[i] = s[i + 1]
  BY <1>1, HeadTailProperties
<1> DEFINE t == Append(Tail(s), w[k])
<1>3. /\ t \in Seq(Bit) /\ Len(t) = (n - 1) + 1
      /\ \A i \in 1 .. n - 1 : t[i] = Tail(s)[i]
      /\ t[(n - 1) + 1] = w[k]
  BY <1>1, <1>2, AppendProperties
<1>4. Len(t) = n /\ t[n] = w[k]
  BY <1>3
<1>5. t \in Words(n)
  <2>1. t \in [1..Len(t) -> Bit]
    BY <1>3, LenProperties, ElementOfSeq
  <2> QED
    BY <1>4, <2>1 DEF Words
<1>6. ASSUME NEW i \in 1..n, i <= k PROVE t[n - k + i] = w[i]
  <2>1. CASE i = k
    BY <1>4, <2>1
  <2>2. CASE i # k
    <3>1. n - k + i \in 1 .. n - 1 /\ (n - k + i) + 1 = n - (k - 1) + i /\ i <= k - 1
      BY <1>6, <2>2
    <3> QED
      BY <1>2, <1>3, <3>1
  <2> QED
    BY <2>1, <2>2
<1> QED
  BY <1>5, <1>6

(***************************************************************************)
(* The receiver on an enable, by what it is doing, and between enables.     *)
(***************************************************************************)
RxTypes ==
  /\ LCR.wls \in 5..8 /\ LCR.pen \in BOOLEAN /\ LCR.sp \in BOOLEAN /\ LCR.eps \in Bit
  /\ RX_Bit_Cnt \in 0..10 /\ Bit_Phase \in 0..15 /\ Brk_Cnt \in 0..9
  /\ RX_Filtered \in Bit /\ RX_Parity \in Bit /\ RX_ShiftReg \in Words(LCR.wls)

\* No frame error and no break has been seen.
Sound == ~FE /\ ~BI

LEMMA RxStill ==
  ASSUME ~BaudOut, Sound, Samples[1] = Samples[2] => RX_Filtered = Samples[1],
         NEW rxd, NEW rbr, NEW lsr, RxClock(rxd, rbr, lsr)
  PROVE  /\ UNCHANGED << Samples, RX_Filtered, Bit_Phase, Brk_Cnt, RX_Bit_Cnt, RX_Parity,
                         RX_ShiftReg >>
         /\ ~WordEnd /\ ~FrameEnd /\ Sound'
<1>1. ~MidBit /\ ~WordEnd /\ ~FrameEnd
  BY DEF MidBit, WordEnd, FrameEnd
<1>2. UNCHANGED << Samples, RX_Filtered, Bit_Phase, Brk_Cnt >>
  BY DEF RxClock, Filter, Phase, BreakCount
<1>3. UNCHANGED << RX_Bit_Cnt, RX_Parity, RX_ShiftReg >>
  BY <1>1 DEF RxClock, BitCount
<1>4. ~FE' /\ ~BI'
  BY <1>1, Zenon DEF RxClock, LineStatus, Sound
<1> QED
  BY <1>1, <1>2, <1>3, <1>4 DEF Sound

\* No bit is being received: the phase runs from the start of a low level.
LEMMA RxQuiet ==
  ASSUME BaudOut, RxTypes, Sound, RX_Bit_Cnt = 0, Bit_Phase \in 0..7,
         NEW rxd, NEW rbr, NEW lsr, RxClock(rxd, rbr, lsr)
  PROVE  /\ ~WordEnd /\ ~FrameEnd /\ Sound' /\ UNCHANGED << Brk_Cnt, RX_ShiftReg >>
         /\ Bit_Phase = 7 => RX_Bit_Cnt' = 1 /\ Bit_Phase' = 0 /\ RX_Parity' = 1 - LCR.eps
         /\ Bit_Phase # 7 => /\ RX_Bit_Cnt' = 0 /\ RX_Parity' = RX_Parity
                             /\ Bit_Phase' = IF RX_Filtered = 1 THEN 0 ELSE Bit_Phase + 1
<1>1. ~MidBit /\ ~WordEnd /\ ~FrameEnd /\ Bit_Phase # 15
  BY DEF MidBit, WordEnd, FrameEnd
<1>2. UNCHANGED << Brk_Cnt, RX_ShiftReg >>
  BY <1>1 DEF RxClock, BreakCount, BitCount
<1>3. MidStart <=> Bit_Phase = 7
  BY DEF MidStart
<1>4. CASE Bit_Phase = 7
  <2>1. RX_Bit_Cnt' = 1 /\ Bit_Phase' = 0 /\ RX_Parity' = 1 - LCR.eps
    BY <1>3, <1>4 DEF RxClock, BitCount, Phase
  <2>2. ~FE' /\ ~BI'
    BY <1>1, Zenon DEF RxClock, LineStatus, Sound
  <2> QED
    BY <1>1, <1>2, <1>4, <2>1, <2>2 DEF Sound
<1>5. CASE Bit_Phase # 7
  <2>1. RX_Bit_Cnt' = 0 /\ RX_Parity' = RX_Parity
    BY <1>1, <1>3, <1>5 DEF RxClock, BitCount
  <2>2. (Bit_Phase + 1) % 16 = Bit_Phase + 1
    OBVIOUS
  <2>3. Bit_Phase' = IF RX_Filtered = 1 THEN 0 ELSE Bit_Phase + 1
    BY <1>5, <2>2 DEF RxClock, Phase
  <2>4. ~FE' /\ ~BI'
    BY <1>1, Zenon DEF RxClock, LineStatus, Sound
  <2> QED
    BY <1>1, <1>2, <1>5, <2>1, <2>3, <2>4 DEF Sound
<1> QED
  BY <1>4, <1>5

\* Between the middles of two bits.
LEMMA RxWithin ==
  ASSUME BaudOut, RxTypes, Sound, RX_Bit_Cnt # 0, Bit_Phase # 15,
         NEW rxd, NEW rbr, NEW lsr, RxClock(rxd, rbr, lsr)
  PROVE  /\ ~WordEnd /\ ~FrameEnd /\ Sound' /\ Bit_Phase' = Bit_Phase + 1
         /\ UNCHANGED << Brk_Cnt, RX_ShiftReg, RX_Bit_Cnt, RX_Parity >>
<1>1. ~MidBit /\ ~MidStart /\ ~WordEnd /\ ~FrameEnd
  BY DEF MidBit, MidStart, WordEnd, FrameEnd
<1>2. UNCHANGED << Brk_Cnt, RX_ShiftReg, RX_Bit_Cnt, RX_Parity >>
  BY <1>1 DEF RxClock, BreakCount, BitCount
<1>3. Bit_Phase \in 0..14
  BY DEF RxTypes
<1>4. (Bit_Phase + 1) % 16 = Bit_Phase + 1
  BY <1>3
<1>5. Bit_Phase' = Bit_Phase + 1
  BY <1>4 DEF RxClock, Phase
<1>6. ~FE' /\ ~BI'
  BY <1>1, Zenon DEF RxClock, LineStatus, Sound
<1> QED
  BY <1>1, <1>2, <1>5, <1>6 DEF Sound

\* The middle of a bit: of one of the word, of the one that follows it, and of the stop bit.
LEMMA RxMiddle ==
  ASSUME BaudOut, RxTypes, Sound, RX_Bit_Cnt # 0, Bit_Phase = 15,
         RX_Bit_Cnt = 10 => LCR.pen,
         FrameEnd => RX_Filtered = 1,
         NEW rxd, NEW rbr, NEW lsr, RxClock(rxd, rbr, lsr)
  PROVE  /\ Sound' /\ Bit_Phase' = 0
         /\ Brk_Cnt' = IF RX_Filtered = 1 THEN 0 ELSE Brk_Cnt + 1
         /\ RX_Bit_Cnt <= LCR.wls =>
              /\ ~WordEnd /\ ~FrameEnd /\ RX_Bit_Cnt' = RX_Bit_Cnt + 1
              /\ RX_Parity' = (RX_Parity + RX_Filtered) % 2
              /\ RX_ShiftReg' = Append(Tail(RX_ShiftReg), RX_Filtered)
         /\ RX_Bit_Cnt > LCR.wls => UNCHANGED << RX_Parity, RX_ShiftReg >>
         /\ RX_Bit_Cnt = LCR.wls + 1 => /\ WordEnd /\ (FrameEnd <=> ~LCR.pen)
                                        /\ RX_Bit_Cnt' = IF LCR.pen THEN 10 ELSE 0
         /\ RX_Bit_Cnt = 10 => ~WordEnd /\ FrameEnd /\ RX_Bit_Cnt' = 0
<1> USE DEF RxTypes
<1>1. MidBit /\ ~MidStart
  BY DEF MidBit, MidStart
<1>2. /\ WordEnd <=> RX_Bit_Cnt = LCR.wls + 1
      /\ FrameEnd <=> RX_Bit_Cnt = IF LCR.pen THEN 10 ELSE LCR.wls + 1
  BY <1>1 DEF WordEnd, FrameEnd
<1>3. (Brk_Cnt + 1) % 16 = Brk_Cnt + 1 /\ (15 + 1) % 16 = 0 /\ Brk_Cnt # 12
  OBVIOUS
<1>4. Bit_Phase' = 0 /\ Brk_Cnt' = IF RX_Filtered = 1 THEN 0 ELSE Brk_Cnt + 1
  BY <1>3 DEF RxClock, Phase, BreakCount
<1>5. ~FE'
  <2>1. FE' = IF FrameEnd THEN RX_Filtered = 0 ELSE FE /\ ~lsr
    BY DEF RxClock, LineStatus
  <2>2. FrameEnd => RX_Filtered # 0
    OBVIOUS
  <2> QED
    BY <2>1, <2>2, Zenon DEF Sound
<1>6. ~BI'
  BY <1>3, Zenon DEF RxClock, LineStatus, Sound
<1>7. CASE RX_Bit_Cnt <= LCR.wls
  <2>1. ~WordEnd /\ ~FrameEnd /\ RX_Bit_Cnt < LCR.wls + 1
    BY <1>2, <1>7
  <2>2. /\ RX_Bit_Cnt' = RX_Bit_Cnt + 1 /\ RX_Parity' = (RX_Parity + RX_Filtered) % 2
        /\ RX_ShiftReg' = Append(Tail(RX_ShiftReg), RX_Filtered)
    BY <1>1, <2>1 DEF RxClock, BitCount
  <2> QED
    BY <1>4, <1>5, <1>6, <1>7, <2>1, <2>2 DEF Sound
<1>8. CASE RX_Bit_Cnt > LCR.wls
  <2>1. ~(RX_Bit_Cnt < LCR.wls + 1)
    BY <1>8
  <2>2. UNCHANGED << RX_Parity, RX_ShiftReg >>
    BY <1>1, <2>1 DEF RxClock, BitCount
  <2>3. RX_Bit_Cnt' = IF FrameEnd THEN 0 ELSE IF WordEnd THEN 10 ELSE RX_Bit_Cnt + 1
    BY <1>1 DEF RxClock, BitCount
  <2>4. RX_Bit_Cnt = LCR.wls + 1 => RX_Bit_Cnt # 10
    OBVIOUS
  <2> QED
    BY <1>2, <1>4, <1>5, <1>6, <1>8, <2>2, <2>3, <2>4 DEF Sound
<1> QED
  BY <1>7, <1>8
===============================================================================
