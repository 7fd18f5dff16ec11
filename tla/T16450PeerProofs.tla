--------------------------- MODULE T16450PeerProofs ---------------------------
(***************************************************************************)
(* Theorems about the receiver of the T16450 on the line of a peer, for     *)
(* every set of formats and words, every divisor and every processor: with  *)
(* start bits of 11 to 23 enables and noise of 6 at most, each frame is     *)
(* received once and intact.  Both bounds are sharp.                        *)
(***************************************************************************)
EXTENDS T16450Peer, T16450RxProofs

\* How far the peer's start bits may be off, and how long the noise may last.
Tolerated == StartLengths \subseteq 11..23 /\ GlitchMax <= 6
-------------------------------------------------------------------------------
(***************************************************************************)
(* The frame on the line.  Its bits are numbered from 0, the start bit.     *)
(***************************************************************************)
Last == LCR.wls + (IF LCR.pen THEN 1 ELSE 0) + 1
BitAt(f, k) ==
  IF k = 0 THEN 0
  ELSE IF k <= LCR.wls THEN f.word[k]
  ELSE IF k = Last THEN 1
  ELSE IF f.good THEN GoodParity(f.word) ELSE 1 - GoodParity(f.word)

\* Bit k of the frame f is on the line, and the bits after it are to come.
Sending(f, k) ==
  /\ f \in Frames /\ k \in 0..Last /\ line = BitAt(f, k)
  /\ todo \in Seq(Bit) /\ Len(todo) = Last - k
  /\ \A i \in 1 .. Last - k : todo[i] = BitAt(f, k + i)

(***************************************************************************)
(* Where the receiver is, s enables after a bit has begun.                  *)
(***************************************************************************)
\* The filter lets a bit through two enables after it has begun.
FilterAt(b, s) ==
  /\ Samples \in Bit \X Bit /\ RX_Filtered \in Bit
  /\ Samples[1] = Samples[2] => RX_Filtered = Samples[1]
  /\ s >= 1 => Samples[1] = b
  /\ s >= 2 => Samples[2] = b

\* The line has become low: it is a start bit if it stays so.
Low(s) ==
  /\ FilterAt(0, s) /\ Brk_Cnt = 0
  /\ s = 0 => Samples[1] = 1 /\ Samples[2] = 1
  /\ s = 1 => Samples[2] = 1 /\ RX_Filtered = 1
  /\ IF s < 10 THEN RX_Bit_Cnt = 0 /\ Bit_Phase = (IF s < 2 THEN 0 ELSE s - 2)
     ELSE RX_Bit_Cnt = 1 /\ Bit_Phase = s - 10 /\ RX_Parity = 1 - LCR.eps

\* The line has become high, and was not low for long.
Quiet(s) ==
  /\ FilterAt(1, s) /\ Brk_Cnt = 0 /\ RX_Bit_Cnt = 0
  /\ Bit_Phase \in 0 .. IF s < 3 THEN 4 + s ELSE 0

\* The bits of the word w that the receiver has sampled.
Sampled == IF RX_Bit_Cnt = 10 THEN LCR.wls ELSE RX_Bit_Cnt - 1
OnesOf(w, n) == Cardinality({ i \in 1..n : w[i] = 1 })
Has(w) ==
  /\ RX_Parity = (1 - LCR.eps + OnesOf(w, Sampled)) % 2
  /\ \A i \in 1..LCR.wls : i <= Sampled => RX_ShiftReg[LCR.wls - Sampled + i] = w[i]
  /\ RX_Bit_Cnt = 10 => RBR = w

\* RX_Bit_Cnt while the middle of bit k is looked for.
CountOf(k) == IF k > Last THEN 0 ELSE IF k = LCR.wls + 2 THEN 10 ELSE k

\* Bit k of the frame f is on the line, after a start bit of 10 + d enables.
Within(f, k, s, d) ==
  /\ FilterAt(BitAt(f, k), s)
  /\ IF s + d < 16 THEN RX_Bit_Cnt = CountOf(k) /\ Bit_Phase = s + d
     ELSE RX_Bit_Cnt = CountOf(k + 1) /\ Bit_Phase = (IF k = Last THEN 0 ELSE s + d - 16)
  /\ IF RX_Bit_Cnt = 0 THEN Brk_Cnt = 0 ELSE Brk_Cnt \in 0 .. RX_Bit_Cnt - 1 /\ Has(f.word)

(***************************************************************************)
(* What is on the line, and where the receiver is in it: nothing, noise,    *)
(* the start bit of a frame, or another bit of it.                          *)
(***************************************************************************)
Idle ==
  /\ frame = Silence /\ todo = << >> /\ line = 1 /\ heard = 0
  /\ \E s \in 0..15 : left = 16 - s /\ Quiet(s)

Noise ==
  /\ frame = Silence /\ todo = << 1 >> /\ line = 0 /\ heard = 0
  /\ \E s \in 0..5 : left \in 1 .. 6 - s /\ Low(s)

StartBit ==
  /\ heard = 0
  /\ \E f \in {frame}, s \in 0..22 : Sending(f, 0) /\ left \in 1 .. 23 - s /\ s + left >= 11 /\ Low(s)

LaterBit ==
  /\ heard = IF RX_Bit_Cnt = 0 THEN 1 ELSE 0
  /\ \E f \in {frame}, k \in 1..10, s \in 0..15, d \in 1..13 :
       Sending(f, k) /\ left = 16 - s /\ Within(f, k, s, d)

OnTheLine == Idle \/ Noise \/ StartBit \/ LaterBit

\* The registers, and the errors there have been.
Recorded ==
  /\ LCR \in Formats /\ Sound
  /\ RX_ShiftReg \in Words(LCR.wls) /\ RBR \in Words(LCR.wls) /\ RX_Parity \in Bit
  /\ DR \in BOOLEAN /\ OE \in BOOLEAN /\ PE \in BOOLEAN /\ FE \in BOOLEAN /\ BI \in BOOLEAN

\* What DR says, and what getchar knows of it.
Reading ==
  /\ held \in {"none", "LSR", "RBR"} /\ due \in BOOLEAN /\ ready \in BOOLEAN /\ lost \in BOOLEAN
  /\ DR => due /\ (RBR = unread \/ RX_Bit_Cnt = 10)
  /\ due => DR \/ held = "RBR"
  /\ due /\ ~lost => RBR = unread
  /\ ready => due
  /\ held = "RBR" => ready

Hearing == Recorded /\ OnTheLine /\ Reading
-------------------------------------------------------------------------------
(***************************************************************************)
(* Frames.                                                                  *)
(***************************************************************************)
LEMMA LastType ==
  ASSUME LCR \in Formats
  PROVE  /\ LCR.wls \in 5..8 /\ LCR.eps \in 0..1 /\ LCR.pen \in BOOLEAN /\ LCR.sp \in BOOLEAN
         /\ Last \in 6..10 /\ Last = IF LCR.pen THEN LCR.wls + 2 ELSE LCR.wls + 1
BY FormatTypes DEF Last, Bit

LEMMA OnesType ==
  ASSUME NEW w, NEW n \in Nat
  PROVE  IsFiniteSet({ i \in 1..n : w[i] = 1 }) /\ OnesOf(w, n) \in Nat
<1>1. IsFiniteSet(1..n)
  BY FS_Interval
<1>2. IsFiniteSet({ i \in 1..n : w[i] = 1 })
  BY <1>1, FS_Subset
<1> QED
  BY <1>2, FS_CardinalityType DEF OnesOf

\* One more bit is counted.
LEMMA OnesNext ==
  ASSUME NEW w, NEW n \in Nat, w[n + 1] \in Bit
  PROVE  OnesOf(w, n + 1) = OnesOf(w, n) + w[n + 1]
<1> DEFINE S == { i \in 1..n : w[i] = 1 }
           T == { i \in 1 .. n + 1 : w[i] = 1 }
<1>1. IsFiniteSet(S) /\ Cardinality(S) \in Nat
  BY OnesType DEF OnesOf
<1>2. CASE w[n + 1] = 1
  <2>1. T = S \cup {n + 1} /\ n + 1 \notin S
    BY <1>2
  <2>2. Cardinality(T) = Cardinality(S) + 1
    BY <1>1, <2>1, FS_AddElement
  <2> QED
    BY <1>2, <2>2 DEF OnesOf
<1>3. CASE w[n + 1] = 0
  <2>1. T = S
    BY <1>3
  <2> QED
    BY <1>1, <1>3, <2>1 DEF OnesOf
<1> QED
  BY <1>2, <1>3 DEF Bit

LEMMA OnesNone ==
  ASSUME NEW w
  PROVE  OnesOf(w, 0) = 0
<1>1. { i \in 1..0 : w[i] = 1 } = {}
  OBVIOUS
<1> QED
  BY <1>1, FS_EmptySet DEF OnesOf

\* The parity of a word of the length programmed.
LEMMA ParityOfWord ==
  ASSUME LCR \in Formats, NEW w \in Words(LCR.wls)
  PROVE  GoodParity(w) =
           IF LCR.sp THEN 1 - LCR.eps ELSE (1 - LCR.eps + OnesOf(w, LCR.wls)) % 2
<1>1. DOMAIN w = 1..LCR.wls
  BY DEF Words
<1> QED
  BY <1>1 DEF GoodParity, OnesOf

LEMMA FrameType ==
  ASSUME LCR \in Formats, NEW f \in Frames
  PROVE  /\ f.word \in Words(LCR.wls) /\ f.good \in BOOLEAN /\ f # Silence
         /\ ~LCR.pen => f.good
         /\ GoodParity(f.word) \in 0..1
         /\ \A k \in 0..Last : BitAt(f, k) \in Bit
<1>1. LCR.wls \in 5..8 /\ LCR.eps \in 0..1 /\ LCR.pen \in BOOLEAN
  BY LastType
<1>2. f.word \in WordsOf(LCR.wls) /\ f.good \in BOOLEAN /\ (~LCR.pen => f.good)
  BY DEF Frames
<1>3. f.word \in Words(LCR.wls)
  BY <1>1, <1>2, PeerAssumption DEF Words
<1>4. f # Silence
  <2>1. Len(f.word) = LCR.wls
    BY <1>1, <1>3, WordIsSeq
  <2>2. Len(Silence.word) = 0
    BY DEF Silence
  <2> QED
    BY <1>1, <2>1, <2>2
<1>5. GoodParity(f.word) \in 0..1
  <2>1. LCR.wls \in Nat
    BY <1>1
  <2>2. OnesOf(f.word, LCR.wls) \in Nat
    BY <2>1, OnesType, Zenon
  <2>3. GoodParity(f.word) =
          IF LCR.sp THEN 1 - LCR.eps ELSE (1 - LCR.eps + OnesOf(f.word, LCR.wls)) % 2
    BY <1>3, ParityOfWord, Zenon
  <2> HIDE DEF OnesOf
  <2> QED
    BY <1>1, <2>2, <2>3
<1>6. ASSUME NEW k \in 0..Last PROVE BitAt(f, k) \in Bit
  <2>1. k \in 1..LCR.wls => f.word[k] \in Bit
    BY <1>3 DEF Words
  <2>2. Last \in 6..10
    BY LastType
  <2> QED
    BY <1>1, <1>5, <2>1, <2>2 DEF BitAt, Bit
<1> QED
  BY <1>2, <1>3, <1>4, <1>5, <1>6

LEMMA SingleBit ==
  ASSUME NEW b \in Bit
  PROVE  << b >> \in Seq(Bit) /\ Len(<< b >>) = 1 /\ << b >>[1] = b
<1>1. << b >> \in [1..1 -> Bit]
  OBVIOUS
<1>2. << b >> \in Seq(Bit)
  BY <1>1, SeqDef
<1> QED
  BY <1>2

LEMMA Joined ==
  ASSUME NEW a \in Seq(Bit), NEW b \in Seq(Bit), NEW m \in Nat, NEW n \in Nat, Len(a) = m, Len(b) = n
  PROVE  /\ a \o b \in Seq(Bit) /\ Len(a \o b) = m + n
         /\ \A k \in 1 .. m + n : (a \o b)[k] = IF k <= m THEN a[k] ELSE b[k - m]
BY ConcatProperties

\* What BitAt says of the bits after the start bit.
LEMMA BitsOfFrame ==
  ASSUME LCR \in Formats, NEW f \in Frames
  PROVE  Bits(f) \in Seq(Bit) /\ Len(Bits(f)) = Last /\ \A k \in 1..Last : Bits(f)[k] = BitAt(f, k)
<1> DEFINE p == IF f.good THEN GoodParity(f.word) ELSE 1 - GoodParity(f.word)
           ps == IF LCR.pen THEN << p >> ELSE << >>
<1>1. LCR.wls \in 5..8 /\ LCR.pen \in BOOLEAN /\ Last = LCR.wls + Len(ps) + 1
  <2>1. Last = LCR.wls + (IF LCR.pen THEN 1 ELSE 0) + 1 /\ LCR.wls \in 5..8 /\ LCR.pen \in BOOLEAN
    BY LastType DEF Last
  <2>2. Len(ps) = IF LCR.pen THEN 1 ELSE 0
    OBVIOUS
  <2> QED
    BY <2>1, <2>2
<1>2. p \in Bit /\ 1 \in Bit
  BY FrameType DEF Bit
<1>3. f.word \in Seq(Bit) /\ Len(f.word) = LCR.wls
  BY <1>1, FrameType, WordIsSeq
<1>4. ps \in Seq(Bit) /\ (LCR.pen => Len(ps) = 1 /\ ps[1] = p) /\ (~LCR.pen => Len(ps) = 0)
  BY <1>2, SingleBit, EmptySeq
<1>5. << 1 >> \in Seq(Bit) /\ Len(<< 1 >>) = 1 /\ << 1 >>[1] = 1
  BY <1>2, SingleBit
<1> DEFINE one == << 1 >>
<1>5a. one \in Seq(Bit) /\ Len(one) = 1 /\ one[1] = 1
  BY <1>5
<1> DEFINE front == f.word \o ps
           all == front \o one
<1>6. Bits(f) = all
  BY DEF Bits
<1> HIDE DEF p, ps, one
<1>7. /\ front \in Seq(Bit) /\ Len(front) = LCR.wls + Len(ps)
      /\ \A k \in 1 .. LCR.wls + Len(ps) :
           front[k] = IF k <= LCR.wls THEN f.word[k] ELSE ps[k - LCR.wls]
  BY <1>3, <1>4, ConcatProperties
<1> HIDE DEF front
<1>7a. LCR.wls + Len(ps) \in Nat /\ LCR.wls \in Nat /\ Len(ps) \in Nat
  BY <1>1, <1>4
<1>8. /\ all \in Seq(Bit) /\ Len(all) = LCR.wls + Len(ps) + 1
      /\ \A k \in 1 .. LCR.wls + Len(ps) + 1 :
           all[k] = IF k <= LCR.wls + Len(ps) THEN front[k] ELSE one[k - (LCR.wls + Len(ps))]
  <2> DEFINE m == LCR.wls + Len(ps)
  <2>1. m \in Nat /\ 1 \in Nat /\ front \in Seq(Bit) /\ Len(front) = m
    BY <1>7, <1>7a
  <2> HIDE DEF m
  <2>2. front \in Seq(Bit)
    BY <2>1, Zenon
  <2>3. one \in Seq(Bit)
    BY <1>5a, Zenon
  <2>4. front \o one \in Seq(Bit)
    BY <2>2, <2>3, ConcatProperties
  <2>5. Len(front \o one) = Len(front) + Len(one)
    BY <2>2, <2>3, ConcatProperties
  <2>6. Len(front) = m /\ Len(one) = 1
    BY <1>5a, <2>1
  <2>7. \A k \in 1 .. Len(front) + Len(one) :
          (front \o one)[k] = IF k <= Len(front) THEN front[k] ELSE one[k - Len(front)]
    BY <2>2, <2>3, ConcatProperties
  <2>8. \A k \in 1 .. m + 1 : (front \o one)[k] = IF k <= m THEN front[k] ELSE one[k - m]
    BY <2>6, <2>7, Zenon
  <2>9. Len(front \o one) = m + 1
    BY <2>5, <2>6, Zenon
  <2> QED
    BY <2>4, <2>8, <2>9, Zenon DEF m
<1> HIDE DEF all
<1>9. ASSUME NEW k \in 1..Last PROVE all[k] = BitAt(f, k)
  <2>1. CASE k <= LCR.wls
    <3>1. k \in 1 .. LCR.wls + Len(ps) + 1 /\ k <= LCR.wls + Len(ps) /\ k # 0
      BY <1>1, <1>4, <2>1
    <3>2. all[k] = front[k]
      BY <1>8, <3>1, Zenon
    <3>3. front[k] = f.word[k]
      <4>1. k \in 1 .. LCR.wls + Len(ps)
        BY <1>1, <1>4, <3>1
      <4> QED
        BY <1>7, <2>1, <4>1, Zenon
    <3> QED
      BY <2>1, <3>1, <3>2, <3>3, Zenon DEF BitAt
  <2>2. CASE k > LCR.wls /\ k # Last
    <3>0. LCR.pen
      <4>1. ~LCR.pen => Last = LCR.wls + 1
        BY LastType
      <4>2. k > LCR.wls /\ k \in 1..Last /\ k # Last => Last # LCR.wls + 1
        BY <1>1, <1>4
      <4> QED
        BY <2>2, <4>1, <4>2
    <3>0a. Last = LCR.wls + 2 /\ Len(ps) = 1
      <4>1. LCR.pen => Last = LCR.wls + 2
        BY LastType
      <4> QED
        BY <1>4, <3>0, <4>1
    <3>0b. k \in 1 .. LCR.wls + 2 /\ k > LCR.wls /\ k # LCR.wls + 2
      BY <2>2, <3>0a
    <3>1. LCR.pen /\ k = LCR.wls + 1 /\ k - LCR.wls = 1 /\ Len(ps) = 1 /\ ps[1] = p
      BY <1>1, <1>4, <3>0, <3>0a, <3>0b
    <3>2. all[k] = p
      BY <1>1, <1>7, <1>8, <3>1
    <3> QED
      BY <1>1, <2>2, <3>1, <3>2 DEF BitAt, p
  <2>3. CASE k = Last
    <3>1. k - (LCR.wls + Len(ps)) = 1 /\ ~(k <= LCR.wls + Len(ps)) /\ k > LCR.wls
      BY <1>1, <1>4, <2>3
    <3>2. all[k] = 1
      BY <1>1, <1>4, <1>5a, <1>8, <3>1
    <3> QED
      BY <1>1, <2>3, <3>1, <3>2 DEF BitAt
  <2> QED
    BY <1>1, <1>4, <2>1, <2>2, <2>3
<1> QED
  BY <1>1, <1>4, <1>6, <1>8, <1>9
-------------------------------------------------------------------------------
(***************************************************************************)
(* What the receiver does on an enable, s enables after a bit has begun.    *)
(***************************************************************************)
LEMMA FilterStep ==
  ASSUME BaudOut, NEW b \in Bit, line = b, NEW s \in Nat, FilterAt(b, s),
         NEW rbr, NEW lsr, RxClock(line, rbr, lsr)
  PROVE  /\ FilterAt(b, s + 1)' /\ Samples' = << b, Samples[1] >>
         /\ s >= 2 => RX_Filtered = b
         /\ Samples[1] # b => RX_Filtered' = RX_Filtered
<1>1. Samples' = << b, Samples[1] >> /\ Samples[1] \in Bit /\ RX_Filtered \in Bit
  BY DEF RxClock, Filter, FilterAt
<1>2. Samples'[1] = b /\ Samples'[2] = Samples[1] /\ Samples' \in Bit \X Bit
  BY <1>1
<1>3. RX_Filtered' = IF b = Samples[1] THEN b ELSE RX_Filtered
  BY <1>2 DEF RxClock, Filter
<1>4. s + 1 >= 2 => Samples[1] = b
  BY DEF FilterAt
<1>5. FilterAt(b, s + 1)'
  BY <1>1, <1>2, <1>3, <1>4 DEF FilterAt
<1>6. s >= 2 => RX_Filtered = b
  BY DEF FilterAt
<1> QED
  BY <1>1, <1>3, <1>5, <1>6

LEMMA LowStep ==
  ASSUME BaudOut, LCR \in Formats, UNCHANGED LCR, line = 0, NEW s \in 0..22, Low(s), Sound,
         RX_ShiftReg \in Words(LCR.wls), RX_Parity \in Bit,
         NEW rbr, NEW lsr, RxClock(line, rbr, lsr)
  PROVE  /\ Low(s + 1)' /\ ~WordEnd /\ ~FrameEnd /\ Sound' /\ UNCHANGED RX_ShiftReg
         /\ RX_Parity' \in Bit
<1>1. /\ FilterAt(0, s + 1)' /\ Samples' = << 0, Samples[1] >> /\ (s >= 2 => RX_Filtered = 0)
      /\ (Samples[1] # 0 => RX_Filtered' = RX_Filtered)
  <2>1. 0 \in Bit /\ s \in Nat /\ FilterAt(0, s)
    BY DEF Bit, Low
  <2> QED
    BY <2>1, FilterStep, Zenon
<1>2. LCR.wls \in 5..8 /\ LCR.eps \in 0..1 /\ LCR.pen \in BOOLEAN /\ LCR.sp \in BOOLEAN
  BY LastType
<1>3. Brk_Cnt = 0 /\ RX_Filtered \in Bit /\ (s = 0 => Samples[1] = 1 /\ RX_Filtered = 1)
      /\ (s = 1 => RX_Filtered = 1)
  BY DEF Low, FilterAt
<1>4. RxTypes
  BY <1>2, <1>3, BitRange DEF RxTypes, Low
<1>5. s = 0 => Samples'[2] = 1 /\ RX_Filtered' = 1
  BY <1>1, <1>3
<1>6. CASE s < 10
  <2>1. RX_Bit_Cnt = 0 /\ Bit_Phase = (IF s < 2 THEN 0 ELSE s - 2) /\ Bit_Phase \in 0..7
    BY <1>6 DEF Low
  <2>2. /\ ~WordEnd /\ ~FrameEnd /\ Sound' /\ UNCHANGED << Brk_Cnt, RX_ShiftReg >>
        /\ Bit_Phase = 7 => RX_Bit_Cnt' = 1 /\ Bit_Phase' = 0 /\ RX_Parity' = 1 - LCR.eps
        /\ Bit_Phase # 7 => /\ RX_Bit_Cnt' = 0 /\ RX_Parity' = RX_Parity
                            /\ Bit_Phase' = IF RX_Filtered = 1 THEN 0 ELSE Bit_Phase + 1
    BY <1>4, <2>1, RxQuiet, Zenon
  <2>3. RX_Parity' \in Bit
    BY <1>2, <2>2, BitRange
  <2>4. CASE s = 9
    <3>1. RX_Bit_Cnt' = 1 /\ Bit_Phase' = 0 /\ RX_Parity' = 1 - LCR.eps /\ Brk_Cnt' = 0 /\ LCR' = LCR
      BY <1>3, <2>1, <2>2, <2>4
    <3>2. Low(s + 1)'
      BY <1>1, <2>4, <3>1 DEF Low
    <3> QED
      BY <2>2, <2>3, <3>2
  <2>5. CASE s # 9
    <3>1. RX_Bit_Cnt' = 0 /\ Brk_Cnt' = 0
      BY <1>3, <1>6, <2>1, <2>2, <2>5
    <3>2. Bit_Phase' = IF s + 1 < 2 THEN 0 ELSE (s + 1) - 2
      BY <1>1, <1>3, <1>6, <2>1, <2>2, <2>5
    <3>3. Low(s + 1)'
      BY <1>1, <1>5, <1>6, <2>5, <3>1, <3>2 DEF Low
    <3> QED
      BY <2>2, <2>3, <3>3
  <2> QED
    BY <2>4, <2>5
<1>7. CASE s >= 10
  <2>1. RX_Bit_Cnt = 1 /\ Bit_Phase = s - 10 /\ Bit_Phase # 15 /\ RX_Parity = 1 - LCR.eps
    BY <1>7 DEF Low
  <2>2. /\ ~WordEnd /\ ~FrameEnd /\ Sound' /\ Bit_Phase' = Bit_Phase + 1
        /\ UNCHANGED << Brk_Cnt, RX_ShiftReg, RX_Bit_Cnt, RX_Parity >>
    <3>1. RX_Bit_Cnt # 0
      BY <2>1
    <3> QED
      BY <1>4, <2>1, <3>1, RxWithin, Zenon
  <2>3. Low(s + 1)'
    BY <1>1, <1>3, <1>7, <2>1, <2>2 DEF Low
  <2> QED
    BY <2>2, <2>3
<1> QED
  BY <1>6, <1>7

LEMMA QuietStep ==
  ASSUME BaudOut, LCR \in Formats, UNCHANGED LCR, line = 1, NEW s \in 0..15, Quiet(s), Sound,
         RX_ShiftReg \in Words(LCR.wls), RX_Parity \in Bit,
         NEW rbr, NEW lsr, RxClock(line, rbr, lsr)
  PROVE  /\ Quiet(s + 1)' /\ ~WordEnd /\ ~FrameEnd /\ Sound'
         /\ UNCHANGED << RX_ShiftReg, RX_Parity >>
<1>1. FilterAt(1, s + 1)' /\ (s >= 2 => RX_Filtered = 1)
  <2>1. 1 \in Bit /\ s \in Nat /\ FilterAt(1, s)
    BY DEF Bit, Quiet
  <2> QED
    BY <2>1, FilterStep, Zenon
<1>2. LCR.wls \in 5..8 /\ LCR.eps \in 0..1 /\ LCR.pen \in BOOLEAN /\ LCR.sp \in BOOLEAN
  BY LastType
<1>3. /\ Brk_Cnt = 0 /\ RX_Filtered \in Bit /\ RX_Bit_Cnt = 0
      /\ Bit_Phase \in 0 .. IF s < 3 THEN 4 + s ELSE 0
  BY DEF Quiet, FilterAt
<1>4. RxTypes /\ Bit_Phase \in 0..6
  BY <1>2, <1>3, BitRange DEF RxTypes
<1>5. /\ ~WordEnd /\ ~FrameEnd /\ Sound' /\ UNCHANGED << Brk_Cnt, RX_ShiftReg >>
      /\ Bit_Phase # 7 => /\ RX_Bit_Cnt' = 0 /\ RX_Parity' = RX_Parity
                          /\ Bit_Phase' = IF RX_Filtered = 1 THEN 0 ELSE Bit_Phase + 1
  <2>1. Bit_Phase \in 0..7
    BY <1>4
  <2> QED
    BY <1>3, <1>4, <2>1, RxQuiet, Zenon
<1>6. /\ Bit_Phase # 7 /\ RX_Bit_Cnt' = 0 /\ Brk_Cnt' = 0
      /\ Bit_Phase' = IF RX_Filtered = 1 THEN 0 ELSE Bit_Phase + 1
  BY <1>3, <1>4, <1>5
<1>7. Bit_Phase' \in 0 .. IF s + 1 < 3 THEN 4 + (s + 1) ELSE 0
  BY <1>1, <1>3, <1>6
<1>8. Quiet(s + 1)'
  BY <1>1, <1>6, <1>7 DEF Quiet
<1> QED
  BY <1>4, <1>5, <1>8

LEMMA SameWords ==
  ASSUME NEW n, NEW v \in Words(n), NEW w \in Words(n), \A i \in 1..n : v[i] = w[i]
  PROVE  v = w
<1>1. v = [i \in 1..n |-> v[i]] /\ w = [i \in 1..n |-> w[i]]
  BY DEF Words
<1>2. [i \in 1..n |-> v[i]] = [i \in 1..n |-> w[i]]
  BY Zenon
<1> QED
  BY <1>1, <1>2, Zenon

LEMMA CountType ==
  ASSUME LCR \in Formats, NEW k \in 1..Last
  PROVE  /\ CountOf(k) \in 1..10 /\ CountOf(k) = IF k <= LCR.wls + 1 THEN k ELSE 10
         /\ k > LCR.wls + 1 => LCR.pen /\ k = Last
         /\ CountOf(k) = 10 => LCR.pen /\ k = Last
         /\ k = Last => CountOf(k + 1) = 0 /\ CountOf(k) = IF LCR.pen THEN 10 ELSE LCR.wls + 1
         /\ k # Last => CountOf(k + 1) = IF k <= LCR.wls THEN k + 1 ELSE 10
         /\ k <= LCR.wls => k # Last
         /\ k = LCR.wls + 1 => (k = Last <=> ~LCR.pen)
<1>1. LCR.wls \in 5..8
  BY LastType
<1>2. CASE LCR.pen
  <2>1. Last = LCR.wls + 2
    BY <1>2, LastType
  <2> QED
    BY <1>1, <1>2, <2>1 DEF CountOf
<1>3. CASE ~LCR.pen
  <2>1. Last = LCR.wls + 1
    BY <1>3, LastType
  <2> QED
    BY <1>1, <1>3, <2>1 DEF CountOf
<1> QED
  BY <1>2, <1>3

\* A bit of the word w is sampled, ...
LEMMA HasNext ==
  ASSUME LCR \in Formats, UNCHANGED LCR, NEW w \in Words(LCR.wls), NEW k \in 1..LCR.wls,
         RX_Bit_Cnt = k, Has(w), RX_Filtered = w[k], RX_ShiftReg \in Words(LCR.wls), RX_Parity \in Bit,
         RX_Bit_Cnt' = k + 1, RX_Parity' = (RX_Parity + RX_Filtered) % 2,
         RX_ShiftReg' = Append(Tail(RX_ShiftReg), RX_Filtered)
  PROVE  Has(w)' /\ RX_ShiftReg' \in Words(LCR.wls) /\ RX_Parity' \in Bit
<1>1. LCR.wls \in 5..8 /\ LCR.eps \in 0..1 /\ LCR.wls \in Nat
  BY LastType
<1>2. PICK n \in 5..8 : n = LCR.wls
  BY <1>1
<1>3. Sampled = k - 1 /\ Sampled' = k /\ k \in 1..n /\ k - 1 \in Nat /\ w[k] \in 0..1
  <2>1. w[k] \in Bit
    BY DEF Words
  <2> QED
    BY <1>2, <2>1, BitRange DEF Sampled
<1>4. \A i \in 1..n : i <= k - 1 => RX_ShiftReg[n - (k - 1) + i] = w[i]
  BY <1>2, <1>3 DEF Has
<1>5. /\ RX_ShiftReg' \in Words(n)
      /\ \A i \in 1..n : i <= k => RX_ShiftReg'[n - k + i] = w[i]
  <2>1. w \in Words(n) /\ RX_ShiftReg \in Words(n) /\ RX_ShiftReg' = Append(Tail(RX_ShiftReg), w[k])
    BY <1>2
  <2>2. /\ Append(Tail(RX_ShiftReg), w[k]) \in Words(n)
        /\ \A i \in 1..n : i <= k => Append(Tail(RX_ShiftReg), w[k])[n - k + i] = w[i]
    BY <1>3, <1>4, <2>1, BitSampled, Zenon
  <2> QED
    BY <2>1, <2>2, Zenon
<1>6. RX_Parity' = (1 - LCR.eps + OnesOf(w, k)) % 2
  <2>1. PICK o \in Nat : o = OnesOf(w, k - 1)
    BY <1>3, OnesType
  <2>2. OnesOf(w, k) = o + w[k]
    <3>1. (k - 1) + 1 = k /\ w[k] \in Bit
      BY <1>3, BitRange
    <3>2. OnesOf(w, (k - 1) + 1) = OnesOf(w, k - 1) + w[(k - 1) + 1]
      BY <1>3, <3>1, OnesNext, Zenon
    <3> QED
      BY <2>1, <3>1, <3>2
  <2>3. RX_Parity = (1 - LCR.eps + o) % 2
    BY <1>3, <2>1 DEF Has
  <2>4. RX_Parity' = (RX_Parity + w[k]) % 2
    OBVIOUS
  <2> QED
    BY <1>1, <1>3, <2>2, <2>3, <2>4, SMTT(30)
<1>7. RX_Bit_Cnt' # 10
  BY <1>2, <1>3
<1>8. Has(w)'
  BY <1>2, <1>3, <1>5, <1>6, <1>7 DEF Has
<1>9. RX_Parity' \in Bit
  <2>1. RX_Parity \in 0..1 /\ RX_Filtered \in 0..1
    BY <1>3, BitRange
  <2>2. (RX_Parity + RX_Filtered) % 2 \in 0..1
    BY <2>1
  <2> QED
    BY <2>2, BitRange
<1> QED
  BY <1>2, <1>5, <1>8, <1>9

\* ... and the word is kept.
LEMMA HasStill ==
  ASSUME UNCHANGED << LCR, RX_Bit_Cnt, RX_Parity, RX_ShiftReg, RBR >>, NEW w, Has(w)
  PROVE  Has(w)'
BY DEF Has, Sampled

LEMMA WithinStep ==
  ASSUME BaudOut, LCR \in Formats, UNCHANGED LCR, NEW f \in Frames, NEW k \in 1..Last,
         NEW s \in 0..15, NEW d \in 1..13, Within(f, k, s, d), line = BitAt(f, k), Sound,
         RX_ShiftReg \in Words(LCR.wls), RX_Parity \in Bit,
         NEW rbr, NEW lsr, RxClock(line, rbr, lsr)
  PROVE  /\ Within(f, k, s + 1, d)' /\ Sound'
         /\ RX_ShiftReg' \in Words(LCR.wls) /\ RX_Parity' \in Bit
         /\ FrameEnd <=> k = Last /\ s + d = 15
         /\ WordEnd <=> k = LCR.wls + 1 /\ s + d = 15
         /\ WordEnd => RX_ShiftReg = f.word
         /\ FrameEnd => RBR' = f.word
         /\ WordEnd /\ LCR.pen => (ParityWrong <=> ~f.good)
<1>1. /\ LCR.wls \in 5..8 /\ LCR.eps \in 0..1 /\ LCR.pen \in BOOLEAN /\ LCR.sp \in BOOLEAN
      /\ Last \in 6..10 /\ k \in 1..10
  BY LastType
<1>2. /\ f.word \in Words(LCR.wls) /\ f.good \in BOOLEAN /\ (~LCR.pen => f.good)
      /\ GoodParity(f.word) \in 0..1 /\ BitAt(f, k) \in Bit
  BY <1>1, FrameType
<1> DEFINE b == BitAt(f, k)
<1>3. /\ FilterAt(b, s + 1)' /\ (s >= 2 => RX_Filtered = b) /\ RX_Filtered \in Bit
  <2>1. b \in Bit /\ s \in Nat /\ FilterAt(b, s) /\ line = b
    BY <1>2 DEF Within
  <2>2. PICK c \in Bit : c = b
    BY <2>1
  <2>3. FilterAt(c, s) /\ line = c
    BY <2>1, <2>2
  <2>4. FilterAt(c, s + 1)' /\ (s >= 2 => RX_Filtered = c)
    BY <2>1, <2>3, FilterStep, Zenon
  <2>5. RX_Filtered \in Bit
    BY <2>3 DEF FilterAt
  <2>6. b' = c
    BY <2>2 DEF BitAt, Last, GoodParity
  <2> QED
    BY <2>2, <2>4, <2>5, <2>6
<1>4. /\ CountOf(k) \in 1..10 /\ CountOf(k) = IF k <= LCR.wls + 1 THEN k ELSE 10
      /\ k > LCR.wls + 1 => LCR.pen /\ k = Last
      /\ CountOf(k) = 10 => LCR.pen /\ k = Last
      /\ k = Last => CountOf(k + 1) = 0 /\ CountOf(k) = IF LCR.pen THEN 10 ELSE LCR.wls + 1
      /\ k # Last => CountOf(k + 1) = IF k <= LCR.wls THEN k + 1 ELSE 10
      /\ k <= LCR.wls => k # Last
      /\ k = LCR.wls + 1 => (k = Last <=> ~LCR.pen)
  BY CountType
<1>5. Last' = Last /\ CountOf(k)' = CountOf(k) /\ CountOf(k + 1)' = CountOf(k + 1) /\ b' = b
  BY DEF Last, CountOf, BitAt, GoodParity
<1> HIDE DEF b
<1>6. FilterAt(BitAt(f, k), s + 1)'
  BY <1>3 DEF b
<1>7. /\ IF s + d < 16 THEN RX_Bit_Cnt = CountOf(k) /\ Bit_Phase = s + d
         ELSE RX_Bit_Cnt = CountOf(k + 1) /\ Bit_Phase = (IF k = Last THEN 0 ELSE s + d - 16)
      /\ IF RX_Bit_Cnt = 0 THEN Brk_Cnt = 0 ELSE Brk_Cnt \in 0 .. RX_Bit_Cnt - 1 /\ Has(f.word)
  BY DEF Within
<1>8. RxTypes
  <2>1. RX_Bit_Cnt \in 0..10 /\ Bit_Phase \in 0..15
    BY <1>1, <1>4, <1>7
  <2>2. Brk_Cnt \in 0..9
    BY <1>7, <2>1
  <2> QED
    BY <1>1, <1>3, <2>1, <2>2, BitRange DEF RxTypes
<1>9. CASE s + d < 15
  <2>1. RX_Bit_Cnt = CountOf(k) /\ Bit_Phase = s + d /\ RX_Bit_Cnt # 0 /\ Bit_Phase # 15
    BY <1>4, <1>7, <1>9
  <2>2. /\ ~WordEnd /\ ~FrameEnd /\ Sound' /\ Bit_Phase' = Bit_Phase + 1
        /\ UNCHANGED << Brk_Cnt, RX_ShiftReg, RX_Bit_Cnt, RX_Parity >>
    BY <1>8, <2>1, RxWithin, Zenon
  <2>3. RBR' = RBR
    BY <2>2, Zenon DEF RxClock
  <2>4. Has(f.word)'
    BY <1>7, <2>1, <2>2, <2>3, HasStill
  <2>5. Bit_Phase' = (s + 1) + d /\ (s + 1) + d < 16 /\ s + d # 15
    BY <1>9, <2>1, <2>2
  <2>6. RX_Bit_Cnt' = CountOf(k)' /\ RX_Bit_Cnt' # 0 /\ Brk_Cnt' \in 0 .. RX_Bit_Cnt' - 1
    BY <1>5, <1>7, <2>1, <2>2
  <2>7. Within(f, k, s + 1, d)'
    BY <1>6, <2>4, <2>5, <2>6 DEF Within
  <2> QED
    BY <2>2, <2>5, <2>7
<1>10. CASE s + d = 15
  <2>1. /\ RX_Bit_Cnt = CountOf(k) /\ Bit_Phase = 15 /\ RX_Bit_Cnt # 0 /\ s >= 2 /\ RX_Filtered = b
        /\ Brk_Cnt \in 0 .. RX_Bit_Cnt - 1 /\ Has(f.word)
    BY <1>3, <1>4, <1>7, <1>10
  <2>2. k = Last => b = 1
    BY <1>1, <1>4 DEF b, BitAt
  <2>3. RX_Bit_Cnt = 10 => LCR.pen
    BY <1>4, <2>1
  <2>4. FrameEnd => RX_Filtered = 1
    <3>1. FrameEnd => k = Last
      <4>1. FrameEnd => CountOf(k) = IF LCR.pen THEN 10 ELSE LCR.wls + 1
        BY <2>1 DEF FrameEnd
      <4> QED
        BY <1>1, <1>4, <4>1
    <3> QED
      BY <2>1, <2>2, <3>1, Zenon
  <2>5. /\ Sound' /\ Bit_Phase' = 0
        /\ Brk_Cnt' = IF RX_Filtered = 1 THEN 0 ELSE Brk_Cnt + 1
        /\ RX_Bit_Cnt <= LCR.wls =>
             /\ ~WordEnd /\ ~FrameEnd /\ RX_Bit_Cnt' = RX_Bit_Cnt + 1
             /\ RX_Parity' = (RX_Parity + RX_Filtered) % 2
             /\ RX_ShiftReg' = Append(Tail(RX_ShiftReg), RX_Filtered)
        /\ RX_Bit_Cnt > LCR.wls => UNCHANGED << RX_Parity, RX_ShiftReg >>
        /\ RX_Bit_Cnt = LCR.wls + 1 => /\ WordEnd /\ (FrameEnd <=> ~LCR.pen)
                                       /\ RX_Bit_Cnt' = IF LCR.pen THEN 10 ELSE 0
        /\ RX_Bit_Cnt = 10 => ~WordEnd /\ FrameEnd /\ RX_Bit_Cnt' = 0
    BY <1>8, <2>1, <2>3, <2>4, RxMiddle, Zenon
  <2>6. ~((s + 1) + d < 16) /\ (s + 1) + d - 16 = 0 /\ s + d = 15
    BY <1>10
  <2>7. CASE k <= LCR.wls
    <3>1. RX_Bit_Cnt = k /\ RX_Bit_Cnt <= LCR.wls /\ k # Last /\ k # LCR.wls + 1 /\ k \in 1..LCR.wls
      BY <1>1, <1>4, <2>1, <2>7
    <3>2. RX_Filtered = f.word[k]
      BY <1>1, <2>1, <2>7 DEF b, BitAt
    <3>3. Has(f.word)' /\ RX_ShiftReg' \in Words(LCR.wls) /\ RX_Parity' \in Bit
      BY <1>2, <2>1, <2>5, <3>1, <3>2, HasNext
    <3>4. RX_Bit_Cnt' = CountOf(k + 1)' /\ RX_Bit_Cnt' # 0 /\ Brk_Cnt' \in 0 .. RX_Bit_Cnt' - 1
      BY <1>1, <1>4, <1>5, <2>1, <2>5, <2>7, <3>1
    <3>5. Within(f, k, s + 1, d)'
      BY <1>5, <1>6, <2>5, <2>6, <3>1, <3>3, <3>4 DEF Within
    <3> QED
      BY <2>5, <2>6, <3>1, <3>3, <3>5
  <2>8. CASE k = LCR.wls + 1
    <3>1. RX_Bit_Cnt = LCR.wls + 1 /\ RX_Bit_Cnt > LCR.wls /\ (k = Last <=> ~LCR.pen) /\ RX_Bit_Cnt # 10
      BY <1>1, <1>4, <2>1, <2>8
    <3>2. WordEnd /\ (FrameEnd <=> ~LCR.pen) /\ UNCHANGED << RX_Parity, RX_ShiftReg >>
      BY <2>5, <3>1
    <3>3. RX_Bit_Cnt' = CountOf(k + 1)'
      BY <1>1, <1>4, <1>5, <2>5, <2>8, <3>1
    <3>4. Sampled = LCR.wls
      BY <1>1, <3>1 DEF Sampled
    <3>5. RX_ShiftReg = f.word
      <4>1. ASSUME NEW i \in 1..LCR.wls PROVE RX_ShiftReg[i] = f.word[i]
        BY <1>1, <2>1, <3>4 DEF Has
      <4> QED
        BY <1>2, <4>1, SameWords, Zenon
    <3>6. LCR.pen => (ParityWrong <=> ~f.good)
      <4>1. SUFFICES ASSUME LCR.pen PROVE ParityWrong <=> ~f.good
        OBVIOUS
      <4>2. RX_Filtered = IF f.good THEN GoodParity(f.word) ELSE 1 - GoodParity(f.word)
        BY <1>1, <2>1, <2>8, <3>1, <4>1 DEF b, BitAt
      <4>3. GoodParity(f.word) = IF LCR.sp THEN 1 - LCR.eps ELSE RX_Parity
        <5>1. RX_Parity = (1 - LCR.eps + OnesOf(f.word, LCR.wls)) % 2
          BY <2>1, <3>4 DEF Has
        <5> QED
          BY <1>2, <5>1, ParityOfWord
      <4>4. CASE LCR.sp
        <5>1. RX_Filtered = LCR.eps <=> ~f.good
          BY <1>1, <1>2, <4>2, <4>3, <4>4
        <5> QED
          BY <4>4, <5>1 DEF ParityWrong
      <4>5. CASE ~LCR.sp
        <5>1. RX_Filtered # RX_Parity <=> ~f.good
          BY <1>1, <1>2, <4>2, <4>3, <4>5
        <5> QED
          BY <4>5, <5>1 DEF ParityWrong
      <4> QED
        BY <4>4, <4>5
    <3>7. RX_ShiftReg' \in Words(LCR.wls) /\ RX_Parity' \in Bit
      BY <3>2
    <3>8. RX_Bit_Cnt' # 0 => Brk_Cnt' \in 0 .. RX_Bit_Cnt' - 1 /\ Has(f.word)'
      <4>1. SUFFICES ASSUME RX_Bit_Cnt' # 0 PROVE Brk_Cnt' \in 0 .. RX_Bit_Cnt' - 1 /\ Has(f.word)'
        OBVIOUS
      <4>2. RX_Bit_Cnt' = 10
        BY <2>5, <3>1, <4>1
      <4>3. Brk_Cnt' \in 0 .. RX_Bit_Cnt' - 1
        BY <1>1, <2>1, <2>5, <3>1, <4>2
      <4>4. RBR' = f.word
        BY <3>2, <3>5 DEF RxClock
      <4>5. Sampled' = LCR.wls
        BY <4>2 DEF Sampled
      <4>6. Has(f.word)'
        BY <2>1, <3>2, <3>4, <4>4, <4>5 DEF Has
      <4> QED
        BY <4>3, <4>6
    <3>9. RX_Bit_Cnt' = 0 => Brk_Cnt' = 0
      <4>1. SUFFICES ASSUME RX_Bit_Cnt' = 0 PROVE Brk_Cnt' = 0
        OBVIOUS
      <4>2. k = Last
        BY <2>5, <3>1, <4>1
      <4> QED
        BY <2>1, <2>2, <2>5, <4>2
    <3>10. Within(f, k, s + 1, d)'
      BY <1>5, <1>6, <2>5, <2>6, <3>3, <3>8, <3>9 DEF Within
    <3>11. RBR' = f.word
      BY <3>2, <3>5 DEF RxClock
    <3> QED
      BY <2>5, <2>6, <2>8, <3>1, <3>2, <3>5, <3>6, <3>7, <3>10, <3>11
  <2>9. CASE k > LCR.wls + 1
    <3>1. RX_Bit_Cnt = 10 /\ RX_Bit_Cnt > LCR.wls /\ k = Last /\ LCR.pen /\ k # LCR.wls + 1
      BY <1>1, <1>4, <2>1, <2>9
    <3>2. ~WordEnd /\ FrameEnd /\ RX_Bit_Cnt' = 0 /\ UNCHANGED << RX_Parity, RX_ShiftReg >>
      BY <2>5, <3>1
    <3>3. RX_Bit_Cnt' = CountOf(k + 1)' /\ Brk_Cnt' = 0
      BY <1>4, <1>5, <2>1, <2>2, <2>5, <3>1, <3>2
    <3>4. Within(f, k, s + 1, d)'
      BY <1>5, <1>6, <2>5, <2>6, <3>1, <3>2, <3>3 DEF Within
    <3>5. RBR' = f.word
      BY <2>1, <3>1, <3>2 DEF RxClock, Has
    <3> QED
      BY <2>5, <2>6, <3>1, <3>2, <3>4, <3>5
  <2> QED
    BY <1>1, <2>7, <2>8, <2>9
<1>11. CASE s + d >= 16 /\ k # Last
  <2>1. RX_Bit_Cnt = CountOf(k + 1) /\ Bit_Phase = s + d - 16 /\ RX_Bit_Cnt # 0 /\ Bit_Phase # 15
    BY <1>1, <1>4, <1>7, <1>11
  <2>2. /\ ~WordEnd /\ ~FrameEnd /\ Sound' /\ Bit_Phase' = Bit_Phase + 1
        /\ UNCHANGED << Brk_Cnt, RX_ShiftReg, RX_Bit_Cnt, RX_Parity >>
    BY <1>8, <2>1, RxWithin, Zenon
  <2>3. RBR' = RBR
    BY <2>2, Zenon DEF RxClock
  <2>4. Has(f.word)'
    BY <1>7, <2>1, <2>2, <2>3, HasStill
  <2>5. Bit_Phase' = (s + 1) + d - 16 /\ ~((s + 1) + d < 16) /\ s + d # 15
    BY <1>11, <2>1, <2>2
  <2>6. RX_Bit_Cnt' = CountOf(k + 1)' /\ RX_Bit_Cnt' # 0 /\ Brk_Cnt' \in 0 .. RX_Bit_Cnt' - 1
    BY <1>5, <1>7, <2>1, <2>2
  <2>7. Within(f, k, s + 1, d)'
    BY <1>5, <1>6, <1>11, <2>4, <2>5, <2>6 DEF Within
  <2> QED
    BY <2>2, <2>5, <2>7
<1>12. CASE s + d >= 16 /\ k = Last
  <2>1. RX_Bit_Cnt = 0 /\ Bit_Phase = 0 /\ Brk_Cnt = 0 /\ Bit_Phase \in 0..7 /\ Bit_Phase # 7
    BY <1>4, <1>7, <1>12
  <2>2. b = 1 /\ RX_Filtered = 1
    <3>1. b = 1
      BY <1>1, <1>4, <1>12 DEF b, BitAt
    <3> QED
      BY <1>3, <1>12, <3>1
  <2>3. /\ ~WordEnd /\ ~FrameEnd /\ Sound' /\ UNCHANGED << Brk_Cnt, RX_ShiftReg >>
        /\ Bit_Phase # 7 => /\ RX_Bit_Cnt' = 0 /\ RX_Parity' = RX_Parity
                            /\ Bit_Phase' = IF RX_Filtered = 1 THEN 0 ELSE Bit_Phase + 1
    BY <1>8, <2>1, RxQuiet, Zenon
  <2>4. RX_Bit_Cnt' = CountOf(k + 1)' /\ Bit_Phase' = 0 /\ RX_Bit_Cnt' = 0 /\ Brk_Cnt' = 0
    BY <1>4, <1>5, <1>12, <2>1, <2>2, <2>3
  <2>5. ~((s + 1) + d < 16) /\ s + d # 15
    BY <1>12
  <2>6. Within(f, k, s + 1, d)'
    BY <1>5, <1>6, <1>12, <2>4, <2>5 DEF Within
  <2> QED
    BY <2>1, <2>3, <2>5, <2>6
<1> QED
  BY <1>9, <1>10, <1>11, <1>12
-------------------------------------------------------------------------------
(***************************************************************************)
(* What the receiver is in the middle of when the line goes on to the next  *)
(* bit, s' = 0.                                                             *)
(***************************************************************************)
\* From the start bit to the first bit of the word, ...
LEMMA StartIsOver ==
  ASSUME LCR \in Formats, UNCHANGED LCR, NEW f \in Frames, NEW n \in 11..23, Low(n)'
  PROVE  \E d \in 1..13 : Within(f, 1, 0, d)'
<1>1. /\ LCR'.wls \in 5..8 /\ LCR'.eps \in 0..1 /\ Last' \in 6..10 /\ n - 10 \in 1..13 /\ LCR.wls = LCR'.wls
  <2>1. LCR' = LCR /\ Last' = Last
    BY DEF Last
  <2> QED
    BY <2>1, LastType
<1>2. /\ RX_Bit_Cnt' = 1 /\ Bit_Phase' = n - 10 /\ RX_Parity' = 1 - LCR'.eps /\ Brk_Cnt' = 0
      /\ Samples' \in Bit \X Bit /\ RX_Filtered' \in Bit
      /\ Samples'[1] = Samples'[2] => RX_Filtered' = Samples'[1]
  BY DEF Low, FilterAt
<1>3. FilterAt(BitAt(f, 1), 0)'
  BY <1>2 DEF FilterAt
<1>4. Has(f.word)'
  <2>1. Sampled' = 0 /\ RX_Bit_Cnt' # 10
    BY <1>2 DEF Sampled
  <2>2. OnesOf(f.word, 0) = 0 /\ RX_Parity' = (1 - LCR'.eps + 0) % 2
    BY <1>1, <1>2, OnesNone
  <2> QED
    BY <1>1, <2>1, <2>2 DEF Has
<1>5. CountOf(1)' = 1
  BY <1>1 DEF CountOf
<1>6. Within(f, 1, 0, n - 10)'
  BY <1>1, <1>2, <1>3, <1>4, <1>5 DEF Within
<1> QED
  BY <1>1, <1>6

\* ... from one bit of a frame to the next, ...
LEMMA BitIsOver ==
  ASSUME LCR \in Formats, UNCHANGED LCR, NEW f, NEW k \in 1 .. Last - 1, NEW d \in 1..13,
         Within(f, k, 16, d)'
  PROVE  Within(f, k + 1, 0, d)' /\ RX_Bit_Cnt' # 0
<1>1. Last' = Last /\ k # Last /\ k \in 1..Last
  <2>1. Last \in 6..10
    BY LastType
  <2> QED
    BY <2>1 DEF Last
<1>2. CountOf(k + 1)' # 0
  <2>1. CountOf(k + 1)' = CountOf(k + 1)
    BY <1>1 DEF CountOf
  <2>2. LCR.wls \in 5..8 /\ CountOf(k + 1) = IF k <= LCR.wls THEN k + 1 ELSE 10
    BY <1>1, CountType, LastType
  <2> QED
    BY <2>1, <2>2
<1>3. /\ FilterAt(BitAt(f, k), 16)' /\ RX_Bit_Cnt' = CountOf(k + 1)' /\ Bit_Phase' = d
      /\ IF RX_Bit_Cnt' = 0 THEN Brk_Cnt' = 0 ELSE Brk_Cnt' \in 0 .. RX_Bit_Cnt' - 1 /\ Has(f.word)'
  BY <1>1 DEF Within
<1>4. FilterAt(BitAt(f, k + 1), 0)'
  BY <1>3 DEF FilterAt
<1> QED
  BY <1>2, <1>3, <1>4 DEF Within

\* ... from noise or a frame to the idle line, ...
LEMMA NoiseIsOver ==
  ASSUME NEW n \in 1..6, Low(n)'
  PROVE  Quiet(0)'
<1>1. RX_Bit_Cnt' = 0 /\ Bit_Phase' = (IF n < 2 THEN 0 ELSE n - 2) /\ Brk_Cnt' = 0
  BY DEF Low
<1>2. FilterAt(1, 0)'
  BY DEF Low, FilterAt
<1> QED
  BY <1>1, <1>2 DEF Quiet

\* ... and from the idle line or a frame to a low level.
LEMMA QuietIsOver ==
  ASSUME Quiet(16)'
  PROVE  Low(0)' /\ Quiet(15)'
<1>1. RX_Bit_Cnt' = 0 /\ Bit_Phase' = 0 /\ Brk_Cnt' = 0
  BY DEF Quiet
<1>2. FilterAt(0, 0)' /\ FilterAt(1, 15)' /\ Samples'[1] = 1 /\ Samples'[2] = 1
  BY DEF Quiet, FilterAt
<1> QED
  BY <1>1, <1>2 DEF Low, Quiet

LEMMA FrameIsOver ==
  ASSUME LCR \in Formats, UNCHANGED LCR, NEW f, NEW k, k = Last, NEW d \in 1..13,
         Within(f, k, 16, d)'
  PROVE  Low(0)' /\ Within(f, k, 15, d)' /\ RX_Bit_Cnt' = 0
<1>1. Last' = k /\ Last \in 6..10 /\ LCR'.wls = LCR.wls /\ LCR.wls \in 5..8 /\ Last > LCR.wls
  BY LastType DEF Last
<1>2. BitAt(f, k)' = 1 /\ CountOf(k + 1)' = 0
  BY <1>1 DEF BitAt, CountOf
<1>3. /\ FilterAt(BitAt(f, k), 16)' /\ RX_Bit_Cnt' = 0 /\ Bit_Phase' = 0 /\ Brk_Cnt' = 0
  BY <1>1, <1>2 DEF Within
<1>4. /\ FilterAt(0, 0)' /\ Samples'[1] = 1 /\ Samples'[2] = 1 /\ FilterAt(BitAt(f, k), 15)'
  BY <1>2, <1>3 DEF FilterAt
<1>5. Within(f, k, 15, d)'
  BY <1>1, <1>2, <1>3, <1>4 DEF Within
<1> QED
  BY <1>3, <1>4, <1>5 DEF Low

(***************************************************************************)
(* The bits that the peer sends.                                            *)
(***************************************************************************)
LEMMA SendingStill ==
  ASSUME UNCHANGED << LCR, line, todo >>, NEW f, NEW k, Sending(f, k)
  PROVE  Sending(f, k)'
<1>1. Last' = Last /\ Frames' = Frames /\ \A j : BitAt(f, j)' = BitAt(f, j)
  BY DEF Last, Frames, BitAt, GoodParity
<1> QED
  BY <1>1 DEF Sending

LEMMA NextSending ==
  ASSUME LCR \in Formats, UNCHANGED LCR, NEW f, NEW k, Sending(f, k), todo # << >>,
         line' = Head(todo), todo' = Tail(todo)
  PROVE  k \in 0 .. Last - 1 /\ Sending(f, k + 1)'
<1>1. Last \in 6..10 /\ k \in 0..Last /\ todo \in Seq(Bit) /\ Len(todo) = Last - k
  BY LastType DEF Sending
<1>2. k \in 0 .. Last - 1
  <2>1. Len(todo) # 0
    BY <1>1, EmptySeq
  <2> QED
    BY <1>1, <2>1
<1>3. Last' = Last /\ Frames' = Frames /\ \A j : BitAt(f, j)' = BitAt(f, j)
  BY DEF Last, Frames, BitAt, GoodParity
<1>4. /\ todo' \in Seq(Bit) /\ Len(todo') = Last - (k + 1) /\ line' = todo[1]
      /\ \A i \in 1 .. Last - (k + 1) : todo'[i] = todo[i + 1]
  BY <1>1, <1>2, HeadTailProperties
<1>5. line' = BitAt(f, k + 1)
  <2>1. 1 \in 1 .. Last - k
    BY <1>1, <1>2
  <2> QED
    BY <1>4, <2>1 DEF Sending
<1>6. ASSUME NEW i \in 1 .. Last - (k + 1) PROVE todo'[i] = BitAt(f, (k + 1) + i)
  <2>1. i + 1 \in 1 .. Last - k /\ k + (i + 1) = (k + 1) + i
    BY <1>1, <1>2
  <2>2. todo[i + 1] = BitAt(f, k + (i + 1))
    BY <2>1 DEF Sending
  <2> QED
    BY <1>4, <2>1, <2>2
<1>7. f \in Frames /\ k + 1 \in 0..Last
  BY <1>1, <1>2 DEF Sending
<1> QED
  BY <1>2, <1>3, <1>4, <1>5, <1>6, <1>7 DEF Sending

LEMMA FirstSending ==
  ASSUME LCR \in Formats, UNCHANGED LCR, NEW f \in Frames, todo' = Bits(f), line' = 0
  PROVE  Sending(f, 0)'
<1>1. Last' = Last /\ Frames' = Frames /\ \A j : BitAt(f, j)' = BitAt(f, j)
  BY DEF Last, Frames, BitAt, GoodParity
<1>2. Bits(f) \in Seq(Bit) /\ Len(Bits(f)) = Last /\ \A k \in 1..Last : Bits(f)[k] = BitAt(f, k)
  BY BitsOfFrame
<1>3. Last \in 6..10 /\ BitAt(f, 0) = 0
  BY LastType DEF BitAt
<1> QED
  BY <1>1, <1>2, <1>3 DEF Sending
-------------------------------------------------------------------------------
(***************************************************************************)
(* A clock: what is on the line stays what it is, or becomes the next.      *)
(***************************************************************************)
\* What the receiver moves to its registers is the frame on the line.
Told ==
  /\ WordEnd \/ FrameEnd => frame \in Frames
  /\ FrameEnd => RBR' = frame.word
  /\ WordEnd /\ LCR.pen => (ParityWrong <=> ~frame.good)

Kept == Sound' /\ RX_ShiftReg' \in Words(LCR.wls) /\ RX_Parity' \in Bit /\ Told

LEMMA FrameBegins ==
  ASSUME Tolerated, LCR \in Formats, UNCHANGED LCR, BeginFrame, Low(0)', heard' = 0
  PROVE  StartBit'
<1>1. PICK f \in Frames : frame' = f /\ todo' = Bits(f)
  BY DEF BeginFrame
<1>2. line' = 0 /\ left' \in 11..23
  BY DEF BeginFrame, Tolerated
<1>3. Sending(f, 0)'
  BY <1>1, <1>2, FirstSending
<1>4. 0 \in 0..22 /\ left' \in 1 .. 23 - 0 /\ 0 + left' >= 11
  <2>1. PICK n \in 11..23 : left' = n
    BY <1>2
  <2>2. n \in 1 .. 23 - 0 /\ 0 + n >= 11
    OBVIOUS
  <2> QED
    BY <2>1, <2>2
<1>5. f \in {frame'}
  BY <1>1
<1> QED
  BY <1>3, <1>4, <1>5, Zenon DEF StartBit

LEMMA NoiseBegins ==
  ASSUME Tolerated, Glitch, Low(0)', heard' = 0
  PROVE  Noise'
<1>1. frame' = Silence /\ line' = 0 /\ todo' = << 1 >>
  BY DEF Glitch, Silence
<1>2. 0 \in 0..5 /\ left' \in 1 .. 6 - 0
  BY PeerAssumption DEF Glitch, Tolerated
<1>3. Silence' = Silence
  BY DEF Silence
<1> QED
  BY <1>1, <1>2, <1>3, Zenon DEF Noise

\* What a clock with an enable is made of.
LEMMA Enabled1 ==
  ASSUME BaudOut, NEW register, NextPeer(register)
  PROVE  /\ LCR' = LCR /\ Silence' = Silence
         /\ RxClock(line, register = "RBR", register = "LSR")
         /\ HoldBit \/ NextBit \/ BeginFrame \/ Glitch \/ StayIdle
         /\ heard' = IF left = 1 /\ todo = << >> /\ line' = 0 THEN 0
                     ELSE heard + (IF FrameEnd THEN 1 ELSE 0)
<1>1. LCR' = LCR /\ Silence' = Silence /\ RxClock(line, register = "RBR", register = "LSR")
  BY DEF NextPeer, BaudGenerator, Silence
<1>2. HoldBit \/ NextBit \/ BeginFrame \/ Glitch \/ StayIdle
  BY DEF NextPeer, Peer
<1>3. heard' = IF left = 1 /\ todo = << >> /\ line' = 0 THEN 0
               ELSE heard + (IF FrameEnd THEN 1 ELSE 0)
  BY Zenon DEF NextPeer, Record
<1> QED
  BY <1>1, <1>2, <1>3

LEMMA IdleNext ==
  ASSUME Tolerated, Recorded, Idle, BaudOut, NEW register, NextPeer(register)
  PROVE  OnTheLine' /\ Kept
<1>1. PICK s \in 0..15 : left = 16 - s /\ Quiet(s)
  BY DEF Idle
<1>2. /\ LCR' = LCR /\ Silence' = Silence
      /\ RxClock(line, register = "RBR", register = "LSR")
      /\ HoldBit \/ NextBit \/ BeginFrame \/ Glitch \/ StayIdle
      /\ heard' = IF left = 1 /\ todo = << >> /\ line' = 0 THEN 0
                  ELSE heard + (IF FrameEnd THEN 1 ELSE 0)
  BY Enabled1
<1>3. /\ Quiet(s + 1)' /\ ~WordEnd /\ ~FrameEnd /\ Sound'
      /\ UNCHANGED << RX_ShiftReg, RX_Parity >>
  BY <1>1, <1>2, QuietStep DEF Idle, Recorded
<1>4. Kept
  BY <1>3 DEF Kept, Told, Recorded
<1>5. frame = Silence /\ todo = << >> /\ line = 1 /\ heard = 0
  BY DEF Idle
<1>6. CASE HoldBit
  <2>1. /\ s + 1 \in 0..15 /\ left' = 16 - (s + 1) /\ heard' = 0
        /\ frame' = Silence' /\ todo' = << >> /\ line' = 1
    BY <1>1, <1>2, <1>3, <1>5, <1>6 DEF HoldBit
  <2>2. Idle'
    BY <1>3, <2>1, Zenon DEF Idle
  <2> QED
    BY <1>4, <2>2 DEF OnTheLine
<1>7. CASE NextBit
  BY <1>5, <1>7 DEF NextBit
<1>8. CASE left = 1
  <2>1. s + 1 = 16
    BY <1>1, <1>8
  <2>2. Low(0)' /\ Quiet(15)'
    BY <1>3, <2>1, QuietIsOver
  <2>3. CASE BeginFrame
    <3>1. heard' = 0
      BY <1>2, <1>5, <1>8, <2>3 DEF BeginFrame
    <3>2. StartBit'
      BY <1>2, <2>2, <2>3, <3>1, FrameBegins DEF Recorded
    <3> QED
      BY <1>4, <3>2 DEF OnTheLine
  <2>4. CASE Glitch
    <3>1. heard' = 0
      BY <1>2, <1>5, <1>8, <2>4 DEF Glitch
    <3>2. Noise'
      BY <2>2, <2>4, <3>1, NoiseBegins
    <3> QED
      BY <1>4, <3>2 DEF OnTheLine
  <2>5. CASE StayIdle
    <3>1. /\ 15 \in 0..15 /\ left' = 16 - 15 /\ heard' = 0
          /\ frame' = Silence' /\ todo' = << >> /\ line' = 1
      BY <1>2, <1>3, <1>5, <1>8, <2>5 DEF StayIdle, peerVars
    <3>2. Idle'
      BY <2>2, <3>1, Zenon DEF Idle
    <3> QED
      BY <1>4, <3>2 DEF OnTheLine
  <2> QED
    BY <1>2, <1>6, <1>7, <2>3, <2>4, <2>5
<1> QED
  BY <1>2, <1>6, <1>7, <1>8 DEF BeginFrame, Glitch, StayIdle

LEMMA NoiseNext ==
  ASSUME Tolerated, Recorded, Noise, BaudOut, NEW register, NextPeer(register)
  PROVE  OnTheLine' /\ Kept
<1>1. PICK s \in 0..5 : left \in 1 .. 6 - s /\ Low(s)
  BY DEF Noise
<1>2. /\ LCR' = LCR /\ Silence' = Silence
      /\ RxClock(line, register = "RBR", register = "LSR")
      /\ HoldBit \/ NextBit \/ BeginFrame \/ Glitch \/ StayIdle
      /\ heard' = IF left = 1 /\ todo = << >> /\ line' = 0 THEN 0
                  ELSE heard + (IF FrameEnd THEN 1 ELSE 0)
  BY Enabled1
<1>3. /\ Low(s + 1)' /\ ~WordEnd /\ ~FrameEnd /\ Sound' /\ UNCHANGED RX_ShiftReg
      /\ RX_Parity' \in Bit
  <2>1. s \in 0..22 /\ line = 0
    BY DEF Noise
  <2> QED
    BY <1>1, <1>2, <2>1, LowStep DEF Recorded
<1>4. Kept
  BY <1>3 DEF Kept, Told, Recorded
<1>5. /\ frame = Silence /\ todo = << 1 >> /\ line = 0 /\ heard = 0
      /\ todo # << >> /\ Head(todo) = 1 /\ Tail(todo) = << >>
  BY DEF Noise
<1>6. CASE HoldBit
  <2>1. /\ s + 1 \in 0..5 /\ left' \in 1 .. 6 - (s + 1) /\ heard' = 0
        /\ frame' = Silence' /\ todo' = << 1 >> /\ line' = 0
    BY <1>1, <1>2, <1>3, <1>5, <1>6 DEF HoldBit
  <2>2. Noise'
    BY <1>3, <2>1, Zenon DEF Noise
  <2> QED
    BY <1>4, <2>2 DEF OnTheLine
<1>7. CASE NextBit
  <2>1. s + 1 \in 1..6
    BY <1>1
  <2>2. Quiet(0)'
    BY <1>3, <2>1, NoiseIsOver
  <2>3. /\ 0 \in 0..15 /\ left' = 16 - 0 /\ heard' = 0
        /\ frame' = Silence' /\ todo' = << >> /\ line' = 1
    BY <1>2, <1>3, <1>5, <1>7 DEF NextBit
  <2>4. Idle'
    BY <2>2, <2>3, Zenon DEF Idle
  <2> QED
    BY <1>4, <2>4 DEF OnTheLine
<1> QED
  BY <1>2, <1>5, <1>6, <1>7 DEF BeginFrame, Glitch, StayIdle

LEMMA StartNext ==
  ASSUME Tolerated, Recorded, StartBit, BaudOut, NEW register, NextPeer(register)
  PROVE  OnTheLine' /\ Kept
<1>1. PICK f \in {frame}, s \in 0..22 :
        Sending(f, 0) /\ left \in 1 .. 23 - s /\ s + left >= 11 /\ Low(s)
  BY Zenon DEF StartBit
<1>2. /\ LCR' = LCR /\ Silence' = Silence
      /\ RxClock(line, register = "RBR", register = "LSR")
      /\ HoldBit \/ NextBit \/ BeginFrame \/ Glitch \/ StayIdle
      /\ heard' = IF left = 1 /\ todo = << >> /\ line' = 0 THEN 0
                  ELSE heard + (IF FrameEnd THEN 1 ELSE 0)
  BY Enabled1
<1>3. LCR \in Formats /\ f \in Frames /\ todo \in Seq(Bit) /\ todo # << >> /\ line = 0 /\ heard = 0
  <2>1. LCR \in Formats /\ Last \in 6..10 /\ heard = 0
    BY LastType DEF Recorded, StartBit
  <2>2. f \in Frames /\ line = BitAt(f, 0) /\ todo \in Seq(Bit) /\ Len(todo) = Last - 0
    BY <1>1 DEF Sending
  <2>3. BitAt(f, 0) = 0
    BY DEF BitAt
  <2>4. Len(todo) # 0
    BY <2>1, <2>2
  <2> QED
    BY <2>1, <2>2, <2>3, <2>4
<1>4. /\ Low(s + 1)' /\ ~WordEnd /\ ~FrameEnd /\ Sound' /\ UNCHANGED RX_ShiftReg
      /\ RX_Parity' \in Bit
  BY <1>1, <1>2, <1>3, LowStep DEF Recorded
<1>5. Kept
  BY <1>4 DEF Kept, Told, Recorded
<1>6. CASE HoldBit
  <2>1. /\ s + 1 \in 0..22 /\ left' \in 1 .. 23 - (s + 1) /\ (s + 1) + left' >= 11 /\ heard' = 0
        /\ f \in {frame'}
    BY <1>1, <1>2, <1>3, <1>4, <1>6 DEF HoldBit
  <2>2. Sending(f, 0)'
    BY <1>1, <1>2, <1>6, SendingStill DEF HoldBit
  <2>3. StartBit'
    BY <1>4, <2>1, <2>2, Zenon DEF StartBit
  <2> QED
    BY <1>5, <2>3 DEF OnTheLine
<1>7. CASE NextBit
  <2>1. s + 1 \in 11..23
    BY <1>1, <1>7 DEF NextBit
  <2>2. PICK d \in 1..13 : Within(f, 1, 0, d)'
    BY <1>2, <1>3, <1>4, <2>1, StartIsOver
  <2>3. Sending(f, 1)'
    <3>1. Sending(f, 0 + 1)'
      BY <1>1, <1>2, <1>3, <1>7, NextSending, Zenon DEF NextBit
    <3>2. 0 + 1 = 1
      OBVIOUS
    <3> QED
      BY <3>1, <3>2
  <2>4. RX_Bit_Cnt' = 1
    BY <1>4, <2>1 DEF Low
  <2>5. /\ 1 \in 1..10 /\ 0 \in 0..15 /\ left' = 16 - 0 /\ f \in {frame'}
        /\ heard' = IF RX_Bit_Cnt' = 0 THEN 1 ELSE 0
    BY <1>1, <1>2, <1>3, <1>4, <1>7, <2>4 DEF NextBit
  <2>6. LaterBit'
    BY <2>2, <2>3, <2>5, Zenon DEF LaterBit
  <2> QED
    BY <1>5, <2>6 DEF OnTheLine
<1> QED
  BY <1>2, <1>3, <1>6, <1>7 DEF BeginFrame, Glitch, StayIdle

\* The receiver has completed a frame when it is past the middle of the stop bit.
LEMMA WithinCount ==
  ASSUME LCR \in Formats, NEW f, NEW k \in 1..Last, NEW s \in 0..16, NEW d \in 1..13
  PROVE  /\ Within(f, k, s, d) => (RX_Bit_Cnt = 0 <=> k = Last /\ s + d >= 16)
         /\ LCR' = LCR /\ Within(f, k, s, d)' => (RX_Bit_Cnt' = 0 <=> k = Last /\ s + d >= 16)
<1>1. /\ CountOf(k) # 0 /\ (k = Last => CountOf(k + 1) = 0) /\ (k # Last => CountOf(k + 1) # 0)
  <2>1. LCR.wls \in 5..8 /\ Last \in 6..10
    BY LastType
  <2> QED
    BY <2>1, CountType
<1>2. Within(f, k, s, d) => RX_Bit_Cnt = IF s + d < 16 THEN CountOf(k) ELSE CountOf(k + 1)
  BY DEF Within
<1>3. LCR' = LCR /\ Within(f, k, s, d)' =>
        RX_Bit_Cnt' = IF s + d < 16 THEN CountOf(k) ELSE CountOf(k + 1)
  <2>1. LCR' = LCR => CountOf(k)' = CountOf(k) /\ CountOf(k + 1)' = CountOf(k + 1)
    BY DEF CountOf, Last
  <2>2. Within(f, k, s, d)' => RX_Bit_Cnt' = IF s + d < 16 THEN CountOf(k)' ELSE CountOf(k + 1)'
    BY DEF Within
  <2> QED
    BY <2>1, <2>2
<1> QED
  BY <1>1, <1>2, <1>3

\* The registers keep to their widths wherever the receiver is.
LEMMA Widths ==
  ASSUME LCR \in Formats, OnTheLine
  PROVE  /\ Samples \in Bit \X Bit /\ RX_Filtered \in Bit /\ Bit_Phase \in 0..15 /\ Brk_Cnt \in 0..15
         /\ Samples[1] = Samples[2] => RX_Filtered = Samples[1]
         /\ RX_Bit_Cnt \in 0 .. LCR.wls + 1 \/ (RX_Bit_Cnt = 10 /\ LCR.pen)
         /\ heard \in 0..1
<1> DEFINE Fits ==
      /\ Samples \in Bit \X Bit /\ RX_Filtered \in Bit /\ Bit_Phase \in 0..15 /\ Brk_Cnt \in 0..15
      /\ Samples[1] = Samples[2] => RX_Filtered = Samples[1]
      /\ RX_Bit_Cnt \in 0 .. LCR.wls + 1 \/ (RX_Bit_Cnt = 10 /\ LCR.pen)
<1>1. LCR.wls \in 5..8 /\ LCR.pen \in BOOLEAN
  BY LastType
<1>2. ASSUME NEW s \in 0..15, Quiet(s) PROVE Fits
  BY <1>1, <1>2 DEF Quiet, FilterAt
<1>3. ASSUME NEW s \in 0..22, Low(s) PROVE Fits
  BY <1>1, <1>3 DEF Low, FilterAt
<1>4. ASSUME NEW f, NEW k, NEW s \in 0..15, NEW d \in 1..13, Sending(f, k), k \in 1..10, Within(f, k, s, d)
      PROVE  Fits
  <2>1. k \in 1..Last
    BY <1>1, <1>4, LastType DEF Sending
  <2>2. /\ CountOf(k) \in 1 .. LCR.wls + 1 \/ (CountOf(k) = 10 /\ LCR.pen)
        /\ CountOf(k + 1) \in 0 .. LCR.wls + 1 \/ (CountOf(k + 1) = 10 /\ LCR.pen)
    <3>1. /\ CountOf(k) \in 1..10 /\ CountOf(k) = IF k <= LCR.wls + 1 THEN k ELSE 10
          /\ CountOf(k) = 10 => LCR.pen /\ k = Last
          /\ k = Last => CountOf(k + 1) = 0
          /\ k # Last => CountOf(k + 1) = IF k <= LCR.wls THEN k + 1 ELSE 10
          /\ k = LCR.wls + 1 => (k = Last <=> ~LCR.pen)
          /\ k > LCR.wls + 1 => LCR.pen /\ k = Last
      BY <2>1, CountType
    <3>2. k # Last /\ k > LCR.wls => LCR.pen
      <4>1. k > LCR.wls => k = LCR.wls + 1 \/ k > LCR.wls + 1
        BY <1>1, <1>4
      <4> QED
        BY <3>1, <4>1, Zenon
    <3>3. CASE LCR.pen
      BY <1>1, <1>4, <3>1, <3>3
    <3>4. CASE ~LCR.pen
      BY <1>1, <1>4, <3>1, <3>2, <3>4
    <3> QED
      BY <3>3, <3>4
  <2>3. Bit_Phase \in 0..15 /\ (RX_Bit_Cnt = CountOf(k) \/ RX_Bit_Cnt = CountOf(k + 1))
    BY <1>4 DEF Within
  <2>4. Brk_Cnt \in 0..15
    <3>1. RX_Bit_Cnt \in 0..10
      BY <1>1, <2>2, <2>3
    <3> QED
      BY <1>4, <3>1 DEF Within
  <2>5. /\ Samples \in Bit \X Bit /\ RX_Filtered \in Bit
        /\ Samples[1] = Samples[2] => RX_Filtered = Samples[1]
    BY <1>4 DEF Within, FilterAt
  <2> QED
    BY <2>2, <2>3, <2>4, <2>5
<1>5. Idle => Fits /\ heard \in 0..1
  BY <1>2 DEF Idle
<1>6. Noise => Fits /\ heard \in 0..1
  <2>1. 0..5 \subseteq 0..22
    OBVIOUS
  <2> QED
    BY <1>3, <2>1 DEF Noise
<1>7. StartBit => Fits /\ heard \in 0..1
  BY <1>3 DEF StartBit
<1>8. LaterBit => Fits /\ heard \in 0..1
  <2>1. LaterBit => Fits
    BY <1>4, Zenon DEF LaterBit
  <2>2. LaterBit => heard \in 0..1
    BY DEF LaterBit
  <2> QED
    BY <2>1, <2>2
<1> HIDE DEF Fits
<1>9. Fits /\ heard \in 0..1
  BY <1>5, <1>6, <1>7, <1>8 DEF OnTheLine
<1> QED
  BY <1>9 DEF Fits

LEMMA LaterNext ==
  ASSUME Tolerated, Recorded, LaterBit, BaudOut, NEW register, NextPeer(register)
  PROVE  OnTheLine' /\ Kept
<1>1. PICK f \in {frame}, k \in 1..10, s \in 0..15, d \in 1..13 :
        Sending(f, k) /\ left = 16 - s /\ Within(f, k, s, d)
  BY Zenon DEF LaterBit
<1>2. /\ LCR' = LCR /\ Silence' = Silence
      /\ RxClock(line, register = "RBR", register = "LSR")
      /\ HoldBit \/ NextBit \/ BeginFrame \/ Glitch \/ StayIdle
      /\ heard' = IF left = 1 /\ todo = << >> /\ line' = 0 THEN 0
                  ELSE heard + (IF FrameEnd THEN 1 ELSE 0)
  BY Enabled1
<1>3. /\ LCR \in Formats /\ f \in Frames /\ frame = f /\ k \in 1..Last /\ Last \in 6..10 /\ line = BitAt(f, k)
      /\ todo \in Seq(Bit) /\ Len(todo) = Last - k
  BY <1>1, LastType DEF Sending, Recorded
<1>4. /\ Within(f, k, s + 1, d)' /\ Sound'
      /\ RX_ShiftReg' \in Words(LCR.wls) /\ RX_Parity' \in Bit
      /\ FrameEnd <=> k = Last /\ s + d = 15
      /\ WordEnd <=> k = LCR.wls + 1 /\ s + d = 15
      /\ WordEnd => RX_ShiftReg = f.word
      /\ FrameEnd => RBR' = f.word
      /\ WordEnd /\ LCR.pen => (ParityWrong <=> ~f.good)
  BY <1>1, <1>2, <1>3, WithinStep DEF Recorded
<1>5. Kept
  BY <1>3, <1>4 DEF Kept, Told, Recorded
<1>6. /\ RX_Bit_Cnt = 0 <=> k = Last /\ s + d >= 16
      /\ RX_Bit_Cnt' = 0 <=> k = Last /\ (s + 1) + d >= 16
      /\ heard = IF RX_Bit_Cnt = 0 THEN 1 ELSE 0
  <2>1. s \in 0..16 /\ s + 1 \in 0..16
    OBVIOUS
  <2>2. RX_Bit_Cnt = 0 <=> k = Last /\ s + d >= 16
    BY <1>1, <1>3, <2>1, WithinCount
  <2>3. RX_Bit_Cnt' = 0 <=> k = Last /\ (s + 1) + d >= 16
    BY <1>2, <1>3, <1>4, <2>1, WithinCount
  <2> QED
    BY <2>2, <2>3 DEF LaterBit
<1>7. CASE HoldBit
  <2>1. left > 1 /\ left' = left - 1 /\ line' = line /\ todo' = todo /\ frame' = frame
    BY <1>7 DEF HoldBit
  <2>2. s + 1 \in 0..15 /\ left' = 16 - (s + 1) /\ f \in {frame'}
    BY <1>1, <1>3, <2>1
  <2>3. heard' = IF RX_Bit_Cnt' = 0 THEN 1 ELSE 0
    <3>1. heard' = heard + (IF FrameEnd THEN 1 ELSE 0)
      BY <1>2, <2>1
    <3>2. FrameEnd => heard = 0 /\ RX_Bit_Cnt' = 0
      BY <1>4, <1>6
    <3>3. ~FrameEnd => (RX_Bit_Cnt' = 0 <=> RX_Bit_Cnt = 0)
      BY <1>4, <1>6
    <3>4. CASE FrameEnd
      BY <3>1, <3>2, <3>4
    <3>5. CASE ~FrameEnd
      BY <1>6, <3>1, <3>3, <3>5
    <3> QED
      BY <3>4, <3>5
  <2>4. Sending(f, k)'
    BY <1>1, <1>2, <2>1, SendingStill
  <2>5. LaterBit'
    BY <1>4, <2>2, <2>3, <2>4, Zenon DEF LaterBit
  <2> QED
    BY <1>5, <2>5 DEF OnTheLine
<1>8. CASE left = 1
  <2>1. s = 15 /\ s + 1 = 16 /\ ~FrameEnd
    BY <1>1, <1>4, <1>8
  <2>2. Within(f, k, 16, d)'
    BY <1>4, <2>1
  <2>3. CASE NextBit
    <3>1. /\ todo # << >> /\ line' = Head(todo) /\ todo' = Tail(todo) /\ left' = 16 /\ frame' = frame
      BY <2>3 DEF NextBit
    <3>2. k \in 0 .. Last - 1 /\ Sending(f, k + 1)'
      BY <1>1, <1>2, <1>3, <3>1, NextSending
    <3>3. k \in 1 .. Last - 1 /\ k + 1 \in 1..10 /\ k # Last
      BY <1>3, <3>2
    <3>4. Within(f, k + 1, 0, d)' /\ RX_Bit_Cnt' # 0
      BY <1>2, <1>3, <2>2, <3>3, BitIsOver
    <3>5. heard' = IF RX_Bit_Cnt' = 0 THEN 1 ELSE 0
      BY <1>2, <1>6, <2>1, <3>1, <3>3, <3>4
    <3>6. 0 \in 0..15 /\ left' = 16 - 0 /\ f \in {frame'}
      BY <1>3, <3>1
    <3>7. LaterBit'
      BY <3>2, <3>3, <3>4, <3>5, <3>6, Zenon DEF LaterBit
    <3> QED
      BY <1>5, <3>7 DEF OnTheLine
  <2>4. CASE todo = << >>
    <3>1. k = Last
      BY <1>3, <2>4
    <3>2. Low(0)' /\ Within(f, k, 15, d)' /\ RX_Bit_Cnt' = 0
      BY <1>2, <1>3, <2>2, <3>1, FrameIsOver
    <3>3. CASE BeginFrame
      <4>1. heard' = 0
        BY <1>2, <1>8, <2>4, <3>3 DEF BeginFrame
      <4>2. StartBit'
        BY <1>2, <1>3, <3>2, <3>3, <4>1, FrameBegins
      <4> QED
        BY <1>5, <4>2 DEF OnTheLine
    <3>4. CASE Glitch
      <4>1. heard' = 0
        BY <1>2, <1>8, <2>4, <3>4 DEF Glitch
      <4>2. Noise'
        BY <3>2, <3>4, <4>1, NoiseBegins
      <4> QED
        BY <1>5, <4>2 DEF OnTheLine
    <3>5. CASE StayIdle
      <4>1. left' = left /\ line' = line /\ todo' = todo /\ frame' = frame
        BY <3>5 DEF StayIdle, peerVars
      <4>2. line = 1
        BY <1>3, <3>1, LastType DEF BitAt, Last
      <4>3. heard' = IF RX_Bit_Cnt' = 0 THEN 1 ELSE 0
        <5>1. heard = 1
          BY <1>6, <2>1, <3>1
        <5>2. heard' = heard + 0
          BY <1>2, <2>1, <4>1, <4>2
        <5> QED
          BY <3>2, <5>1, <5>2
      <4>4. 15 \in 0..15 /\ left' = 16 - 15 /\ f \in {frame'}
        BY <1>3, <1>8, <4>1
      <4>5. Sending(f, k)'
        BY <1>1, <1>2, <4>1, SendingStill
      <4>6. LaterBit'
        BY <3>2, <4>3, <4>4, <4>5, Zenon DEF LaterBit
      <4> QED
        BY <1>5, <4>6 DEF OnTheLine
    <3> QED
      BY <1>2, <1>7, <2>3, <2>4, <3>3, <3>4, <3>5
  <2> QED
    BY <1>2, <1>7, <2>3, <2>4 DEF BeginFrame, Glitch, StayIdle
<1> QED
  BY <1>2, <1>7, <1>8 DEF NextBit, BeginFrame, Glitch, StayIdle

\* Nothing moves between enables.
LEMMA NothingMoves ==
  ASSUME OnTheLine,
         UNCHANGED << LCR, line, left, todo, frame, heard, Samples, RX_Filtered, Bit_Phase, Brk_Cnt,
                      RX_Bit_Cnt, RX_ShiftReg, RX_Parity, RBR >>
  PROVE  OnTheLine'
<1>1. Silence' = Silence /\ Last' = Last /\ Frames' = Frames /\ \A f, k : BitAt(f, k)' = BitAt(f, k)
  BY DEF Silence, Last, Frames, BitAt, GoodParity
<1>2. \A s : (Quiet(s) <=> Quiet(s)') /\ (Low(s) <=> Low(s)')
  BY DEF Quiet, Low, FilterAt
<1>3. \A f, k : Sending(f, k) <=> Sending(f, k)'
  BY <1>1 DEF Sending
<1>4. \A f, k, s, d : Within(f, k, s, d) <=> Within(f, k, s, d)'
  <2>1. \A w : Has(w) <=> Has(w)'
    BY DEF Has, Sampled
  <2>2. \A k : CountOf(k)' = CountOf(k)
    BY <1>1 DEF CountOf
  <2>3. ASSUME NEW f, NEW k, NEW s
        PROVE  FilterAt(BitAt(f, k), s) <=> FilterAt(BitAt(f, k), s)'
    BY <1>1 DEF FilterAt
  <2> QED
    BY <1>1, <2>1, <2>2, <2>3 DEF Within
<1>5. Idle => Idle'
  BY <1>1, <1>2, Zenon DEF Idle
<1>6. Noise => Noise'
  BY <1>1, <1>2, Zenon DEF Noise
<1>7. StartBit => StartBit'
  BY <1>2, <1>3, Zenon DEF StartBit
<1>8. LaterBit => LaterBit'
  BY <1>3, <1>4, Zenon DEF LaterBit
<1> QED
  BY <1>5, <1>6, <1>7, <1>8 DEF OnTheLine

LEMMA StillNext ==
  ASSUME Recorded, OnTheLine, ~BaudOut, NEW register, NextPeer(register)
  PROVE  OnTheLine' /\ Kept
<1>1. UNCHANGED << LCR, line, left, todo, frame >> /\ RxClock(line, register = "RBR", register = "LSR")
  BY DEF NextPeer, BaudGenerator, Peer, peerVars
<1>2. (Samples[1] = Samples[2] => RX_Filtered = Samples[1]) /\ heard \in 0..1
  BY Widths DEF Recorded
<1>3. /\ UNCHANGED << Samples, RX_Filtered, Bit_Phase, Brk_Cnt, RX_Bit_Cnt, RX_Parity, RX_ShiftReg >>
      /\ ~WordEnd /\ ~FrameEnd /\ Sound'
  BY <1>1, <1>2, RxStill DEF Recorded
<1>4. RBR' = RBR
  BY <1>1, <1>3, Zenon DEF RxClock
<1>5. Kept
  BY <1>3 DEF Kept, Told, Recorded
<1>6. heard' = heard
  <2>1. heard' = heard + 0
    BY <1>3, Zenon DEF NextPeer, Record
  <2> QED
    BY <1>2, <2>1
<1>7. OnTheLine'
  BY <1>1, <1>3, <1>4, <1>6, NothingMoves
<1> QED
  BY <1>5, <1>7
-------------------------------------------------------------------------------
(***************************************************************************)
(* The invariant.                                                           *)
(***************************************************************************)
LEMMA HearingInit ==
  ASSUME InitPeer
  PROVE  Hearing
<1>1. LCR \in Formats
  BY DEF InitPeer, InitLine
<1>2. LCR.wls \in 5..8 /\ 0 \in Bit
  BY <1>1, LastType DEF Bit
<1>3. [i \in 1..LCR.wls |-> 0] \in Words(LCR.wls)
  BY <1>2 DEF Words
<1>4. Recorded
  BY <1>1, <1>2, <1>3 DEF InitPeer, InitRx, Recorded, Sound
<1>5. Idle
  <2>1. Quiet(15)
    BY DEF InitPeer, InitRx, Quiet, FilterAt, Bit
  <2>2. 15 \in 0..15 /\ left = 16 - 15
    BY DEF InitPeer
  <2> QED
    BY <2>1, <2>2 DEF Idle, InitPeer
<1>6. Reading
  BY DEF InitPeer, InitRx, Reading
<1> QED
  BY <1>4, <1>5, <1>6 DEF Hearing, OnTheLine

LEMMA HearingStep ==
  ASSUME Tolerated, Hearing, NEW register, NextPeer(register)
  PROVE  OnTheLine' /\ Kept
<1>1. CASE BaudOut
  BY <1>1, IdleNext, NoiseNext, StartNext, LaterNext DEF Hearing, OnTheLine
<1>2. CASE ~BaudOut
  BY <1>2, StillNext DEF Hearing
<1> QED
  BY <1>1, <1>2

LEMMA RecordedNext ==
  ASSUME Recorded, Kept, NEW register, NextPeer(register)
  PROVE  Recorded'
<1>1. LCR' = LCR /\ RxClock(line, register = "RBR", register = "LSR")
  BY DEF NextPeer, BaudGenerator
<1>2. RBR' \in Words(LCR.wls)
  BY <1>1 DEF RxClock, Recorded
<1>3. DR' \in BOOLEAN /\ OE' \in BOOLEAN /\ PE' \in BOOLEAN
  BY <1>1, Zenon DEF RxClock, LineStatus
<1>4. FE' \in BOOLEAN /\ BI' \in BOOLEAN
  <2>1. FrameEnd => FE' = (RX_Filtered = 0)
    BY <1>1 DEF RxClock, LineStatus
  <2>2. ~FrameEnd => FE' = (FE /\ ~(register = "LSR"))
    BY <1>1 DEF RxClock, LineStatus
  <2>3. BI' \in BOOLEAN
    BY <1>1, Zenon DEF RxClock, LineStatus
  <2> QED
    BY <2>1, <2>2, <2>3, Zenon
<1> QED
  BY <1>1, <1>2, <1>3, <1>4 DEF Recorded, Kept

\* What a clock does to the registers and to the accesses of the processor.
LEMMA Accessed ==
  ASSUME Hearing, Kept, NEW register, NextPeer(register)
  PROVE  /\ register \in {"none", "LSR", "RBR"}
         /\ held # "none" => register = held
         /\ held = "none" /\ register = "RBR" => ready
         /\ held' = IF held = "none" THEN register ELSE "none"
         /\ DR' <=> FrameEnd \/ (DR /\ register # "RBR")
         /\ due' <=> FrameEnd \/ (due /\ held # "RBR")
         /\ lost' <=> lost \/ (WordEnd /\ due)
         /\ held = "LSR" => (ready' <=> DR')
         /\ held # "LSR" => (ready' <=> ready /\ held # "RBR")
         /\ FrameEnd => RBR' = frame.word /\ unread' = frame.word
         /\ ~FrameEnd => unread' = unread
         /\ ~WordEnd => RBR' = RBR
         /\ WordEnd /\ ~FrameEnd => RX_Bit_Cnt' = 10
         /\ RX_Bit_Cnt = 10 /\ ~FrameEnd => RX_Bit_Cnt' = 10
<1>1. RxClock(line, register = "RBR", register = "LSR") /\ Processor(register) /\ Record
  BY DEF NextPeer
<1>2. register \in {"none", "LSR", "RBR"} /\ (held # "none" => register = held)
  BY <1>1 DEF Processor, Hearing, Reading
<1>3. held = "none" /\ register = "RBR" => ready
  BY <1>1 DEF Processor
<1>4. held' = IF held = "none" THEN register ELSE "none"
  BY <1>1 DEF Processor
<1>5. DR' <=> FrameEnd \/ (DR /\ register # "RBR")
  BY <1>1, Zenon DEF RxClock, LineStatus
<1>6. (due' <=> FrameEnd \/ (due /\ held # "RBR")) /\ (lost' <=> lost \/ (WordEnd /\ due))
  BY <1>1, Zenon DEF Record, Returns
<1>7. (held = "LSR" => (ready' <=> DR')) /\ (held # "LSR" => (ready' <=> ready /\ held # "RBR"))
  BY <1>1, Zenon DEF Processor, Returns
<1>8. (FrameEnd => RBR' = frame.word /\ unread' = frame.word) /\ (~FrameEnd => unread' = unread)
  BY <1>1 DEF Record, Kept, Told
<1>9. ~WordEnd => RBR' = RBR
  BY <1>1 DEF RxClock
<1>10. /\ WordEnd /\ ~FrameEnd => RX_Bit_Cnt' = 10
       /\ RX_Bit_Cnt = 10 /\ ~FrameEnd => RX_Bit_Cnt' = 10
  <2>1. LCR.wls \in 5..8
    BY LastType DEF Hearing, Recorded
  <2>2. RX_Bit_Cnt = 10 => LCR.pen
    <3>1. RX_Bit_Cnt \in 0 .. LCR.wls + 1 \/ (RX_Bit_Cnt = 10 /\ LCR.pen)
      BY Widths DEF Hearing, Recorded
    <3> QED
      BY <2>1, <3>1
  <2>3. ASSUME WordEnd, ~FrameEnd PROVE RX_Bit_Cnt' = 10
    <3>1. ~MidStart
      BY <2>1, <2>3 DEF MidStart, WordEnd
    <3> QED
      BY <1>1, <2>3, <3>1 DEF RxClock, BitCount
  <2>4. ASSUME RX_Bit_Cnt = 10, ~FrameEnd PROVE RX_Bit_Cnt' = 10
    <3>1. ~MidStart /\ ~MidBit
      BY <2>2, <2>4 DEF MidStart, FrameEnd
    <3>2. ~WordEnd
      BY <3>1 DEF WordEnd
    <3> QED
      BY <1>1, <2>4, <3>1, <3>2 DEF RxClock, BitCount
  <2> QED
    BY <2>3, <2>4
<1> QED
  BY <1>2, <1>3, <1>4, <1>5, <1>6, <1>7, <1>8, <1>9, <1>10, Zenon

LEMMA ReadingNext ==
  ASSUME Hearing, Kept, NEW register, NextPeer(register)
  PROVE  Reading'
<1>1. /\ register \in {"none", "LSR", "RBR"}
      /\ held # "none" => register = held
      /\ held = "none" /\ register = "RBR" => ready
      /\ held' = IF held = "none" THEN register ELSE "none"
      /\ DR' <=> FrameEnd \/ (DR /\ register # "RBR")
      /\ due' <=> FrameEnd \/ (due /\ held # "RBR")
      /\ lost' <=> lost \/ (WordEnd /\ due)
      /\ held = "LSR" => (ready' <=> DR')
      /\ held # "LSR" => (ready' <=> ready /\ held # "RBR")
      /\ FrameEnd => RBR' = frame.word /\ unread' = frame.word
      /\ ~FrameEnd => unread' = unread
      /\ ~WordEnd => RBR' = RBR
      /\ WordEnd /\ ~FrameEnd => RX_Bit_Cnt' = 10
      /\ RX_Bit_Cnt = 10 /\ ~FrameEnd => RX_Bit_Cnt' = 10
  BY Accessed
<1>2. /\ held \in {"none", "LSR", "RBR"}
      /\ DR => due /\ (RBR = unread \/ RX_Bit_Cnt = 10)
      /\ due => DR \/ held = "RBR"
      /\ due /\ ~lost => RBR = unread
      /\ ready => due
      /\ held = "RBR" => ready
  BY DEF Hearing, Reading
<1>3. due' \in BOOLEAN /\ ready' \in BOOLEAN /\ lost' \in BOOLEAN
  <2>1. due' \in BOOLEAN /\ lost' \in BOOLEAN
    BY Zenon DEF NextPeer, Record
  <2>2. DR' \in BOOLEAN
    BY Zenon DEF NextPeer, RxClock, LineStatus
  <2>3. ready' \in BOOLEAN
    BY <2>2, Zenon DEF NextPeer, Processor
  <2> QED
    BY <2>1, <2>3
<1>4. held' \in {"none", "LSR", "RBR"}
  BY <1>1, <1>2
<1>5. DR' => due' /\ (RBR' = unread' \/ RX_Bit_Cnt' = 10)
  BY <1>1, <1>2, Zenon
<1>6. due' => DR' \/ held' = "RBR"
  BY <1>1, <1>2, Zenon
<1>7. due' /\ ~lost' => RBR' = unread'
  BY <1>1, <1>2, Zenon
<1>8. ready' => due'
  BY <1>1, <1>2, <1>5, Zenon
<1>9. held' = "RBR" => ready'
  BY <1>1, <1>2, Zenon
<1> QED
  BY <1>3, <1>4, <1>5, <1>6, <1>7, <1>8, <1>9, Zenon DEF Reading

LEMMA HearingNext ==
  ASSUME Tolerated, Hearing, [\E register \in {"none", "LSR", "RBR"} : NextPeer(register)]_allVars
  PROVE  Hearing'
<1>1. CASE UNCHANGED allVars
  <2>1. UNCHANGED << lineVars, rxVars, peerVars, cpuVars, history >>
    BY <1>1 DEF allVars
  <2>2. Recorded' /\ Reading'
    BY <2>1 DEF Hearing, Recorded, Reading, Sound, lineVars, rxVars, cpuVars, history
  <2>3. OnTheLine'
    BY <2>1, NothingMoves DEF Hearing, lineVars, rxVars, peerVars, history
  <2> QED
    BY <2>2, <2>3 DEF Hearing
<1>2. ASSUME NEW register \in {"none", "LSR", "RBR"}, NextPeer(register) PROVE Hearing'
  <2>1. OnTheLine' /\ Kept
    BY <1>2, HearingStep
  <2> QED
    BY <1>2, <2>1, RecordedNext, ReadingNext DEF Hearing
<1> QED
  BY <1>1, <1>2

\* The receiver follows every frame on the line, whenever it begins.
THEOREM HearingInvariance ==
  ASSUME Tolerated
  PROVE  SpecPeer => []Hearing
BY HearingInit, HearingNext, PTL DEF SpecPeer

\* The registers of the receiver keep to their widths.
THEOREM RxTypeCorrect ==
  ASSUME Tolerated
  PROVE  SpecPeer => []TypeOKRx
<1>1. Hearing => TypeOKRx
  BY Widths DEF Hearing, Recorded, Words, TypeOKRx
<1> QED
  BY <1>1, HearingInvariance, PTL

\* Every frame is received exactly once, whenever it begins, and noise never is, as long as
\* the line is low for 11 to 23 enables in a start bit and for 6 at most in noise.
THEOREM FramesAreHeard ==
  ASSUME Tolerated
  PROVE  SpecPeer => []FramesHeard
<1>1. Hearing => FramesHeard
  <2> SUFFICES ASSUME Hearing PROVE FramesHeard
    OBVIOUS
  <2>1. LCR \in Formats /\ Last \in 6..10
    BY LastType DEF Hearing, Recorded
  <2>2. CASE Idle
    <3>1. RX_Bit_Cnt = 0
      BY <2>2 DEF Idle, Quiet
    <3> QED
      BY <2>2, <3>1 DEF Idle, FramesHeard
  <2>3. CASE Noise
    <3>1. RX_Bit_Cnt = 0
      BY <2>3 DEF Noise, Low
    <3> QED
      BY <2>3, <3>1 DEF Noise, FramesHeard
  <2>4. CASE StartBit
    <3>1. frame \in Frames /\ Len(todo) = Last - 0
      BY <2>4 DEF StartBit, Sending
    <3>2. frame # Silence /\ todo # << >>
      BY <2>1, <3>1, FrameType
    <3> QED
      BY <3>2 DEF FramesHeard
  <2>5. CASE LaterBit
    <3>1. PICK f \in {frame}, k \in 1..10, s \in 0..15, d \in 1..13 :
            Sending(f, k) /\ left = 16 - s /\ Within(f, k, s, d)
      BY <2>5, Zenon DEF LaterBit
    <3>2. f \in Frames /\ frame = f /\ k \in 1..Last /\ Len(todo) = Last - k
      BY <2>1, <3>1 DEF Sending
    <3>3. frame # Silence
      BY <2>1, <3>2, FrameType
    <3>4. ASSUME left = 1, todo = << >> PROVE heard = 1
      <4>1. s \in 0..16 /\ s + d >= 16 /\ k = Last
        BY <2>1, <3>1, <3>2, <3>4
      <4>2. RX_Bit_Cnt = 0
        BY <2>1, <3>1, <3>2, <4>1, WithinCount
      <4> QED
        BY <2>5, <4>2 DEF LaterBit
    <3> QED
      BY <3>3, <3>4 DEF FramesHeard
  <2> QED
    BY <2>2, <2>3, <2>4, <2>5 DEF Hearing, OnTheLine
<1> QED
  BY <1>1, HearingInvariance, PTL

\* DR announces a word that is in RBR, unless the parity bit of the next one is on the line.
THEOREM WordsAreReady ==
  ASSUME Tolerated
  PROVE  SpecPeer => []WordReady
<1>1. Hearing => WordReady
  BY DEF Hearing, Reading, WordReady
<1> QED
  BY <1>1, HearingInvariance, PTL

\* What getchar returns, whenever it polls and reads.
THEOREM WordsAreReturned ==
  ASSUME Tolerated
  PROVE  SpecPeer => WordsReturned
<1> DEFINE A == /\ Returns /\ ~lost' => due /\ RBR' = unread
                /\ lost' /\ ~lost => OE' \/ held # "none" \/ held' = "LSR"
           Step == \E register \in {"none", "LSR", "RBR"} : NextPeer(register)
<1>1. Tolerated /\ Hearing /\ [Step]_allVars => [A]_allVars
  <2> SUFFICES ASSUME Tolerated, Hearing, Step PROVE A
    OBVIOUS
  <2>1. PICK register \in {"none", "LSR", "RBR"} : NextPeer(register)
    OBVIOUS
  <2>2. Kept
    BY <2>1, HearingStep
  <2>3. /\ held = "none" => held' = register
        /\ lost' <=> lost \/ (WordEnd /\ due)
        /\ ~WordEnd => RBR' = RBR
    BY <2>1, <2>2, Accessed
  <2>4. /\ due => DR \/ held = "RBR"
        /\ due /\ ~lost => RBR = unread
        /\ ready => due
        /\ held = "RBR" => ready
    BY DEF Hearing, Reading
  <2>5. WordEnd => (OE' <=> register # "LSR" /\ DR)
    BY <2>1, Zenon DEF NextPeer, RxClock, LineStatus
  <2>6. ASSUME Returns, ~lost' PROVE due /\ RBR' = unread
    BY <2>3, <2>4, <2>6, Zenon DEF Returns
  <2>7. ASSUME lost', ~lost PROVE OE' \/ held # "none" \/ held' = "LSR"
    <3>1. CASE register = "LSR"
      BY <2>3, <3>1
    <3>2. CASE held = "none" /\ register # "LSR"
      BY <2>3, <2>4, <2>5, <2>7, <3>2
    <3> QED
      BY <3>1, <3>2
  <2> QED
    BY <2>6, <2>7
<1> QED
  BY <1>1, HearingInvariance, PTL DEF SpecPeer, WordsReturned

\* The errors that LSR reports are those of the line.
THEOREM ErrorsAreOfTheLine ==
  ASSUME Tolerated
  PROVE  SpecPeer => ErrorsOfTheLine
<1> DEFINE A == /\ ~FE' /\ ~BI'
                /\ FrameEnd => frame # Silence
                /\ WordEnd /\ LCR.pen /\ ~frame.good => PE'
                /\ PE' /\ ~PE => ~frame.good
           Step == \E register \in {"none", "LSR", "RBR"} : NextPeer(register)
<1>1. Tolerated /\ Hearing /\ [Step]_allVars => [A]_allVars
  <2> SUFFICES ASSUME Tolerated, Hearing, Step PROVE A
    OBVIOUS
  <2>1. PICK register \in {"none", "LSR", "RBR"} : NextPeer(register)
    OBVIOUS
  <2>2. Kept
    BY <2>1, HearingStep
  <2>3. ~FE' /\ ~BI' /\ (WordEnd /\ LCR.pen => (ParityWrong <=> ~frame.good))
    BY <2>2 DEF Kept, Told, Sound
  <2>4. FrameEnd => frame # Silence
    BY <2>2, FrameType DEF Kept, Told, Hearing, Recorded
  <2>5. PE' <=> (WordEnd /\ LCR.pen /\ ParityWrong) \/ (PE /\ register # "LSR")
    BY <2>1, Zenon DEF NextPeer, RxClock, LineStatus
  <2> QED
    BY <2>3, <2>4, <2>5, Zenon
<1> QED
  BY <1>1, HearingInvariance, PTL DEF SpecPeer, ErrorsOfTheLine
===============================================================================
