----------------------------- MODULE T16450Proofs -----------------------------
(***************************************************************************)
(* Theorems about the T16450 in loopback, for every set of formats and      *)
(* every word that the processor may write: the transmitter implements a    *)
(* serial sender, its bits have the lengths that LCR asks for, and the      *)
(* receiver gets every word as it was written.                              *)
(***************************************************************************)
EXTENDS T16450, T16450RxProofs

-------------------------------------------------------------------------------
(***************************************************************************)
(* Words as sequences, and the parity of their bits.                        *)
(***************************************************************************)
Ones(word) == Cardinality({ i \in DOMAIN word : word[i] = 1 })

LEMMA OnesFinite ==
  ASSUME NEW s \in Seq(Bit)
  PROVE  IsFiniteSet({ i \in DOMAIN s : s[i] = 1 }) /\ Ones(s) \in Nat
<1>1. DOMAIN s = 1..Len(s) /\ Len(s) \in Nat
  BY LenProperties
<1>2. IsFiniteSet(1..Len(s))
  BY <1>1, FS_Interval
<1>3. IsFiniteSet({ i \in DOMAIN s : s[i] = 1 })
  BY <1>1, <1>2, FS_Subset
<1> QED
  BY <1>3, FS_CardinalityType DEF Ones

LEMMA OnesEmpty == Ones(<< >>) = 0
<1>1. { i \in DOMAIN << >> : << >>[i] = 1 } = {}
  OBVIOUS
<1> QED
  BY <1>1, FS_EmptySet DEF Ones

\* The ones of a word are its first bit and the ones of the others.
LEMMA OnesTail ==
  ASSUME NEW s \in Seq(Bit), s # << >>
  PROVE  Ones(s) = Head(s) + Ones(Tail(s))
<1> DEFINE S == { i \in DOMAIN s : s[i] = 1 }
           T == { i \in DOMAIN Tail(s) : Tail(s)[i] = 1 }
           R == S \ {1}
           f == [i \in T |-> i + 1]
<1>1. /\ Len(s) \in Nat \ {0} /\ DOMAIN s = 1..Len(s)
      /\ Head(s) = s[1] /\ Head(s) \in Bit
      /\ Tail(s) \in Seq(Bit) /\ DOMAIN Tail(s) = 1 .. Len(s) - 1
      /\ \A i \in 1 .. Len(s) - 1 : Tail(s)[i] = s[i + 1]
  BY LenProperties, EmptySeq, HeadTailProperties
<1>2. IsFiniteSet(S) /\ IsFiniteSet(T)
  BY <1>1, OnesFinite
<1>3. f \in Bijection(T, R)
  <2>1. f \in [T -> R]
    <3> SUFFICES ASSUME NEW i \in T PROVE i + 1 \in R
      OBVIOUS
    <3> QED
      BY <1>1
  <2>2. \A i, j \in T : f[i] = f[j] => i = j
    BY <1>1
  <2>3. \A j \in R : \E i \in T : f[i] = j
    <3> TAKE j \in R
    <3>1. j - 1 \in T
      BY <1>1
    <3>2. f[j - 1] = j
      BY <1>1, <3>1
    <3> QED
      BY <3>1, <3>2
  <2> QED
    BY <2>1, <2>2, <2>3 DEF Bijection, Injection, Surjection, IsInjective
<1>4. Cardinality(R) = Cardinality(T)
  BY <1>2, <1>3, FS_Bijection, ZenonT(40) DEF ExistsBijection
<1>5. Cardinality(R) = IF 1 \in S THEN Cardinality(S) - 1 ELSE Cardinality(S)
  BY <1>2, FS_RemoveElement
<1>6. 1 \in S <=> Head(s) = 1
  BY <1>1
<1>7. Cardinality(S) \in Nat
  BY <1>2, FS_CardinalityType
<1>8. Ones(s) = Cardinality(S) /\ Ones(Tail(s)) = Cardinality(T)
  BY DEF Ones
<1>9. Head(s) = 0 \/ Head(s) = 1
  BY <1>1 DEF Bit
<1> HIDE DEF S, T, R, f
<1> QED
  BY <1>4, <1>5, <1>6, <1>7, <1>8, <1>9

-------------------------------------------------------------------------------
(***************************************************************************)
(* The transmitter's own invariant, whatever the timing of its bits.        *)
(***************************************************************************)
Registers ==
  /\ LCR \in Formats
  /\ THRE \in BOOLEAN /\ TEMT \in BOOLEAN /\ TX_Tick \in BOOLEAN
  /\ TXD \in Bit /\ TX_Parity \in Bit
  /\ TX_Next_Is_Stop \in BOOLEAN /\ TX_Stop_Bit \in BOOLEAN
  /\ TX_Bit_Cnt \in 0..10

\* The word that is going out, bit by bit, ...
Shifting ==
  /\ TX_ShiftReg \in Seq(Bit)
  /\ TX_Bit_Cnt \in 2..9 => /\ TX_Bit_Cnt <= LCR.wls + 1
                            /\ Len(TX_ShiftReg) = LCR.wls + 2 - TX_Bit_Cnt
  /\ TX_Bit_Cnt \notin 2..9 => TX_ShiftReg = << >>
  /\ TX_Bit_Cnt = 10 => LCR.pen

\* ... and the end of its frame.
Framing ==
  /\ TX_Next_Is_Stop => TX_Bit_Cnt = 0 /\ ~TX_Stop_Bit
  /\ TX_Bit_Cnt = 0 /\ ~TX_Next_Is_Stop => TXD = 1
  /\ TX_Stop_Bit => TX_Bit_Cnt \in 0..1

\* THR holds the word that LSR says it does, and the second clock of an access writes it again.
Holding ==
  /\ ~THRE => THR \in WordsOf(LCR.wls)
  /\ TX_Bit_Cnt = 1 => ~THRE
  /\ held.written # NoWord => ~THRE /\ THR = held.written /\ TX_Bit_Cnt # 1

TxInv == Registers /\ Shifting /\ Framing /\ Holding

LEMMA WordsWritten ==
  ASSUME LCR \in Formats
  PROVE  WordsOf(LCR.wls) \subseteq Words(LCR.wls) /\ NoWord \notin WordsOf(LCR.wls)
BY FormatTypes, WordsAssumption DEF Words

\* What an access writes: nothing, a new word, or once more the one of the clock before.
LEMMA Written ==
  ASSUME TxInv, NEW access \in Accesses
  PROVE  \/ access.written = NoWord
         \/ held = NoAccess /\ THRE /\ access.written \in WordsOf(LCR.wls)
         \/ held # NoAccess /\ access = held /\ ~THRE /\ THR = access.written /\ TX_Bit_Cnt # 1
<1>1. CASE held # NoAccess
  BY <1>1 DEF Accesses, TxInv, Holding
<1>2. CASE held = NoAccess
  <2>1. access \in NewAccesses
    BY <1>2 DEF Accesses
  <2>2. \/ access.written = NoWord
        \/ access.written \in Writes
    BY <2>1 DEF NewAccesses, NoAccess
  <2> QED
    BY <1>2, <2>2 DEF Writes
<1> QED
  BY <1>1, <1>2

\* The clock, from the transmitter's point of view.
LEMMA ClockSteps ==
  ASSUME TxInv, NEW access \in Accesses, UARTClock(access)
  PROVE  /\ BitTick /\ Transmit(access.written) /\ BaudGenerator
         /\ LCR' = LCR /\ LCR' \in Formats
         /\ held' = IF held = NoAccess THEN access ELSE NoAccess
BY DEF UARTClock, TxClock, BaudGenerator, TxInv, Registers

LEMMA TickType ==
  ASSUME BitTick
  PROVE  TX_Tick' \in BOOLEAN
BY DEF BitTick

\* Each step of the transmit state machine, and its effect on THR.
TxStep(written) == Idle(written) \/ StartBit(written) \/ DataBit(written) \/ ParityBit(written)

LEMMA TransmitStep ==
  ASSUME NEW written, Transmit(written)
  PROVE  \/ /\ ~TX_Tick /\ Status(written, THRE, TEMT)
            /\ UNCHANGED << TX_Bit_Cnt, TX_ShiftReg, TX_Parity, TXD, TX_Next_Is_Stop,
                            TX_Stop_Bit >>
         \/ TX_Tick /\ TxStep(written) /\ TX_Stop_Bit' = TX_Next_Is_Stop
BY DEF Transmit, TxStep

\* What becomes of THR: it takes a word, keeps its own, or is empty.
LEMMA HoldingStep ==
  ASSUME TxInv, NEW access \in Accesses, UARTClock(access)
  PROVE  /\ Holding'
         /\ THRE' \in BOOLEAN /\ TEMT' \in BOOLEAN
         /\ THRE' => THRE \/ (TX_Tick /\ TX_Bit_Cnt = 1)
         /\ ~THRE' => \/ ~THRE /\ THR' = THR /\ ~(TX_Tick /\ TX_Bit_Cnt = 1)
                      \/ THRE /\ THR' = access.written /\ THR' \in WordsOf(LCR.wls)
         /\ TX_Bit_Cnt = 1 => access.written = NoWord
         /\ TX_Tick /\ TX_Bit_Cnt = 1 => THRE'
<1> USE DEF TxInv
<1>1. Transmit(access.written) /\ LCR' = LCR /\ LCR \in Formats
      /\ held' = IF held = NoAccess THEN access ELSE NoAccess
  BY ClockSteps
<1>2. NoAccess.written = NoWord /\ NoWord \notin WordsOf(LCR.wls)
  BY <1>1, WordsWritten DEF NoAccess
<1>3. TX_Bit_Cnt = 1 => access.written = NoWord
  BY Written DEF Holding
<1>4. \E thre \in {THRE, TRUE}, temt \in BOOLEAN :
        /\ Status(access.written, thre, temt)
        /\ thre = THRE \/ (TX_Tick /\ TX_Bit_Cnt = 1)
        /\ TX_Tick /\ TX_Bit_Cnt = 1 => thre = TRUE
  <2>1. CASE ~TX_Tick
    BY <1>1, <2>1 DEF Transmit, Registers
  <2>2. CASE TX_Tick /\ Idle(access.written)
    <3>1. Status(access.written, THRE, TEMT) /\ TX_Bit_Cnt # 1
      BY <2>2 DEF Idle
    <3> QED
      BY <3>1 DEF Registers
  <2>3. CASE TX_Tick /\ StartBit(access.written)
    BY <2>3 DEF StartBit, Registers
  <2>4. CASE TX_Tick /\ DataBit(access.written)
    <3>1. /\ Status(access.written, THRE, TEMT \/ TX_Bit_Cnt = LCR.wls + 1)
          /\ TX_Bit_Cnt # 1
      BY <2>4 DEF DataBit
    <3>2. (TEMT \/ TX_Bit_Cnt = LCR.wls + 1) \in BOOLEAN
      OBVIOUS
    <3> QED
      BY <3>1, <3>2, Zenon
  <2>5. CASE TX_Tick /\ ParityBit(access.written)
    <3>1. Status(access.written, THRE, TEMT) /\ TX_Bit_Cnt # 1
      BY <2>5 DEF ParityBit
    <3> QED
      BY <3>1 DEF Registers
  <2> QED
    BY <1>1, <2>1, <2>2, <2>3, <2>4, <2>5, TransmitStep DEF TxStep
<1>5. PICK thre \in {THRE, TRUE}, temt \in BOOLEAN :
        /\ Status(access.written, thre, temt)
        /\ thre = THRE \/ (TX_Tick /\ TX_Bit_Cnt = 1)
        /\ TX_Tick /\ TX_Bit_Cnt = 1 => thre = TRUE
  BY <1>4
<1>6. /\ THRE' <=> thre /\ access.written = NoWord
      /\ TEMT' \in BOOLEAN /\ THRE' \in BOOLEAN
      /\ THR' = IF access.written = NoWord THEN THR ELSE access.written
  BY <1>5 DEF Status
<1>7. TX_Bit_Cnt' = 1 => ~THRE /\ (TX_Bit_Cnt = 0 \/ (TX_Bit_Cnt = 1 /\ ~TX_Tick))
  <2>1. CASE ~TX_Tick
    <3>1. TX_Bit_Cnt' = TX_Bit_Cnt
      BY <1>1, <2>1 DEF Transmit
    <3> QED
      BY <2>1, <3>1 DEF Holding
  <2>2. CASE Idle(access.written)
    BY <2>2 DEF Idle, Registers
  <2>3. CASE StartBit(access.written) \/ DataBit(access.written) \/ ParityBit(access.written)
    BY <2>3 DEF StartBit, DataBit, ParityBit, Registers
  <2> QED
    BY <1>1, <2>1, <2>2, <2>3, TransmitStep DEF TxStep
<1>8. ~THRE' => \/ ~THRE /\ THR' = THR /\ ~(TX_Tick /\ TX_Bit_Cnt = 1)
                \/ THRE /\ THR' = access.written /\ THR' \in WordsOf(LCR.wls)
  BY <1>3, <1>5, <1>6, Written
<1>9. THRE' => THRE \/ (TX_Tick /\ TX_Bit_Cnt = 1)
  BY <1>5, <1>6
<1>10. TX_Bit_Cnt' = 1 => ~THRE'
  BY <1>5, <1>6, <1>7
<1>11. ~THRE' => THR' \in WordsOf(LCR'.wls)
  BY <1>1, <1>8 DEF Holding
<1>12. held'.written # NoWord => ~THRE' /\ THR' = held'.written /\ TX_Bit_Cnt' # 1
  <2> SUFFICES ASSUME held'.written # NoWord
               PROVE  ~THRE' /\ THR' = held'.written /\ TX_Bit_Cnt' # 1
    OBVIOUS
  <2>1. held = NoAccess /\ held' = access
    BY <1>1, <1>2
  <2>2. THRE
    BY <1>2, <2>1, Written
  <2> QED
    BY <1>6, <1>7, <2>1, <2>2
<1> QED
  BY <1>3, <1>5, <1>6, <1>8, <1>9, <1>10, <1>11, <1>12 DEF Holding

\* The shift register loses a bit.
LEMMA Shifted ==
  ASSUME TxInv, TX_Bit_Cnt \in 2..9
  PROVE  /\ TX_ShiftReg \in Seq(Bit) /\ TX_ShiftReg # << >>
         /\ Head(TX_ShiftReg) \in Bit /\ Tail(TX_ShiftReg) \in Seq(Bit)
         /\ Len(Tail(TX_ShiftReg)) = LCR.wls + 1 - TX_Bit_Cnt
         /\ TX_Bit_Cnt = LCR.wls + 1 => Tail(TX_ShiftReg) = << >>
<1> USE DEF TxInv
<1>1. /\ TX_ShiftReg \in Seq(Bit) /\ LCR.wls \in 5..8
      /\ TX_Bit_Cnt <= LCR.wls + 1 /\ Len(TX_ShiftReg) = LCR.wls + 2 - TX_Bit_Cnt
  BY FormatTypes DEF Shifting, Registers
<1>2. TX_ShiftReg # << >>
  BY <1>1
<1>3. /\ Head(TX_ShiftReg) \in Bit /\ Tail(TX_ShiftReg) \in Seq(Bit)
      /\ Len(Tail(TX_ShiftReg)) = Len(TX_ShiftReg) - 1
  BY <1>1, <1>2, HeadTailProperties
<1>4. Tail(TX_ShiftReg) # << >> => Len(Tail(TX_ShiftReg)) # 0
  BY <1>3, EmptySeq
<1>5. Len(Tail(TX_ShiftReg)) = LCR.wls + 1 - TX_Bit_Cnt
  <2>1. \A l, t : \A w \in 5..8, c \in 2..9 : l = w + 2 - c /\ t = l - 1 => t = w + 1 - c
    OBVIOUS
  <2> QED
    BY <1>1, <1>3, <2>1, SMTT(30)
<1>6. TX_Bit_Cnt = LCR.wls + 1 => Tail(TX_ShiftReg) = << >>
  <2>1. \A c, t : \A w \in 5..8 : c = w + 1 /\ t = w + 1 - c => t = 0
    OBVIOUS
  <2>2. TX_Bit_Cnt = LCR.wls + 1 => Len(Tail(TX_ShiftReg)) = 0
    BY <1>1, <1>5, <2>1
  <2> QED
    BY <1>4, <2>2
<1> QED
  BY <1>1, <1>2, <1>3, <1>5, <1>6

LEMMA RegisterStep ==
  ASSUME TxInv, NEW access \in Accesses, UARTClock(access)
  PROVE  Registers' /\ Shifting' /\ Framing'
<1> USE DEF TxInv
<1>1. /\ BitTick /\ Transmit(access.written) /\ LCR' = LCR /\ LCR' \in Formats
      /\ TX_Tick' \in BOOLEAN /\ THRE' \in BOOLEAN /\ TEMT' \in BOOLEAN
  BY ClockSteps, TickType, HoldingStep
<1>2. /\ LCR.wls \in 5..8 /\ LCR.eps \in Bit /\ LCR.pen \in BOOLEAN /\ LCR.sp \in BOOLEAN
      /\ WordsOf(LCR.wls) \subseteq Words(LCR.wls) /\ LCR.wls \in Nat
  BY FormatTypes, WordsWritten DEF Registers
<1>3. CASE ~TX_Tick
  <2>1. UNCHANGED << TX_Bit_Cnt, TX_ShiftReg, TX_Parity, TXD, TX_Next_Is_Stop, TX_Stop_Bit >>
    BY <1>1, <1>3, TransmitStep
  <2> QED
    BY <1>1, <2>1 DEF Registers, Shifting, Framing
<1>4. CASE TX_Tick /\ Idle(access.written) /\ TX_Stop_Bit' = TX_Next_Is_Stop
  <2>1. /\ TX_Bit_Cnt = 0 /\ TX_Bit_Cnt' \in 0..1 /\ TXD' = 1 /\ TX_Next_Is_Stop' = FALSE
        /\ TX_Stop_Bit' = TX_Next_Is_Stop /\ UNCHANGED << TX_ShiftReg, TX_Parity >>
    BY <1>4 DEF Idle
  <2>2. TX_Next_Is_Stop' \in BOOLEAN /\ TX_Stop_Bit' \in BOOLEAN
    BY <2>1, Zenon DEF Registers
  <2>3. TXD' \in Bit /\ TX_Parity' \in Bit /\ TX_Bit_Cnt' \in 0..10
    BY <2>1 DEF Registers, Bit
  <2>4. Registers'
    BY <1>1, <2>2, <2>3 DEF Registers
  <2>5. Shifting' /\ Framing'
    BY <1>1, <2>1 DEF Shifting, Framing
  <2> QED
    BY <2>4, <2>5
<1>5. CASE TX_Tick /\ StartBit(access.written) /\ TX_Stop_Bit' = TX_Next_Is_Stop
  <2>1. /\ TX_Bit_Cnt = 1 /\ TX_Bit_Cnt' = 2 /\ TXD' = 0 /\ TX_Next_Is_Stop' = FALSE
        /\ TX_Parity' = 1 - LCR.eps /\ TX_ShiftReg' = THR /\ TX_Stop_Bit' = TX_Next_Is_Stop
    BY <1>5 DEF StartBit
  <2>2. ~TX_Next_Is_Stop /\ TX_Next_Is_Stop \in BOOLEAN
    BY <2>1 DEF Framing, Registers
  <2>3. Registers'
    <3>1. TX_Next_Is_Stop' \in BOOLEAN /\ TX_Stop_Bit' \in BOOLEAN
      BY <2>1, <2>2, Zenon
    <3>2. TXD' \in Bit /\ TX_Parity' \in Bit /\ TX_Bit_Cnt' \in 0..10
      BY <1>2, <2>1 DEF Bit
    <3> QED
      BY <1>1, <3>1, <3>2 DEF Registers
  <2>4. THR \in Seq(Bit) /\ Len(THR) = LCR.wls
    BY <1>2, <2>1, WordIsSeq DEF Holding
  <2> QED
    BY <1>1, <1>2, <2>1, <2>2, <2>3, <2>4 DEF Shifting, Framing
<1>6. CASE TX_Tick /\ DataBit(access.written) /\ TX_Stop_Bit' = TX_Next_Is_Stop
  <2>1. /\ TX_Bit_Cnt \in 2..9 /\ TXD' = Head(TX_ShiftReg) /\ TX_ShiftReg' = Tail(TX_ShiftReg)
        /\ TX_Next_Is_Stop' = (TX_Bit_Cnt = LCR.wls + 1 /\ ~LCR.pen)
        /\ TX_Bit_Cnt' = IF TX_Bit_Cnt # LCR.wls + 1 THEN TX_Bit_Cnt + 1
                         ELSE IF LCR.pen THEN 10 ELSE 0
        /\ TX_Parity' = (TX_Parity + Head(TX_ShiftReg)) % 2
        /\ TX_Stop_Bit' = TX_Next_Is_Stop
    BY <1>6 DEF DataBit
  <2>2. ~TX_Next_Is_Stop /\ TX_Next_Is_Stop \in BOOLEAN /\ TX_Parity \in Bit
    BY <2>1 DEF Framing, Registers
  <2>3. /\ Head(TX_ShiftReg) \in Bit /\ Tail(TX_ShiftReg) \in Seq(Bit)
        /\ Len(Tail(TX_ShiftReg)) = LCR.wls + 1 - TX_Bit_Cnt
        /\ TX_Bit_Cnt = LCR.wls + 1 => Tail(TX_ShiftReg) = << >>
    BY <2>1, Shifted
  <2>4. TX_Parity' \in Bit
    BY <2>1, <2>2, <2>3 DEF Bit
  <2>5. TX_Bit_Cnt <= LCR.wls + 1
    BY <2>1 DEF Shifting
  <2>6. TX_Bit_Cnt' \in 0..10 /\ TX_Bit_Cnt' # 1
    BY <1>2, <2>1, <2>5
  <2>7. Registers'
    <3>1. TX_Next_Is_Stop' \in BOOLEAN
      BY <2>1
    <3> QED
      BY <1>1, <2>1, <2>2, <2>3, <2>4, <2>6, <3>1 DEF Registers
  <2>8. CASE TX_Bit_Cnt = LCR.wls + 1
    <3>1. TX_Next_Is_Stop' <=> ~LCR.pen
      BY <2>1, <2>8, Zenon
    <3>2. TX_Bit_Cnt' = (IF LCR.pen THEN 10 ELSE 0) /\ TX_ShiftReg' = << >>
      BY <2>1, <2>3, <2>8
    <3>3. ~TX_Stop_Bit'
      BY <2>1, <2>2
    <3>4. Shifting'
      BY <1>1, <3>2, EmptySeq DEF Shifting
    <3>5. Framing'
      <4>1. CASE LCR.pen
        BY <3>1, <3>2, <3>3, <4>1 DEF Framing
      <4>2. CASE ~LCR.pen
        BY <3>1, <3>2, <3>3, <4>2 DEF Framing
      <4> QED
        BY <4>1, <4>2
    <3> QED
      BY <2>7, <3>4, <3>5
  <2>9. CASE TX_Bit_Cnt # LCR.wls + 1
    <3>a. ~TX_Next_Is_Stop' /\ ~TX_Stop_Bit'
      BY <2>1, <2>2, <2>9, Zenon
    <3>1. /\ TX_Bit_Cnt' = TX_Bit_Cnt + 1 /\ TX_Bit_Cnt + 1 \in 3..9
          /\ TX_ShiftReg' \in Seq(Bit) /\ TX_Bit_Cnt + 1 <= LCR.wls + 1
          /\ Len(TX_ShiftReg') = LCR.wls + 2 - (TX_Bit_Cnt + 1)
      BY <1>2, <2>1, <2>3, <2>5, <2>9, SMTT(30)
    <3>2. Shifting'
      BY <1>1, <1>2, <3>1 DEF Shifting
    <3>3. Framing'
      BY <3>a, <3>1 DEF Framing
    <3> QED
      BY <2>7, <3>2, <3>3
  <2> QED
    BY <2>7, <2>8, <2>9
<1>7. CASE TX_Tick /\ ParityBit(access.written) /\ TX_Stop_Bit' = TX_Next_Is_Stop
  <2>1. /\ TX_Bit_Cnt = 10 /\ TX_Bit_Cnt' = 0 /\ TX_Next_Is_Stop' = TRUE
        /\ TXD' = IF LCR.sp THEN 1 - LCR.eps ELSE TX_Parity
        /\ TX_Stop_Bit' = TX_Next_Is_Stop /\ UNCHANGED << TX_ShiftReg, TX_Parity >>
    BY <1>7 DEF ParityBit
  <2>2. ~TX_Next_Is_Stop /\ TX_Next_Is_Stop \in BOOLEAN /\ TX_Parity \in Bit
    BY <2>1 DEF Framing, Registers
  <2>3. TXD' \in Bit
    BY <1>2, <2>1, <2>2 DEF Bit
  <2>4. Registers'
    BY <1>1, <2>1, <2>2, <2>3 DEF Registers
  <2> QED
    BY <1>1, <2>1, <2>2, <2>4 DEF Shifting, Framing
<1> QED
  BY <1>1, <1>3, <1>4, <1>5, <1>6, <1>7, TransmitStep DEF TxStep

LEMMA TxInit == InitUART => TxInv
<1> SUFFICES ASSUME InitUART PROVE TxInv
  OBVIOUS
<1>1. /\ LCR \in Formats /\ THRE = TRUE /\ TEMT = TRUE /\ TX_Tick = FALSE
      /\ TX_Bit_Cnt = 0 /\ TX_ShiftReg = << >> /\ TX_Parity = 0 /\ TXD = 1
      /\ TX_Next_Is_Stop = FALSE /\ TX_Stop_Bit = FALSE /\ held.written = NoWord
  BY DEF InitUART, InitLine, InitTx, NoAccess
<1>2. Registers
  <2>1. /\ THRE \in BOOLEAN /\ TEMT \in BOOLEAN /\ TX_Tick \in BOOLEAN
        /\ TX_Next_Is_Stop \in BOOLEAN /\ TX_Stop_Bit \in BOOLEAN
    BY <1>1, Zenon
  <2> QED
    BY <1>1, <2>1 DEF Registers, Bit
<1>3. Shifting
  BY <1>1, EmptySeq DEF Shifting
<1> QED
  BY <1>1, <1>2, <1>3 DEF TxInv, Framing, Holding

LEMMA TxNext ==
  ASSUME TxInv, [NextUART]_uartVars
  PROVE  TxInv'
<1>1. ASSUME NEW access \in Accesses, UARTClock(access) PROVE TxInv'
  BY <1>1, HoldingStep, RegisterStep DEF TxInv
<1>2. CASE UNCHANGED uartVars
  BY <1>2 DEF uartVars, lineVars, txVars, txState, TxInv, Registers, Shifting, Framing, Holding
<1> QED
  BY <1>1, <1>2 DEF NextUART

\* The invariant of the transmitter holds in every reachable state.
THEOREM TxInvariance == SpecUART => []TxInv
BY TxInit, TxNext, PTL DEF SpecUART
-------------------------------------------------------------------------------
(***************************************************************************)
(* The transmitter implements a serial sender.                              *)
(***************************************************************************)
LEMMA ConcatHeadTail ==
  ASSUME NEW S, NEW s \in Seq(S), NEW t \in Seq(S), s # << >>
  PROVE  s \o t # << >> /\ Head(s \o t) = Head(s) /\ Tail(s \o t) = Tail(s) \o t
<1>1. /\ s \o t \in Seq(S) /\ Len(s) \in Nat \ {0} /\ Len(t) \in Nat
      /\ Len(s \o t) = Len(s) + Len(t)
      /\ \A i \in 1 .. Len(s) + Len(t) :
           (s \o t)[i] = IF i <= Len(s) THEN s[i] ELSE t[i - Len(s)]
  BY ConcatProperties, LenProperties, EmptySeq
<1>2. s \o t # << >>
  BY <1>1, ConcatEqualIffEmpty
<1>3. /\ Tail(s) \in Seq(S) /\ Len(Tail(s)) = Len(s) - 1
      /\ \A i \in 1 .. Len(Tail(s)) : Tail(s)[i] = s[i + 1]
  BY HeadTailProperties
<1>4. /\ Tail(s \o t) \in Seq(S) /\ Len(Tail(s \o t)) = Len(s \o t) - 1
      /\ \A i \in 1 .. Len(Tail(s \o t)) : Tail(s \o t)[i] = (s \o t)[i + 1]
  BY <1>1, <1>2, HeadTailProperties
<1>5. /\ Tail(s) \o t \in Seq(S) /\ Len(Tail(s) \o t) = Len(Tail(s)) + Len(t)
      /\ \A i \in 1 .. Len(Tail(s)) + Len(t) :
           (Tail(s) \o t)[i] = IF i <= Len(Tail(s)) THEN Tail(s)[i] ELSE t[i - Len(Tail(s))]
  BY <1>3, ConcatProperties
<1>6. Len(Tail(s \o t)) = Len(Tail(s) \o t)
  BY <1>1, <1>3, <1>4, <1>5
<1>7. ASSUME NEW i \in 1 .. Len(Tail(s \o t)) PROVE Tail(s \o t)[i] = (Tail(s) \o t)[i]
  <2>1. i \in 1 .. Len(s) + Len(t) - 1 /\ i + 1 \in 1 .. Len(s) + Len(t)
    BY <1>1, <1>4
  <2>2. Tail(s \o t)[i] = IF i + 1 <= Len(s) THEN s[i + 1] ELSE t[i + 1 - Len(s)]
    BY <1>1, <1>4, <2>1
  <2>3. CASE i + 1 <= Len(s)
    BY <1>1, <1>3, <1>5, <2>1, <2>2, <2>3
  <2>4. CASE ~(i + 1 <= Len(s))
    <3>1. (Tail(s) \o t)[i] = t[i - (Len(s) - 1)]
      BY <1>1, <1>3, <1>5, <2>1, <2>4
    <3>2. i - (Len(s) - 1) = i + 1 - Len(s)
      BY <1>1, <2>1
    <3> QED
      BY <2>2, <2>4, <3>1, <3>2
  <2> QED
    BY <2>3, <2>4
<1>8. Tail(s \o t) = Tail(s) \o t
  BY <1>4, <1>5, <1>6, <1>7, SeqEqual
<1>9. Head(s \o t) = Head(s)
  BY <1>1
<1> QED
  BY <1>2, <1>8, <1>9

\* The parity bit and the stop bit that follow a word.
ParityToCome == IF LCR.sp THEN 1 - LCR.eps ELSE (TX_Parity + Ones(TX_ShiftReg)) % 2
ParityBits == IF LCR.pen THEN << ParityToCome >> ELSE << >>

LEMMA BitsToCome ==
  ASSUME TxInv
  PROVE  /\ TX_Bit_Cnt = 0 => bitsToCome = IF TX_Next_Is_Stop THEN << 1 >> ELSE << >>
         /\ TX_Bit_Cnt = 1 => bitsToCome = << >>
         /\ TX_Bit_Cnt = 10 => bitsToCome = << IF LCR.sp THEN 1 - LCR.eps ELSE TX_Parity, 1 >>
         /\ TX_Bit_Cnt \in 2..9 => bitsToCome = TX_ShiftReg \o ParityBits \o << 1 >>
BY DEF bitsToCome, ParityBits, ParityToCome, Ones

\* Each bit that is shifted out has been counted in the parity.
LEMMA ParityKept ==
  ASSUME TxInv, TX_Bit_Cnt \in 2..9, LCR' = LCR,
         TX_ShiftReg' = Tail(TX_ShiftReg), TX_Parity' = (TX_Parity + Head(TX_ShiftReg)) % 2
  PROVE  ParityToCome' = ParityToCome /\ ParityBits' = ParityBits
<1>1. /\ TX_ShiftReg \in Seq(Bit) /\ TX_ShiftReg # << >> /\ Head(TX_ShiftReg) \in 0..1
      /\ Tail(TX_ShiftReg) \in Seq(Bit) /\ TX_Parity \in 0..1
  BY Shifted DEF TxInv, Registers, Bit
<1>2. Ones(TX_ShiftReg) = Head(TX_ShiftReg) + Ones(Tail(TX_ShiftReg))
  BY <1>1, OnesTail
<1>3. Ones(Tail(TX_ShiftReg)) \in Nat
  BY <1>1, OnesFinite
<1>4. ASSUME NEW p \in 0..1, NEW h \in 0..1, NEW n \in Nat
      PROVE  (((p + h) % 2) + n) % 2 = (p + (h + n)) % 2
  <2>1. p + h \in 0..2
    OBVIOUS
  <2>2. CASE p + h = 2
    BY <2>2
  <2>3. CASE p + h \in 0..1
    BY <2>3
  <2> QED
    BY <2>1, <2>2, <2>3
<1>5. (TX_Parity' + Ones(TX_ShiftReg')) % 2 = (TX_Parity + Ones(TX_ShiftReg)) % 2
  BY <1>1, <1>2, <1>3, <1>4
<1> QED
  BY <1>5 DEF ParityToCome, ParityBits

\* A frame as the sender has it is what the transmitter makes of the word.
LEMMA FrameOfWord ==
  ASSUME LCR \in Formats, NEW w \in WordsOf(LCR.wls)
  PROVE  Sender!Frame(w) =
           w \o (IF LCR.pen THEN << IF LCR.sp THEN 1 - LCR.eps
                                    ELSE (1 - LCR.eps + Ones(w)) % 2 >> ELSE << >>) \o << 1 >>
<1>1. LCR.eps \in 0..1 /\ w \in Seq(Bit)
  BY FormatTypes, WordsWritten, WordIsSeq DEF Bit
<1>2. Ones(w) \in Nat
  BY <1>1, OnesFinite
<1>3. Sender!Ones(w) = Ones(w)
  BY DEF Sender!Ones, Ones, Sender!Cardinality, Cardinality
<1>4. Sender!ParityOf(w) = IF LCR.sp THEN 1 - LCR.eps ELSE (1 - LCR.eps + Ones(w)) % 2
  <2>1. CASE LCR.eps = 1
    BY <1>2, <1>3, <2>1 DEF Sender!ParityOf
  <2>2. CASE LCR.eps = 0
    <3>1. 1 - (Ones(w) % 2) = (1 + Ones(w)) % 2
      BY <1>2
    <3> QED
      BY <1>3, <2>2, <3>1 DEF Sender!ParityOf
  <2> QED
    BY <1>1, <2>1, <2>2
<1> QED
  BY <1>4 DEF Sender!Frame

LEMMA OneBit ==
  ASSUME NEW a \in Bit, NEW b \in Bit
  PROVE  << a >> \in Seq(Bit) /\ << a >> \o << b >> = << a, b >>
<1>1. << a >> \in [1..1 -> Bit] /\ << b >> \in [1..1 -> Bit] /\ << a, b >> \in [1..2 -> Bit]
  OBVIOUS
<1>2. << a >> \in Seq(Bit) /\ << b >> \in Seq(Bit) /\ << a, b >> \in Seq(Bit)
  BY <1>1, SeqDef
<1>3. Len(<< a >>) = 1 /\ Len(<< b >>) = 1 /\ Len(<< a, b >>) = 2
  OBVIOUS
<1>4. /\ << a >> \o << b >> \in Seq(Bit) /\ Len(<< a >> \o << b >>) = 2
      /\ (<< a >> \o << b >>)[1] = a /\ (<< a >> \o << b >>)[2] = b
  BY <1>2, <1>3, ConcatProperties
<1>5. \A i \in 1..2 : (<< a >> \o << b >>)[i] = << a, b >>[i]
  BY <1>4
<1>6. << a >> \o << b >> = << a, b >>
  BY <1>2, <1>3, <1>4, <1>5, SeqEqual
<1> QED
  BY <1>2, <1>6

\* The word accepted and not yet on the line.
wordHeld == IF THRE THEN NoWord ELSE THR

LEMMA HoldingMaps ==
  ASSUME TxInv, NEW access \in Accesses, UARTClock(access)
  PROVE  /\ ~(TX_Tick /\ TX_Bit_Cnt = 1) => Sender!Accept \/ wordHeld' = wordHeld
         /\ TX_Tick /\ TX_Bit_Cnt = 1 =>
              wordHeld = THR /\ wordHeld # NoWord /\ wordHeld' = NoWord /\ THR \in WordsOf(LCR.wls)
<1>1. /\ THRE \in BOOLEAN /\ THRE' \in BOOLEAN
      /\ THRE' => THRE \/ (TX_Tick /\ TX_Bit_Cnt = 1)
      /\ ~THRE' => \/ ~THRE /\ THR' = THR /\ ~(TX_Tick /\ TX_Bit_Cnt = 1)
                   \/ THRE /\ THR' = access.written /\ THR' \in WordsOf(LCR.wls)
      /\ TX_Tick /\ TX_Bit_Cnt = 1 => THRE'
  BY HoldingStep DEF TxInv, Registers
<1>2. TX_Bit_Cnt = 1 => ~THRE /\ THR \in WordsOf(LCR.wls) /\ THR # NoWord
  BY WordsWritten DEF TxInv, Holding, Registers
<1>3. CASE TX_Tick /\ TX_Bit_Cnt = 1
  BY <1>1, <1>2, <1>3 DEF wordHeld
<1>4. CASE ~(TX_Tick /\ TX_Bit_Cnt = 1)
  <2>1. CASE THRE'
    BY <1>1, <1>4, <2>1 DEF wordHeld
  <2>2. CASE ~THRE' /\ ~THRE
    BY <1>1, <2>2 DEF wordHeld
  <2>3. CASE ~THRE' /\ THRE
    BY <1>1, <2>3 DEF Sender!Accept
  <2> QED
    BY <1>1, <1>4, <2>1, <2>2, <2>3
<1> QED
  BY <1>3, <1>4

LEMMA SenderStep ==
  ASSUME TxInv, TxInv', NEW access \in Accesses, UARTClock(access)
  PROVE  [Sender!Next]_Sender!senderVars
<1>1. /\ LCR' = LCR /\ LCR \in Formats /\ Transmit(access.written)
      /\ LCR.wls \in 5..8 /\ LCR.pen \in BOOLEAN /\ LCR.sp \in BOOLEAN /\ LCR.eps \in 0..1
  BY ClockSteps, FormatTypes DEF TxInv, Registers, Bit
<1>2. \/ UNCHANGED << bitsToCome, TXD >> /\ ~(TX_Tick /\ TX_Bit_Cnt = 1)
      \/ /\ bitsToCome # << >> /\ TXD' = Head(bitsToCome) /\ bitsToCome' = Tail(bitsToCome)
         /\ ~(TX_Tick /\ TX_Bit_Cnt = 1)
      \/ /\ TX_Tick /\ TX_Bit_Cnt = 1
         /\ bitsToCome = << >> /\ TXD' = 0 /\ bitsToCome' = Sender!Frame(THR)
  <2>1. CASE ~TX_Tick
    <3>1. UNCHANGED << TX_Bit_Cnt, TX_ShiftReg, TX_Parity, TXD, TX_Next_Is_Stop >>
      BY <1>1, <2>1, TransmitStep
    <3>2. bitsToCome' = bitsToCome /\ TXD' = TXD
      BY <1>1, <3>1 DEF bitsToCome
    <3> QED
      BY <2>1, <3>2
  <2>2. CASE TX_Tick /\ Idle(access.written)
    <3>1. /\ TX_Bit_Cnt = 0 /\ TX_Bit_Cnt' \in 0..1 /\ TXD' = 1 /\ ~TX_Next_Is_Stop'
      BY <2>2 DEF Idle
    <3>2. bitsToCome' = << >>
      BY <3>1 DEF bitsToCome
    <3>3. CASE TX_Next_Is_Stop
      <4>1. bitsToCome = << 1 >>
        BY <3>1, <3>3, BitsToCome
      <4>2. << 1 >> # << >> /\ Head(<< 1 >>) = 1 /\ Tail(<< 1 >>) = << >>
        OBVIOUS
      <4> QED
        BY <3>1, <3>2, <4>1, <4>2
    <3>4. CASE ~TX_Next_Is_Stop
      <4>1. bitsToCome = << >> /\ TXD = 1 /\ TX_Bit_Cnt # 1
        BY <3>1, <3>4, BitsToCome DEF TxInv, Framing
      <4> QED
        BY <3>1, <3>2, <4>1
    <3> QED
      BY <3>3, <3>4
  <2>3. CASE TX_Tick /\ StartBit(access.written)
    <3>1. /\ TX_Bit_Cnt = 1 /\ TX_Bit_Cnt' = 2 /\ TXD' = 0
          /\ TX_ShiftReg' = THR /\ TX_Parity' = 1 - LCR.eps
      BY <2>3 DEF StartBit
    <3>2. bitsToCome = << >> /\ THR \in WordsOf(LCR.wls)
      BY <3>1, BitsToCome DEF TxInv, Holding
    <3>3. bitsToCome' = (TX_ShiftReg \o ParityBits \o << 1 >>)'
      BY <3>1 DEF bitsToCome, ParityBits, ParityToCome, Ones
    <3>4. bitsToCome' = Sender!Frame(THR)
      BY <1>1, <3>1, <3>2, <3>3, FrameOfWord DEF ParityBits, ParityToCome
    <3> QED
      BY <2>3, <3>1, <3>2, <3>4
  <2>4. CASE TX_Tick /\ DataBit(access.written)
    <3>1. /\ TX_Bit_Cnt \in 2..9 /\ TXD' = Head(TX_ShiftReg) /\ TX_ShiftReg' = Tail(TX_ShiftReg)
          /\ TX_Next_Is_Stop' = (TX_Bit_Cnt = LCR.wls + 1 /\ ~LCR.pen)
          /\ TX_Bit_Cnt' = IF TX_Bit_Cnt # LCR.wls + 1 THEN TX_Bit_Cnt + 1
                           ELSE IF LCR.pen THEN 10 ELSE 0
          /\ TX_Parity' = (TX_Parity + Head(TX_ShiftReg)) % 2
      BY <2>4 DEF DataBit
    <3>2. /\ TX_ShiftReg \in Seq(Bit) /\ TX_ShiftReg # << >> /\ Tail(TX_ShiftReg) \in Seq(Bit)
          /\ TX_Bit_Cnt = LCR.wls + 1 => Tail(TX_ShiftReg) = << >>
          /\ TX_Bit_Cnt <= LCR.wls + 1
      BY <3>1, Shifted DEF TxInv, Shifting
    <3>3. ParityToCome' = ParityToCome /\ ParityBits' = ParityBits
      BY <1>1, <3>1, ParityKept
    <3>4. ParityBits \in Seq(Bit) /\ << 1 >> \in Seq(Bit)
      <4>1. TX_Parity \in 0..1 /\ Ones(TX_ShiftReg) \in Nat
        BY <3>2, OnesFinite, BitRange DEF TxInv, Registers
      <4>2. ParityToCome \in Bit
        BY <1>1, <4>1 DEF ParityToCome, Bit
      <4>3. 1 \in Bit
        BY DEF Bit
      <4> QED
        BY <4>2, <4>3, OneBit, EmptySeq DEF ParityBits
    <3>5. bitsToCome = TX_ShiftReg \o ParityBits \o << 1 >>
      BY <3>1, BitsToCome
    <3>6. bitsToCome # << >> /\ Head(bitsToCome) = Head(TX_ShiftReg)
          /\ Tail(bitsToCome) = Tail(TX_ShiftReg) \o ParityBits \o << 1 >>
      <4>1. /\ TX_ShiftReg \o ParityBits # << >> /\ TX_ShiftReg \o ParityBits \in Seq(Bit)
            /\ Head(TX_ShiftReg \o ParityBits) = Head(TX_ShiftReg)
            /\ Tail(TX_ShiftReg \o ParityBits) = Tail(TX_ShiftReg) \o ParityBits
        BY <3>2, <3>4, ConcatHeadTail, ConcatProperties
      <4> QED
        BY <3>4, <3>5, <4>1, ConcatHeadTail, SMTT(30)
    <3>7. bitsToCome' = Tail(TX_ShiftReg) \o ParityBits \o << 1 >>
      <4>1. CASE TX_Bit_Cnt # LCR.wls + 1
        <5>1. TX_Bit_Cnt' \in 3..9
          BY <1>1, <3>1, <3>2, <4>1
        <5>2. bitsToCome' = (TX_ShiftReg \o ParityBits \o << 1 >>)'
          BY <5>1 DEF bitsToCome, ParityBits, ParityToCome, Ones
        <5> QED
          BY <3>1, <3>3, <5>2
      <4>2. CASE TX_Bit_Cnt = LCR.wls + 1 /\ LCR.pen
        <5>1. TX_Bit_Cnt' = 10 /\ Tail(TX_ShiftReg) = << >>
          BY <1>1, <3>1, <3>2, <4>2
        <5>2. bitsToCome' = << IF LCR.sp THEN 1 - LCR.eps ELSE TX_Parity', 1 >>
          BY <1>1, <5>1 DEF bitsToCome
        <5>3. ParityToCome' = IF LCR.sp THEN 1 - LCR.eps ELSE TX_Parity'
          <6>1. TX_Parity' \in Bit /\ TX_ShiftReg' = << >>
            BY <3>1, <5>1 DEF TxInv, Registers
          <6>2. Ones(TX_ShiftReg') = 0
            BY <6>1, OnesEmpty
          <6>3. TX_Parity' = 0 \/ TX_Parity' = 1
            BY <6>1 DEF Bit
          <6>4. (TX_Parity' + 0) % 2 = TX_Parity'
            BY <6>3
          <6> QED
            BY <1>1, <6>2, <6>4 DEF ParityToCome
        <5>4. << >> \o ParityBits \o << 1 >> = << ParityToCome, 1 >>
          <6>1. << >> \o ParityBits = << ParityToCome >>
            BY <3>4, <4>2, ConcatEmptySeq DEF ParityBits
          <6>2. ParityToCome \in Bit /\ 1 \in Bit
            <7>1. TX_Parity \in 0..1 /\ Ones(TX_ShiftReg) \in Nat
              BY <3>2, OnesFinite, BitRange DEF TxInv, Registers
            <7> QED
              BY <1>1, <7>1 DEF ParityToCome, Bit
          <6>3. << ParityToCome >> \o << 1 >> = << ParityToCome, 1 >>
            BY <6>2, OneBit
          <6> QED
            BY <6>1, <6>3
        <5> QED
          BY <3>3, <5>1, <5>2, <5>3, <5>4
      <4>3. CASE TX_Bit_Cnt = LCR.wls + 1 /\ ~LCR.pen
        <5>1. TX_Bit_Cnt' = 0 /\ Tail(TX_ShiftReg) = << >> /\ TX_Next_Is_Stop'
          BY <1>1, <3>1, <3>2, <4>3
        <5>2. bitsToCome' = << 1 >>
          BY <5>1 DEF bitsToCome
        <5>3. << >> \o ParityBits \o << 1 >> = << 1 >>
          BY <3>4, <4>3, ConcatEmptySeq DEF ParityBits
        <5> QED
          BY <5>1, <5>2, <5>3
      <4> QED
        BY <4>1, <4>2, <4>3
    <3>8. bitsToCome # << >> /\ TXD' = Head(bitsToCome) /\ bitsToCome' = Tail(bitsToCome)
      BY <3>1, <3>6, <3>7
    <3>9. TX_Bit_Cnt # 1
      BY <3>1
    <3> QED
      BY <3>8, <3>9, Zenon
  <2>5. CASE TX_Tick /\ ParityBit(access.written)
    <3>1. /\ TX_Bit_Cnt = 10 /\ TX_Bit_Cnt' = 0 /\ TX_Next_Is_Stop'
          /\ TXD' = IF LCR.sp THEN 1 - LCR.eps ELSE TX_Parity
      BY <2>5 DEF ParityBit
    <3>2. bitsToCome = << TXD', 1 >>
      BY <3>1, BitsToCome
    <3>3. bitsToCome' = << 1 >>
      BY <3>1 DEF bitsToCome
    <3>4. \A b : << b, 1 >> # << >> /\ Head(<< b, 1 >>) = b /\ Tail(<< b, 1 >>) = << 1 >>
      OBVIOUS
    <3>5. bitsToCome # << >> /\ TXD' = Head(bitsToCome) /\ bitsToCome' = Tail(bitsToCome)
      BY <3>2, <3>3, <3>4, Zenon
    <3>6. TX_Bit_Cnt # 1
      BY <3>1
    <3> QED
      BY <3>5, <3>6, Zenon
  <2> QED
    BY <1>1, <2>1, <2>2, <2>3, <2>4, <2>5, TransmitStep DEF TxStep
<1>3. CASE TX_Tick /\ TX_Bit_Cnt = 1
  <2>1. Sender!Start
    BY <1>2, <1>3, HoldingMaps DEF Sender!Start, wordHeld
  <2> QED
    BY <1>1, <2>1 DEF Sender!Next
<1>4. CASE UNCHANGED << bitsToCome, TXD >> /\ ~(TX_Tick /\ TX_Bit_Cnt = 1)
  BY <1>1, <1>4, HoldingMaps DEF Sender!Next, Sender!senderVars, wordHeld
<1>5. CASE /\ bitsToCome # << >> /\ TXD' = Head(bitsToCome) /\ bitsToCome' = Tail(bitsToCome)
           /\ ~(TX_Tick /\ TX_Bit_Cnt = 1)
  <2>1. Sender!Shift
    BY <1>5 DEF Sender!Shift
  <2> QED
    BY <1>1, <1>5, <2>1, HoldingMaps DEF Sender!Next, wordHeld
<1> QED
  BY <1>2, <1>3, <1>4, <1>5

\* Every word written goes out once, in order, as a start bit, its bits, the parity bit asked
\* for and a stop bit, and the transmitter does nothing else; that it does go out is a
\* matter of fairness (T16450.vhd:399-458).
THEOREM TransmitterIsSender == SpecUART => Sender!Spec
<1>1. InitUART => Sender!Init
  <2> SUFFICES ASSUME InitUART PROVE Sender!Init
    OBVIOUS
  <2>1. THRE = TRUE /\ TX_Bit_Cnt = 0 /\ ~TX_Next_Is_Stop /\ TXD = 1
    BY DEF InitUART, InitTx
  <2> QED
    BY <2>1 DEF Sender!Init, bitsToCome
<1>2. TxInv /\ TxInv' /\ [NextUART]_uartVars => [Sender!Next]_Sender!senderVars
  <2> SUFFICES ASSUME TxInv, TxInv', [NextUART]_uartVars
               PROVE  [Sender!Next]_Sender!senderVars
    OBVIOUS
  <2>1. CASE NextUART
    BY <2>1, SenderStep DEF NextUART
  <2>2. CASE UNCHANGED uartVars
    BY <2>2 DEF uartVars, lineVars, txVars, txState, Sender!senderVars, bitsToCome
  <2> QED
    BY <2>1, <2>2
<1> QED
  BY <1>1, <1>2, TxInvariance, PTL DEF SpecUART, Sender!Spec
-------------------------------------------------------------------------------
(***************************************************************************)
(* The lengths of the bits.  BaudOut is low on the clock after it has been  *)
(* high, that is where the divisor is 2 or more, so that the state machine  *)
(* has acted on a tick before the next enable is counted.                   *)
(***************************************************************************)
LongStop == LCR.stb /\ TX_Stop_Bit

Enabling ==
  /\ Baud_Cnt \in 0..Divisor /\ BaudOut \in BOOLEAN
  /\ BaudOut => Baud_Cnt = Divisor
  /\ TX_Tick => ~BaudOut

\* How many enables the counter of the bit tick has seen.
Counting ==
  /\ TX_Cnt \in 0..31 /\ since \in 0..32
  /\ TX_Tick => /\ since \in IF TX_Stop_Bit THEN {StopTime} ELSE {15, 16}
                /\ TX_Cnt = IF LongStop THEN 16 ELSE 31
  /\ ~TX_Tick /\ LongStop =>
       since < StopTime /\ TX_Cnt = (IF since = 0 THEN 31 ELSE since - 1)
  /\ ~TX_Tick /\ ~LongStop =>
       \/ since < 16 /\ TX_Cnt = (IF since = 0 THEN 31 ELSE since + 15)
       \/ ~TX_Stop_Bit /\ since < 15 /\ (TX_Cnt = since + 16 \/ (since = 0 /\ TX_Cnt = 0))

LEMMA EnablingStep ==
  ASSUME Divisor >= 2, Enabling, NEW access, UARTClock(access)
  PROVE  Enabling' /\ (BaudOut' => ~BaudOut)
<1>1. /\ Baud_Cnt' = IF Baud_Cnt \in {0, 1} THEN Divisor ELSE Baud_Cnt - 1
      /\ BaudOut' = (Baud_Cnt \in {0, 1})
      /\ BitTick
  BY DEF UARTClock, BaudGenerator, TxClock
<1>2. Divisor \in Nat
  BY LineAssumption
<1>3. BaudOut' => Baud_Cnt \in {0, 1}
  BY <1>1, Zenon
<1>4. BaudOut' => ~BaudOut
  BY <1>2, <1>3 DEF Enabling
<1>5. Baud_Cnt' \in 0..Divisor /\ (BaudOut' => Baud_Cnt' = Divisor)
  BY <1>1, <1>2, <1>3 DEF Enabling
<1>6. TX_Tick' => BaudOut
  BY <1>1 DEF BitTick
<1>7. BaudOut' \in BOOLEAN
  BY <1>1
<1> QED
  BY <1>4, <1>5, <1>6, <1>7 DEF Enabling

LEMMA CountingStep ==
  ASSUME Divisor >= 2, TxInv, TxInv', Enabling, Counting, NEW access \in Accesses, UARTClock(access)
  PROVE  Counting'
<1>1. /\ BitTick /\ LCR' = LCR
      /\ since' = (IF TX_Tick THEN 0 ELSE since) + (IF BaudOut THEN 1 ELSE 0)
      /\ LCR.wls \in 5..8 /\ LCR.stb \in BOOLEAN
      /\ TX_Stop_Bit' = IF TX_Tick THEN TX_Next_Is_Stop ELSE TX_Stop_Bit
      /\ TX_Tick \in BOOLEAN /\ BaudOut \in BOOLEAN
  BY ClockSteps, FormatTypes, TransmitStep DEF UARTClock, TxClock, TxInv, Registers, Enabling
<1>2. StopTime' = StopTime /\ StopTime \in {16, 24, 32} /\ (~LCR.stb => StopTime = 16)
  BY <1>1 DEF StopTime
<1>3. CASE TX_Tick
  <2>1. ~BaudOut
    BY <1>3 DEF Enabling
  <2>2. ~TX_Tick' /\ TX_Cnt' = TX_Cnt
    BY <1>1, <2>1 DEF BitTick
  <2>3. since' = 0 /\ (TX_Stop_Bit' <=> TX_Next_Is_Stop)
    BY <1>1, <1>3, <2>1
  <2>4. TX_Next_Is_Stop => ~TX_Stop_Bit
    BY DEF TxInv, Framing
  <2>5. CASE LongStop
    <3>1. ~TX_Stop_Bit' /\ TX_Cnt' = 16 /\ ~LongStop'
      BY <1>3, <2>2, <2>3, <2>4, <2>5 DEF LongStop, Counting
    <3> QED
      BY <2>2, <2>3, <3>1 DEF Counting
  <2>6. CASE ~LongStop
    <3>1. TX_Cnt' = 31
      BY <1>3, <2>2, <2>6 DEF Counting
    <3> QED
      BY <1>2, <2>2, <2>3, <3>1 DEF Counting
  <2> QED
    BY <2>5, <2>6
<1>4. CASE ~TX_Tick /\ ~BaudOut
  <2>1. ~TX_Tick' /\ TX_Cnt' = TX_Cnt
    BY <1>1, <1>4 DEF BitTick
  <2>2. since' = since /\ (TX_Stop_Bit' <=> TX_Stop_Bit) /\ (LongStop' <=> LongStop)
    BY <1>1, <1>4 DEF LongStop, Counting
  <2> QED
    BY <1>2, <1>4, <2>1, <2>2 DEF Counting
<1>5. CASE ~TX_Tick /\ BaudOut /\ LongStop
  <2>1. since' = since + 1 /\ (TX_Stop_Bit' <=> TX_Stop_Bit) /\ (LongStop' <=> LongStop)
    BY <1>1, <1>5 DEF LongStop, Counting
  <2>2. StopTime = IF LCR.wls = 5 THEN 24 ELSE 32
    BY <1>5 DEF StopTime, LongStop
  <2>3. (TX_Cnt + 1) % 32 = since /\ since \in 0..31
    BY <1>2, <1>5 DEF Counting
  <2>4. /\ TX_Tick' <=> since = StopTime - 1
        /\ TX_Cnt' = IF since = StopTime - 1 THEN 16 ELSE since
    <3>1. /\ TX_Tick' = (since = IF LCR.wls = 5 THEN 23 ELSE 31)
          /\ TX_Cnt' = IF since = (IF LCR.wls = 5 THEN 23 ELSE 31) THEN 16 ELSE since
      BY <1>1, <1>5, <2>3 DEF BitTick, LongStop
    <3>2. (IF LCR.wls = 5 THEN 23 ELSE 31) = StopTime - 1
      BY <2>2
    <3> QED
      BY <3>1, <3>2
  <2>5. CASE since = StopTime - 1
    BY <1>2, <1>5, <2>1, <2>3, <2>4, <2>5 DEF Counting, LongStop
  <2>6. CASE since # StopTime - 1
    BY <1>2, <1>5, <2>1, <2>3, <2>4, <2>6 DEF Counting, LongStop
  <2> QED
    BY <2>5, <2>6
<1>6. CASE ~TX_Tick /\ BaudOut /\ ~LongStop
  <2>1. since' = since + 1 /\ (TX_Stop_Bit' <=> TX_Stop_Bit) /\ (LongStop' <=> LongStop)
    BY <1>1, <1>6 DEF LongStop, Counting
  <2>2. /\ TX_Tick' <=> ((TX_Cnt + 1) % 32) % 16 = 15
        /\ TX_Cnt' = 16 + (((TX_Cnt + 1) % 32) % 16)
    BY <1>1, <1>6 DEF BitTick, LongStop
  <2>3. TX_Stop_Bit => StopTime = 16
    BY <1>2, <1>6 DEF LongStop
  <2>4. CASE since < 16 /\ TX_Cnt = (IF since = 0 THEN 31 ELSE since + 15)
    <3>1. since \in 0..15 /\ ((TX_Cnt + 1) % 32) % 16 = since
      BY <2>4 DEF Counting
    <3>2. CASE since = 15
      <4>1. TX_Tick' /\ TX_Cnt' = 31 /\ since' = 16 /\ ~LongStop'
        BY <1>6, <2>1, <2>2, <3>1, <3>2
      <4> QED
        BY <1>2, <2>1, <2>3, <4>1 DEF Counting
    <3>3. CASE since # 15
      BY <1>2, <2>1, <2>2, <2>3, <3>1, <3>3, <1>6 DEF Counting
    <3> QED
      BY <3>2, <3>3
  <2>5. CASE ~TX_Stop_Bit /\ since < 15 /\ (TX_Cnt = since + 16 \/ (since = 0 /\ TX_Cnt = 0))
    <3>1. since \in 0..14 /\ ((TX_Cnt + 1) % 32) % 16 = since + 1
      BY <2>5 DEF Counting
    <3>2. CASE since = 14
      BY <1>2, <1>6, <2>1, <2>2, <2>5, <3>1, <3>2 DEF Counting
    <3>3. CASE since # 14
      BY <1>2, <1>6, <2>1, <2>2, <2>5, <3>1, <3>3 DEF Counting
    <3> QED
      BY <3>2, <3>3
  <2> QED
    BY <1>6, <2>4, <2>5 DEF Counting
<1> QED
  BY <1>1, <1>3, <1>4, <1>5, <1>6

LEMMA TimingInit == InitUART => Enabling /\ Counting
<1> SUFFICES ASSUME InitUART PROVE Enabling /\ Counting
  OBVIOUS
<1>1. Baud_Cnt = 0 /\ ~BaudOut /\ ~TX_Tick /\ TX_Cnt = 0 /\ since = 0 /\ ~TX_Stop_Bit /\ ~LongStop
  BY DEF InitUART, InitLine, InitTx, LongStop
<1>2. BaudOut \in BOOLEAN
  BY Zenon DEF InitUART, InitLine
<1>3. Divisor \in Nat
  BY LineAssumption
<1> QED
  BY <1>1, <1>2, <1>3 DEF Enabling, Counting

LEMMA TimingNext ==
  ASSUME Divisor >= 2, TxInv, TxInv', Enabling, Counting, [NextUART]_uartVars
  PROVE  Enabling' /\ Counting'
<1>1. ASSUME NEW access \in Accesses, UARTClock(access) PROVE Enabling' /\ Counting'
  BY <1>1, EnablingStep, CountingStep
<1>2. CASE UNCHANGED uartVars
  BY <1>2 DEF uartVars, lineVars, txVars, txState, Enabling, Counting, LongStop, StopTime
<1> QED
  BY <1>1, <1>2 DEF NextUART

THEOREM TimingInvariance == ASSUME Divisor >= 2 PROVE SpecUART => [](Enabling /\ Counting)
<1>1. TxInv /\ TxInv' /\ Enabling /\ Counting /\ [NextUART]_uartVars => Enabling' /\ Counting'
  BY TimingNext
<1> QED
  BY <1>1, TimingInit, TxInvariance, PTL DEF SpecUART

\* The registers of the transmitter keep to their widths, and its shift register holds the
\* bits still to come (T16450.vhd:87-120, 399-458).
THEOREM TxTypeCorrect == ASSUME Divisor >= 2 PROVE SpecUART => []TypeOKTx
<1>1. TxInv /\ Enabling /\ Counting => TypeOKTx
  BY DEF TxInv, Enabling, Counting, Registers, Shifting, TypeOKTx
<1> QED
  BY <1>1, TxInvariance, TimingInvariance, PTL

\* Bits last 16 enables of RClk, or 15 after a long stop bit, and the stop bit exactly as
\* long as LCR asks (T16450.vhd:366-397).
THEOREM BitsInTime == ASSUME Divisor >= 2 PROVE SpecUART => []BitTiming
<1>1. Counting => BitTiming
  BY DEF Counting, BitTiming
<1> QED
  BY <1>1, TimingInvariance, PTL
-------------------------------------------------------------------------------
(***************************************************************************)
(* In loopback the receiver follows the transmitter: what it has counted    *)
(* and sampled is fixed by the bit on the line and by the enables since     *)
(* that bit began, up to the one enable by which a start bit may be short.  *)
(***************************************************************************)
\* What the bit on the line is, and the number of data bits up to it.
Place ==
  IF TX_Stop_Bit THEN "stop"
  ELSE IF TX_Next_Is_Stop THEN IF LCR.pen THEN "parity" ELSE "data"
  ELSE IF TX_Bit_Cnt \in 0..1 THEN "idle"
  ELSE IF TX_Bit_Cnt = 2 THEN "start"
  ELSE "data"
BitsOut == LCR.wls - Len(TX_ShiftReg)

\* Every bit after the start bit lasts 16 enables.
Regular ==
  Place \in {"data", "parity"} =>
    /\ TX_Tick => since = 16
    /\ ~TX_Tick => since < 16 /\ TX_Cnt = (IF since = 0 THEN 31 ELSE since + 15)

\* What is on the line.
Wire ==
  /\ Place \in {"idle", "stop"} => TXD = 1
  /\ Place = "start" => TXD = 0 /\ TX_Parity = 1 - LCR.eps
  /\ Place = "parity" => TXD = IF LCR.sp THEN 1 - LCR.eps ELSE TX_Parity

\* The filter lets a bit through two enables after it has begun.
Filtered ==
  /\ Samples \in Bit \X Bit /\ RX_Filtered \in Bit
  /\ Samples[1] = Samples[2] => RX_Filtered = Samples[1]
  /\ since >= 1 => Samples[1] = TXD
  /\ since >= 2 => Samples[2] = TXD
  /\ Place = "idle" => Samples[1] = 1 /\ Samples[2] = 1
  /\ Place = "start" /\ since = 0 => Samples[1] = 1 /\ Samples[2] = 1
  /\ Place = "start" /\ since = 1 => Samples[2] = 1 /\ RX_Filtered = 1

\* Where the receiver is, d enables ahead of the transmitter.
Tracks(d) ==
  /\ Place = "idle" => RX_Bit_Cnt = 0 /\ Bit_Phase = 0
  /\ Place = "start" =>
       IF since < 10 THEN RX_Bit_Cnt = 0 /\ Bit_Phase = (IF since < 2 THEN 0 ELSE since - 2)
       ELSE RX_Bit_Cnt = 1 /\ Bit_Phase = since - 10
  /\ Place = "data" =>
       IF since + d < 16 THEN RX_Bit_Cnt = BitsOut /\ Bit_Phase = since + d
       ELSE RX_Bit_Cnt = BitsOut + 1 /\ Bit_Phase = since + d - 16
  /\ Place = "parity" =>
       IF since + d < 16 THEN RX_Bit_Cnt = LCR.wls + 1 /\ Bit_Phase = since + d
       ELSE RX_Bit_Cnt = 10 /\ Bit_Phase = since + d - 16
  /\ Place = "stop" =>
       IF since + d < 16
       THEN RX_Bit_Cnt = (IF LCR.pen THEN 10 ELSE LCR.wls + 1) /\ Bit_Phase = since + d
       ELSE RX_Bit_Cnt = 0 /\ Bit_Phase = 0

Tracking == \E d \in {5, 6} : Tracks(d)

\* What the receiver has counted: the parity, and the bits that were low.
Tallies ==
  /\ RX_Parity \in Bit /\ Brk_Cnt \in 0..9
  /\ Place = "start" /\ RX_Bit_Cnt # 0 => RX_Parity = TX_Parity
  /\ Place = "data" /\ RX_Bit_Cnt = BitsOut => (RX_Parity + TXD) % 2 = TX_Parity
  /\ Place = "data" /\ RX_Bit_Cnt # BitsOut => RX_Parity = TX_Parity
  /\ Place = "parity" => RX_Parity = TX_Parity
  /\ IF RX_Bit_Cnt = 0 THEN Brk_Cnt = 0 ELSE Brk_Cnt < RX_Bit_Cnt

\* A word is on its way from its start bit until the receiver has it: in the one shift
\* register, on the line, and in the other one.
Incoming == Place \in {"start", "data", "parity"} \/ (Place = "stop" /\ RX_Bit_Cnt # 0)
Sampled == IF RX_Bit_Cnt = 0 THEN 0 ELSE IF RX_Bit_Cnt = 10 THEN LCR.wls ELSE RX_Bit_Cnt - 1

Carries(w) ==
  /\ \A i \in 1..LCR.wls : i > BitsOut => TX_ShiftReg[i - BitsOut] = w[i]
  /\ Place = "data" => TXD = w[BitsOut]
  /\ \A i \in 1..LCR.wls : i <= Sampled => RX_ShiftReg[LCR.wls - Sampled + i] = w[i]

Waiting == IF THRE THEN << >> ELSE << THR >>
Delivery ==
  /\ RX_ShiftReg \in Words(LCR.wls)
  /\ ~Incoming => inFlight = Waiting
  /\ Incoming => \E w \in Words(LCR.wls) : inFlight = << w >> \o Waiting /\ Carries(w)

\* No error has been seen.
Clean == Sound /\ ~PE

Following == Regular /\ Wire /\ Filtered /\ Tracking /\ Tallies /\ Delivery /\ Clean

LEMMA Places ==
  ASSUME TxInv
  PROVE  /\ Place \in {"idle", "start", "data", "parity", "stop"}
         /\ Place = "stop" <=> TX_Stop_Bit
         /\ Place = "parity" => LCR.pen
         /\ TX_ShiftReg \in Seq(Bit) /\ Len(TX_ShiftReg) \in Nat
         /\ Place = "start" => Len(TX_ShiftReg) = LCR.wls
         /\ Place = "data" => Len(TX_ShiftReg) \in 0 .. LCR.wls - 1
         /\ Place \in {"idle", "parity", "stop"} => TX_ShiftReg = << >> /\ Len(TX_ShiftReg) = 0
<1> USE DEF TxInv
<1>1. LCR.wls \in 5..8 /\ TX_Bit_Cnt \in 0..10 /\ TX_ShiftReg \in Seq(Bit)
  BY FormatTypes DEF Registers, Shifting
<1>2. Len(TX_ShiftReg) \in Nat /\ Len(<< >>) = 0
  BY <1>1, LenProperties
<1>3. Place \in {"idle", "start", "data", "parity", "stop"} /\ (Place = "stop" <=> TX_Stop_Bit)
  BY DEF Place
<1>4. Place = "parity" => LCR.pen /\ TX_Next_Is_Stop
  BY DEF Place
<1>5. Place = "idle" => TX_Bit_Cnt \in 0..1 /\ ~TX_Next_Is_Stop
  BY DEF Place
<1>6. Place = "start" => TX_Bit_Cnt = 2
  BY DEF Place
<1>7. Place = "data" => TX_Bit_Cnt \in 3..10 \/ TX_Next_Is_Stop
  BY <1>1 DEF Place
<1>8. TX_Next_Is_Stop => TX_Bit_Cnt = 0
  BY DEF Framing
<1>9. Place \in {"idle", "parity", "stop"} => TX_Bit_Cnt \notin 2..9
  BY <1>3, <1>4, <1>5, <1>8 DEF Framing
<1>10. TX_ShiftReg = << >> => Len(TX_ShiftReg) = 0
  BY <1>2
<1>11. Place = "start" => Len(TX_ShiftReg) = LCR.wls
  BY <1>1, <1>6 DEF Shifting
<1>12. Place = "data" => Len(TX_ShiftReg) \in 0 .. LCR.wls - 1
  BY <1>1, <1>2, <1>7, <1>8, <1>10 DEF Shifting
<1>13. Place \in {"idle", "parity", "stop"} => TX_ShiftReg = << >>
  BY <1>9 DEF Shifting
<1> QED
  BY <1>1, <1>2, <1>3, <1>4, <1>10, <1>11, <1>12, <1>13

\* What a tick does to the bit on the line, and to the word.
LEMMA PlaceStep ==
  ASSUME TxInv, TxInv', NEW access \in Accesses, UARTClock(access), TX_Tick
  PROVE  \/ /\ Place \in {"idle", "stop"} /\ Place' = "idle" /\ TXD' = 1
            /\ TX_Bit_Cnt = 0
         \/ /\ Place \in {"idle", "stop"} /\ Place' = "start" /\ TXD' = 0
            /\ TX_Bit_Cnt = 1 /\ TX_ShiftReg' = THR /\ TX_Parity' = 1 - LCR.eps
         \/ /\ Place \in {"start", "data"} /\ Place' = "data" /\ TX_ShiftReg # << >>
            /\ TX_Bit_Cnt \in 2..9
            /\ TXD' = Head(TX_ShiftReg) /\ TX_ShiftReg' = Tail(TX_ShiftReg)
            /\ TX_Parity' = (TX_Parity + Head(TX_ShiftReg)) % 2
         \/ /\ Place = "data" /\ TX_ShiftReg = << >> /\ LCR.pen /\ Place' = "parity"
            /\ TX_Bit_Cnt = 10
            /\ TXD' = (IF LCR.sp THEN 1 - LCR.eps ELSE TX_Parity)
            /\ UNCHANGED << TX_ShiftReg, TX_Parity >>
         \/ /\ \/ Place = "data" /\ TX_ShiftReg = << >> /\ ~LCR.pen
               \/ Place = "parity"
            /\ TX_Bit_Cnt = 0
            /\ Place' = "stop" /\ TXD' = 1 /\ UNCHANGED << TX_ShiftReg, TX_Parity >>
<1> USE DEF TxInv
<1>1. /\ Transmit(access.written) /\ LCR' = LCR /\ LCR.wls \in 5..8 /\ LCR.pen \in BOOLEAN
      /\ TX_Next_Is_Stop \in BOOLEAN /\ TX_Bit_Cnt \in 0..10
  BY ClockSteps, FormatTypes DEF Registers
<1>2. CASE Idle(access.written) /\ TX_Stop_Bit' = TX_Next_Is_Stop
  <2>1. /\ TX_Bit_Cnt = 0 /\ TX_Bit_Cnt' \in 0..1 /\ TXD' = 1 /\ ~TX_Next_Is_Stop'
        /\ UNCHANGED << TX_ShiftReg, TX_Parity >> /\ (TX_Stop_Bit' <=> TX_Next_Is_Stop)
    BY <1>2 DEF Idle
  <2>2. CASE TX_Next_Is_Stop
    <3>1. Place' = "stop" /\ ~TX_Stop_Bit
      BY <2>1, <2>2 DEF Place, Framing
    <3>2. Place = IF LCR.pen THEN "parity" ELSE "data"
      BY <2>2, <3>1 DEF Place
    <3>3. TX_ShiftReg = << >>
      BY <2>1 DEF Shifting
    <3> QED
      BY <1>1, <2>1, <3>1, <3>2, <3>3
  <2>3. CASE ~TX_Next_Is_Stop
    <3>1. Place' = "idle" /\ Place \in {"idle", "stop"}
      BY <2>1, <2>3 DEF Place
    <3> QED
      BY <2>1, <3>1
  <2> QED
    BY <2>2, <2>3
<1>3. CASE StartBit(access.written) /\ TX_Stop_Bit' = TX_Next_Is_Stop
  <2>1. /\ TX_Bit_Cnt = 1 /\ TX_Bit_Cnt' = 2 /\ TXD' = 0 /\ ~TX_Next_Is_Stop'
        /\ TX_Parity' = 1 - LCR.eps /\ TX_ShiftReg' = THR /\ (TX_Stop_Bit' <=> TX_Next_Is_Stop)
    BY <1>3 DEF StartBit
  <2>2. ~TX_Next_Is_Stop
    BY <2>1 DEF Framing
  <2>3. Place' = "start" /\ Place \in {"idle", "stop"}
    BY <2>1, <2>2 DEF Place
  <2> QED
    BY <2>1, <2>3
<1>4. CASE DataBit(access.written) /\ TX_Stop_Bit' = TX_Next_Is_Stop
  <2>1. /\ TX_Bit_Cnt \in 2..9 /\ TXD' = Head(TX_ShiftReg) /\ TX_ShiftReg' = Tail(TX_ShiftReg)
        /\ TX_Next_Is_Stop' = (TX_Bit_Cnt = LCR.wls + 1 /\ ~LCR.pen)
        /\ TX_Bit_Cnt' = IF TX_Bit_Cnt # LCR.wls + 1 THEN TX_Bit_Cnt + 1
                         ELSE IF LCR.pen THEN 10 ELSE 0
        /\ TX_Parity' = (TX_Parity + Head(TX_ShiftReg)) % 2
        /\ (TX_Stop_Bit' <=> TX_Next_Is_Stop)
    BY <1>4 DEF DataBit
  <2>2. ~TX_Next_Is_Stop /\ ~TX_Stop_Bit
    BY <2>1 DEF Framing
  <2>3. TX_ShiftReg # << >>
    BY <2>1, Shifted
  <2>4. Place \in {"start", "data"}
    BY <2>1, <2>2 DEF Place
  <2>5. Place' = "data"
    <3>1. CASE TX_Bit_Cnt # LCR.wls + 1
      <4>1. TX_Bit_Cnt' \in 3..10 /\ ~TX_Next_Is_Stop' /\ ~TX_Stop_Bit'
        BY <1>1, <2>1, <2>2, <3>1
      <4> QED
        BY <4>1 DEF Place
    <3>2. CASE TX_Bit_Cnt = LCR.wls + 1 /\ LCR.pen
      <4>1. TX_Bit_Cnt' = 10 /\ ~TX_Next_Is_Stop' /\ ~TX_Stop_Bit'
        BY <2>1, <2>2, <3>2
      <4> QED
        BY <4>1 DEF Place
    <3>3. CASE TX_Bit_Cnt = LCR.wls + 1 /\ ~LCR.pen
      <4>1. TX_Next_Is_Stop' /\ ~TX_Stop_Bit'
        BY <2>1, <2>2, <3>3
      <4> QED
        BY <1>1, <3>3, <4>1 DEF Place
    <3> QED
      BY <3>1, <3>2, <3>3
  <2> QED
    BY <2>1, <2>3, <2>4, <2>5
<1>5. CASE ParityBit(access.written) /\ TX_Stop_Bit' = TX_Next_Is_Stop
  <2>1. /\ TX_Bit_Cnt = 10 /\ TX_Next_Is_Stop'
        /\ TXD' = (IF LCR.sp THEN 1 - LCR.eps ELSE TX_Parity)
        /\ (TX_Stop_Bit' <=> TX_Next_Is_Stop) /\ UNCHANGED << TX_ShiftReg, TX_Parity >>
    BY <1>5 DEF ParityBit
  <2>2. ~TX_Next_Is_Stop /\ ~TX_Stop_Bit /\ LCR.pen /\ TX_ShiftReg = << >>
    BY <2>1 DEF Framing, Shifting
  <2>3. Place = "data" /\ Place' = "parity"
    BY <1>1, <2>1, <2>2 DEF Place
  <2> QED
    BY <2>1, <2>2, <2>3
<1> QED
  BY <1>1, <1>2, <1>3, <1>4, <1>5, TransmitStep DEF TxStep

\* Without a wrong parity bit no error comes up.
LEMMA StaysClean ==
  ASSUME Clean, Sound', ~WordEnd \/ ~(LCR.pen /\ ParityWrong),
         NEW rxd, NEW rbr, NEW lsr, RxClock(rxd, rbr, lsr)
  PROVE  Clean'
<1>1. PE' = ((WordEnd /\ LCR.pen /\ ParityWrong) \/ (PE /\ ~lsr))
  BY DEF RxClock, LineStatus
<1>2. ~PE'
  BY <1>1, Zenon DEF Clean
<1> QED
  BY <1>2 DEF Clean

(***************************************************************************)
(* The words in the UART: the one that is coming in, and the one in THR.    *)
(***************************************************************************)
Fresh(access) ==
  IF held # NoAccess \/ access.written = NoWord THEN << >> ELSE << access.written >>

LEMMA OneWord ==
  ASSUME NEW S, NEW w \in S
  PROVE  << w >> \in Seq(S) /\ Len(<< w >>) = 1 /\ << w >> # << >>
<1>1. << w >> \in [1..1 -> S]
  OBVIOUS
<1>2. << w >> \in Seq(S)
  BY <1>1, SeqDef
<1> QED
  BY <1>2

LEMMA FirstWord ==
  ASSUME NEW S, NEW w \in S, NEW s \in Seq(S)
  PROVE  << w >> \o s # << >> /\ Head(<< w >> \o s) = w /\ Tail(<< w >> \o s) = s
<1>1. /\ << w >> \in Seq(S) /\ << w >> # << >> /\ Head(<< w >>) = w /\ Tail(<< w >>) = << >>
  BY OneWord
<1>2. /\ << w >> \o s # << >> /\ Head(<< w >> \o s) = Head(<< w >>)
      /\ Tail(<< w >> \o s) = Tail(<< w >>) \o s
  BY <1>1, ConcatHeadTail
<1>3. << >> \o s = s
  BY ConcatEmptySeq
<1> QED
  BY <1>1, <1>2, <1>3

LEMMA FlightStep ==
  ASSUME TxInv, NEW access \in Accesses, UARTClock(access)
  PROVE  /\ inFlight' = (IF FrameEnd THEN Tail(inFlight) ELSE inFlight) \o Fresh(access)
         /\ Fresh(access) \in Seq(Words(LCR.wls)) /\ Waiting \in Seq(Words(LCR.wls))
         /\ ~(TX_Tick /\ TX_Bit_Cnt = 1) => Waiting' = Waiting \o Fresh(access)
         /\ TX_Tick /\ TX_Bit_Cnt = 1 =>
              /\ THR \in Words(LCR.wls) /\ Waiting = << THR >> /\ Waiting' = << >>
              /\ Fresh(access) = << >>
<1>1. inFlight' = (IF FrameEnd THEN Tail(inFlight) ELSE inFlight) \o Fresh(access)
  BY DEF UARTClock, Fresh
<1>2. /\ THRE \in BOOLEAN /\ THRE' \in BOOLEAN
      /\ THRE' => THRE \/ (TX_Tick /\ TX_Bit_Cnt = 1)
      /\ ~THRE' => \/ ~THRE /\ THR' = THR /\ ~(TX_Tick /\ TX_Bit_Cnt = 1)
                   \/ THRE /\ THR' = access.written /\ THR' \in WordsOf(LCR.wls)
      /\ TX_Tick /\ TX_Bit_Cnt = 1 => THRE'
      /\ TX_Bit_Cnt = 1 => access.written = NoWord /\ ~THRE
      /\ ~THRE => THR \in WordsOf(LCR.wls)
      /\ WordsOf(LCR.wls) \subseteq Words(LCR.wls) /\ NoWord \notin WordsOf(LCR.wls)
  BY HoldingStep, WordsWritten DEF TxInv, Registers, Holding
<1>3. \/ access.written = NoWord
      \/ held = NoAccess /\ THRE /\ access.written \in WordsOf(LCR.wls)
      \/ held # NoAccess /\ access = held /\ ~THRE /\ THR = access.written /\ TX_Bit_Cnt # 1
  BY Written
<1>4. Transmit(access.written)
  BY ClockSteps
<1>5. << >> \in Seq(Words(LCR.wls))
  BY EmptySeq
<1>6. Fresh(access) \in Seq(Words(LCR.wls))
  BY <1>2, <1>3, <1>5, OneWord DEF Fresh
<1>7. Waiting \in Seq(Words(LCR.wls))
  BY <1>2, <1>5, OneWord DEF Waiting
<1>8. THRE /\ access.written # NoWord => ~THRE' /\ THR' = access.written
  <2>1. \E thre, temt : Status(access.written, thre, temt)
    BY <1>4 DEF Transmit, Idle, StartBit, DataBit, ParityBit
  <2> QED
    BY <2>1 DEF Status
<1>9. CASE TX_Tick /\ TX_Bit_Cnt = 1
  BY <1>1, <1>2, <1>6, <1>7, <1>9 DEF Waiting, Fresh
<1>10. CASE ~(TX_Tick /\ TX_Bit_Cnt = 1)
  <2>1. << >> \o Fresh(access) = Fresh(access) /\ Waiting \o << >> = Waiting
    BY <1>6, <1>7, ConcatEmptySeq
  <2>2. CASE ~THRE
    <3>1. Fresh(access) = << >>
      BY <1>3, <2>2 DEF Fresh
    <3>2. ~THRE' /\ THR' = THR
      BY <1>2, <1>10, <2>2
    <3>3. Waiting' = Waiting
      BY <2>2, <3>2 DEF Waiting
    <3> QED
      BY <1>1, <1>6, <1>7, <1>10, <2>1, <3>1, <3>3
  <2>3. CASE THRE /\ access.written = NoWord
    <3>1. Fresh(access) = << >> /\ Waiting = << >>
      BY <2>3 DEF Fresh, Waiting
    <3>2. THRE'
      BY <1>2, <2>3
    <3> QED
      BY <1>1, <1>6, <1>7, <1>10, <2>1, <3>1, <3>2 DEF Waiting
  <2>4. CASE THRE /\ access.written # NoWord
    <3>1. Fresh(access) = << access.written >> /\ Waiting = << >>
      BY <1>3, <2>4 DEF Fresh, Waiting
    <3>2. Waiting' = << access.written >>
      BY <1>8, <2>4 DEF Waiting
    <3> QED
      BY <1>1, <1>6, <1>7, <1>10, <2>1, <3>1, <3>2
  <2> QED
    BY <1>2, <2>2, <2>3, <2>4
<1> QED
  BY <1>9, <1>10

\* The word that is coming in is the first one in the UART, until it is complete.
LEMMA FirstInFlight ==
  ASSUME TxInv, NEW access \in Accesses, UARTClock(access), Delivery,
         ~(TX_Tick /\ TX_Bit_Cnt = 1)
  PROVE  /\ FrameEnd /\ Incoming => inFlight' = Waiting'
         /\ ~FrameEnd /\ ~Incoming => inFlight' = Waiting'
         /\ ~FrameEnd => \A w \in Words(LCR.wls) :
              inFlight = << w >> \o Waiting => inFlight' = << w >> \o Waiting'
<1>1. /\ inFlight' = (IF FrameEnd THEN Tail(inFlight) ELSE inFlight) \o Fresh(access)
      /\ Fresh(access) \in Seq(Words(LCR.wls)) /\ Waiting \in Seq(Words(LCR.wls))
      /\ Waiting' = Waiting \o Fresh(access)
  BY FlightStep
<1>2. FrameEnd /\ Incoming => inFlight' = Waiting'
  <2> SUFFICES ASSUME FrameEnd, Incoming PROVE inFlight' = Waiting'
    OBVIOUS
  <2>1. PICK w \in Words(LCR.wls) : inFlight = << w >> \o Waiting
    BY DEF Delivery
  <2>2. Tail(inFlight) = Waiting
    BY <1>1, <2>1, FirstWord
  <2> QED
    BY <1>1, <2>2
<1>3. ~FrameEnd /\ ~Incoming => inFlight' = Waiting'
  BY <1>1 DEF Delivery
<1>4. ASSUME ~FrameEnd, NEW w \in Words(LCR.wls), inFlight = << w >> \o Waiting
      PROVE  inFlight' = << w >> \o Waiting'
  <2>1. << w >> \in Seq(Words(LCR.wls))
    BY OneWord
  <2>2. (<< w >> \o Waiting) \o Fresh(access) = << w >> \o (Waiting \o Fresh(access))
    BY <1>1, <2>1, ConcatAssociative
  <2> QED
    BY <1>1, <1>4, <2>2
<1> QED
  BY <1>2, <1>3, <1>4

(***************************************************************************)
(* The steps of both: a tick, on which the transmitter goes on to its next  *)
(* bit; an enable, on which the receiver moves; and any other clock.        *)
(***************************************************************************)
LEMMA FollowTypes ==
  ASSUME TxInv, Counting, Following
  PROVE  /\ RxTypes /\ BitsOut \in 0..8 /\ since \in 0..32
         /\ TX_Parity \in Bit /\ TXD \in Bit
         /\ Place = "data" => BitsOut \in 1..LCR.wls
         /\ Place = "start" => BitsOut = 0
         /\ Place \in {"idle", "parity", "stop"} => BitsOut = LCR.wls
         /\ Place # "stop" /\ ~TX_Tick => since \in 0..15
         /\ Place # "stop" /\ TX_Tick => since \in 15..16
         /\ Place \in {"data", "parity"} /\ TX_Tick => since = 16
         /\ Place = "stop" /\ TX_Tick => since >= 16
         /\ RX_Bit_Cnt = 10 => LCR.pen
<1>1. /\ LCR.wls \in 5..8 /\ LCR.pen \in BOOLEAN /\ LCR.sp \in BOOLEAN /\ LCR.eps \in Bit
      /\ TX_Parity \in Bit /\ TXD \in Bit
  BY FormatTypes DEF TxInv, Registers
<1>2. /\ since \in 0..32
      /\ ~TX_Stop_Bit /\ TX_Tick => since \in 15..16
      /\ ~TX_Stop_Bit /\ ~TX_Tick => since \in 0..15
  BY DEF Counting, LongStop
<1>3. TX_Stop_Bit /\ TX_Tick => since >= 16
  BY <1>1 DEF Counting, StopTime
<1>4. /\ Place \in {"idle", "start", "data", "parity", "stop"} /\ (Place = "stop" <=> TX_Stop_Bit)
      /\ Place = "parity" => LCR.pen
  BY Places
<1>5. /\ BitsOut \in 0..8
      /\ Place = "data" => BitsOut \in 1..LCR.wls
      /\ Place = "start" => BitsOut = 0
      /\ Place \in {"idle", "parity", "stop"} => BitsOut = LCR.wls
  BY <1>1, Places DEF BitsOut
<1>6. Place \in {"data", "parity"} /\ TX_Tick => since = 16
  BY DEF Following, Regular
<1>7. PICK d \in {5, 6} : Tracks(d)
  BY DEF Following, Tracking
<1>8. RX_Bit_Cnt \in 0..10 /\ Bit_Phase \in 0..15 /\ (RX_Bit_Cnt = 10 => LCR.pen)
  <2>1. CASE Place = "idle"
    BY <1>7, <2>1 DEF Tracks
  <2>2. CASE Place = "start"
    <3>1. since \in 0..16
      BY <1>2, <1>4, <2>2
    <3> QED
      BY <1>7, <2>2, <3>1 DEF Tracks
  <2>3. CASE Place = "data"
    <3>1. since \in 0..16
      BY <1>2, <1>4, <2>3
    <3> QED
      BY <1>1, <1>5, <1>7, <2>3, <3>1 DEF Tracks
  <2>4. CASE Place = "parity"
    <3>1. since \in 0..16
      BY <1>2, <1>4, <2>4
    <3> QED
      BY <1>1, <1>4, <1>7, <2>4, <3>1 DEF Tracks
  <2>5. CASE Place = "stop"
    BY <1>1, <1>2, <1>7, <2>5 DEF Tracks
  <2> QED
    BY <1>4, <2>1, <2>2, <2>3, <2>4, <2>5
<1>9. RxTypes
  BY <1>1, <1>8 DEF RxTypes, Following, Filtered, Tallies, Delivery
<1>10. /\ Place # "stop" /\ ~TX_Tick => since \in 0..15
       /\ Place # "stop" /\ TX_Tick => since \in 15..16
       /\ Place = "stop" /\ TX_Tick => since >= 16
  BY <1>2, <1>3, <1>4
<1> QED
  BY <1>1, <1>2, <1>5, <1>6, <1>8, <1>9, <1>10

\* Two enables into a bit the filter lets it through.
LEMMA FilterSettled ==
  ASSUME TxInv, Counting, Following, since >= 2
  PROVE  RX_Filtered = TXD
BY DEF Following, Filtered, Counting

\* A clock on which neither moves.
LEMMA FollowIdle ==
  ASSUME TxInv, Enabling, Counting, Following, NEW access \in Accesses, UARTClock(access),
         ~TX_Tick, ~BaudOut
  PROVE  Following' /\ ~WordEnd
<1>1. /\ LCR' = LCR /\ BitTick /\ since' = since
      /\ UNCHANGED << TX_Bit_Cnt, TX_ShiftReg, TX_Parity, TXD, TX_Next_Is_Stop, TX_Stop_Bit >>
  <2>1. LCR' = LCR /\ BitTick /\ Transmit(access.written)
    BY ClockSteps
  <2>2. since' = since + 0 /\ since \in 0..32
    BY DEF UARTClock, TxClock, Counting
  <2> QED
    BY <2>1, <2>2, TransmitStep
<1>2. ~TX_Tick' /\ TX_Cnt' = TX_Cnt
  BY <1>1 DEF BitTick
<1>3. /\ UNCHANGED << Samples, RX_Filtered, Bit_Phase, Brk_Cnt, RX_Bit_Cnt, RX_Parity,
                      RX_ShiftReg >>
      /\ ~WordEnd /\ ~FrameEnd /\ Clean'
  BY RxStill, StaysClean DEF UARTClock, Following, Filtered, Clean
<1>4. Place' = Place /\ BitsOut' = BitsOut
  BY <1>1 DEF Place, BitsOut
<1>5. Regular' /\ Wire' /\ Filtered'
  BY <1>1, <1>2, <1>3, <1>4 DEF Following, Regular, Wire, Filtered
<1>6. Tracking' /\ Tallies'
  BY <1>1, <1>3, <1>4 DEF Following, Tracking, Tracks, Tallies
<1>7. (Incoming' <=> Incoming) /\ Sampled' = Sampled
  BY <1>1, <1>3, <1>4 DEF Incoming, Sampled
<1>8. ASSUME NEW w, Carries(w) PROVE Carries(w)'
  BY <1>1, <1>3, <1>4, <1>7, <1>8 DEF Carries
<1>9. Delivery'
  <2>1. RX_ShiftReg' \in Words(LCR'.wls)
    BY <1>1, <1>3 DEF Following, Delivery
  <2>2. ~Incoming' => inFlight' = Waiting'
    BY <1>3, <1>7, FirstInFlight DEF Following
  <2>3. Incoming' => \E w \in Words(LCR'.wls) : inFlight' = << w >> \o Waiting' /\ Carries(w)'
    BY <1>1, <1>3, <1>7, <1>8, FirstInFlight DEF Following, Delivery
  <2> QED
    BY <2>1, <2>2, <2>3 DEF Delivery
<1> QED
  BY <1>3, <1>5, <1>6, <1>9 DEF Following

\* The transmitter goes on to its next bit.
LEMMA FollowTick ==
  ASSUME TxInv, TxInv', Enabling, Counting, Following,
         NEW access \in Accesses, UARTClock(access), TX_Tick
  PROVE  Following' /\ ~WordEnd
<1>1. ~BaudOut
  BY DEF Enabling
<1>2. LCR' = LCR /\ since' = 0 /\ BitTick
  <2>1. since' = 0 + 0
    BY <1>1 DEF UARTClock, TxClock
  <2> QED
    BY <2>1, ClockSteps
<1>3. ~TX_Tick' /\ TX_Cnt' = TX_Cnt /\ (Place # "stop" => TX_Cnt = 31)
  BY <1>1, <1>2, Places DEF BitTick, Counting, LongStop
<1>4. /\ UNCHANGED << Samples, RX_Filtered, Bit_Phase, Brk_Cnt, RX_Bit_Cnt, RX_Parity,
                      RX_ShiftReg >>
      /\ ~WordEnd /\ ~FrameEnd /\ Clean'
  BY <1>1, RxStill, StaysClean DEF UARTClock, Following, Filtered, Clean
<1>5. /\ LCR.wls \in 5..8 /\ LCR.pen \in BOOLEAN /\ LCR.eps \in Bit
      /\ TX_ShiftReg \in Seq(Bit) /\ TX_Parity \in Bit /\ RX_Parity \in Bit /\ TXD \in Bit
      /\ RX_ShiftReg \in Words(LCR.wls) /\ RX_Filtered \in Bit /\ RX_Bit_Cnt \in 0..10
  BY FollowTypes, Places DEF RxTypes
<1>6. PICK d \in {5, 6} : Tracks(d)
  BY DEF Following, Tracking
<1>7. Place = "stop" => RX_Bit_Cnt = 0 /\ Bit_Phase = 0 /\ Samples[1] = 1 /\ Samples[2] = 1
  <2> SUFFICES ASSUME Place = "stop"
               PROVE  RX_Bit_Cnt = 0 /\ Bit_Phase = 0 /\ Samples[1] = 1 /\ Samples[2] = 1
    OBVIOUS
  <2>1. since \in 16..32
    BY FollowTypes
  <2>2. RX_Bit_Cnt = 0 /\ Bit_Phase = 0
    BY <1>6, <2>1 DEF Tracks
  <2>3. Samples[1] = 1 /\ Samples[2] = 1
    BY <2>1 DEF Following, Filtered, Wire
  <2> QED
    BY <2>2, <2>3
<1>8. Place = "idle" => RX_Bit_Cnt = 0 /\ Bit_Phase = 0 /\ Samples[1] = 1 /\ Samples[2] = 1
  BY <1>6 DEF Tracks, Following, Filtered
\* What does not depend on the bit that follows.
<1>9. /\ Place' \in {"idle", "start"} => Place \in {"idle", "stop"}
      /\ Place' \in {"data", "parity"} => Place # "stop"
  BY PlaceStep
<1>10. Filtered'
  <2>1. Place' \in {"idle", "start"} => Samples[1] = 1 /\ Samples[2] = 1
    BY <1>7, <1>8, <1>9
  <2> QED
    BY <1>2, <1>4, <2>1 DEF Filtered, Following
<1>11. Regular'
  BY <1>2, <1>3, <1>9 DEF Regular
<1>12. Wire'
  BY <1>2, PlaceStep DEF Wire
<1>13. /\ RX_Parity' \in Bit /\ Brk_Cnt' \in 0..9
       /\ IF RX_Bit_Cnt' = 0 THEN Brk_Cnt' = 0 ELSE Brk_Cnt' < RX_Bit_Cnt'
       /\ RX_ShiftReg' \in Words(LCR'.wls)
  BY <1>2, <1>4 DEF Following, Tallies, Delivery
<1>14. Sampled' = Sampled
  BY <1>2, <1>4 DEF Sampled
\* The line stays idle.
<1>15. CASE Place \in {"idle", "stop"} /\ Place' = "idle" /\ TX_Bit_Cnt = 0
  <2>1. Tracking' /\ Tallies'
    BY <1>4, <1>7, <1>8, <1>13, <1>15 DEF Tracking, Tracks, Tallies
  <2>2. ~Incoming /\ ~Incoming'
    BY <1>7, <1>15 DEF Incoming
  <2>3. Delivery'
    BY <1>4, <1>13, <1>15, <2>2, FirstInFlight DEF Following, Delivery
  <2> QED
    BY <1>4, <1>10, <1>11, <1>12, <2>1, <2>3 DEF Following
\* A start bit.
<1>16. CASE /\ Place \in {"idle", "stop"} /\ Place' = "start"
            /\ TX_Bit_Cnt = 1 /\ TX_ShiftReg' = THR
  <2>1. RX_Bit_Cnt = 0 /\ Bit_Phase = 0
    BY <1>7, <1>8, <1>16
  <2>2. Tracking' /\ Tallies'
    BY <1>2, <1>4, <1>13, <1>16, <2>1 DEF Tracking, Tracks, Tallies
  <2>3. ~Incoming /\ Incoming' /\ Sampled' = 0
    BY <1>14, <1>16, <2>1 DEF Incoming, Sampled
  <2>4. /\ THR \in Words(LCR.wls) /\ Waiting' = << >> /\ inFlight = << THR >>
        /\ inFlight' = inFlight \o << >>
    BY <1>4, <1>16, <2>3, FlightStep DEF Following, Delivery
  <2>5. inFlight' = << THR >> \o Waiting'
    BY <2>4
  <2>6. BitsOut' = 0
    <3>1. Len(THR) = LCR.wls
      BY <1>5, <2>4, WordIsSeq
    <3> QED
      BY <1>2, <1>5, <1>16, <3>1 DEF BitsOut
  <2>7. PICK w \in Words(LCR.wls) : w = THR
    BY <2>4
  <2>8. Carries(w)'
    <3>1. \A i \in 1..LCR.wls : TX_ShiftReg'[i - 0] = w[i]
      BY <1>5, <1>16, <2>7
    <3>2. \A i \in 1..LCR.wls : ~(i <= 0)
      BY <1>5
    <3> QED
      BY <1>2, <1>16, <2>3, <2>6, <3>1, <3>2 DEF Carries
  <2>9. Delivery'
    BY <1>2, <1>13, <2>3, <2>5, <2>7, <2>8 DEF Delivery
  <2> QED
    BY <1>4, <1>10, <1>11, <1>12, <2>2, <2>9 DEF Following
\* A bit of the word.
<1>17. CASE /\ Place \in {"start", "data"} /\ Place' = "data" /\ TX_ShiftReg # << >>
            /\ TX_Bit_Cnt \in 2..9
            /\ TXD' = Head(TX_ShiftReg) /\ TX_ShiftReg' = Tail(TX_ShiftReg)
            /\ TX_Parity' = (TX_Parity + Head(TX_ShiftReg)) % 2
  <2>1. /\ BitsOut \in 0 .. LCR.wls - 1 /\ BitsOut' = BitsOut + 1
        /\ Head(TX_ShiftReg) = TX_ShiftReg[1]
        /\ \A i \in 1 .. Len(TX_ShiftReg) - 1 : Tail(TX_ShiftReg)[i] = TX_ShiftReg[i + 1]
        /\ Len(TX_ShiftReg) = LCR.wls - BitsOut
    <3>1. /\ Len(TX_ShiftReg) \in Nat /\ Len(TX_ShiftReg) # 0
          /\ Len(Tail(TX_ShiftReg)) = Len(TX_ShiftReg) - 1
          /\ Head(TX_ShiftReg) = TX_ShiftReg[1]
          /\ \A i \in 1 .. Len(TX_ShiftReg) - 1 : Tail(TX_ShiftReg)[i] = TX_ShiftReg[i + 1]
      BY <1>5, <1>17, LenProperties, EmptySeq, HeadTailProperties
    <3>2. Len(TX_ShiftReg) <= LCR.wls
      BY <1>5, <1>17, Places
    <3>3. BitsOut = LCR.wls - Len(TX_ShiftReg) /\ BitsOut' = LCR.wls - (Len(TX_ShiftReg) - 1)
      BY <1>2, <1>17, <3>1 DEF BitsOut
    <3>4. BitsOut \in 0 .. LCR.wls - 1 /\ BitsOut' = BitsOut + 1 /\ Len(TX_ShiftReg) = LCR.wls - BitsOut
      BY <1>5, <3>1, <3>2, <3>3
    <3> QED
      BY <3>1, <3>4
  <2>2. /\ RX_Bit_Cnt = BitsOut + 1 /\ Bit_Phase \in {5, 6}
        /\ RX_Parity = TX_Parity
    <3>1. CASE Place = "start"
      <4>1. BitsOut = 0 /\ since \in 15..16
        BY <3>1, FollowTypes
      <4> QED
        BY <1>6, <3>1, <4>1 DEF Tracks, Following, Tallies
    <3>2. CASE Place = "data"
      <4>1. BitsOut \in 1..8 /\ since = 16
        BY <1>5, <3>2, FollowTypes
      <4>2. RX_Bit_Cnt = BitsOut + 1 /\ Bit_Phase = d
        BY <1>6, <3>2, <4>1 DEF Tracks
      <4>3. RX_Bit_Cnt # BitsOut
        BY <4>1, <4>2
      <4> QED
        BY <1>6, <3>2, <4>2, <4>3 DEF Following, Tallies
    <3> QED
      BY <1>17, <3>1, <3>2
  <2>3. Tracks(Bit_Phase)'
    BY <1>2, <1>4, <1>17, <2>1, <2>2 DEF Tracks
  <2>4. Tracking'
    BY <1>4, <2>2, <2>3 DEF Tracking
  <2>5. Tallies'
    BY <1>4, <1>13, <1>17, <2>1, <2>2 DEF Tallies
  <2>6. Incoming /\ Incoming'
    BY <1>17 DEF Incoming
  <2>7. ASSUME NEW w \in Words(LCR.wls), Carries(w) PROVE Carries(w)'
    <3>1. \A i \in 1..LCR.wls : i > BitsOut + 1 => TX_ShiftReg'[i - (BitsOut + 1)] = w[i]
      <4> SUFFICES ASSUME NEW i \in 1..LCR.wls, i > BitsOut + 1
                   PROVE  TX_ShiftReg'[i - (BitsOut + 1)] = w[i]
        OBVIOUS
      <4>1. i - (BitsOut + 1) \in 1 .. Len(TX_ShiftReg) - 1
        BY <1>5, <2>1, SMTT(30)
      <4>2. (i - (BitsOut + 1)) + 1 = i - BitsOut /\ i > BitsOut
        BY <1>5, <2>1
      <4> QED
        BY <1>17, <2>1, <2>7, <4>1, <4>2 DEF Carries
    <3>2. TXD' = w[BitsOut + 1]
      <4>1. BitsOut + 1 \in 1..LCR.wls /\ BitsOut + 1 > BitsOut /\ (BitsOut + 1) - BitsOut = 1
        BY <1>5, <2>1
      <4> QED
        BY <1>17, <2>1, <2>7, <4>1 DEF Carries
    <3>3. \A i \in 1..LCR.wls : i <= Sampled' => RX_ShiftReg'[LCR.wls - Sampled' + i] = w[i]
      BY <1>4, <1>14, <2>7 DEF Carries
    <3> QED
      BY <1>2, <2>1, <3>1, <3>2, <3>3 DEF Carries
  <2>8. PICK w \in Words(LCR.wls) : inFlight = << w >> \o Waiting /\ Carries(w)
    BY <2>6 DEF Following, Delivery
  <2>9. TX_Bit_Cnt # 1 /\ Delivery
    BY <1>17 DEF Following
  <2>10. inFlight' = << w >> \o Waiting' /\ Carries(w)'
    BY <1>4, <2>7, <2>8, <2>9, FirstInFlight
  <2>11. Delivery'
    BY <1>2, <1>13, <2>6, <2>10 DEF Delivery
  <2> QED
    BY <1>4, <1>10, <1>11, <1>12, <2>4, <2>5, <2>11 DEF Following
\* What follows the word.
<1>18. CASE /\ \/ Place = "data" /\ TX_ShiftReg = << >> /\ LCR.pen /\ Place' = "parity"
               \/ Place = "data" /\ TX_ShiftReg = << >> /\ ~LCR.pen /\ Place' = "stop"
               \/ Place = "parity" /\ Place' = "stop"
            /\ UNCHANGED << TX_ShiftReg, TX_Parity >> /\ TX_Bit_Cnt \in {0, 10}
  <2>1. BitsOut = LCR.wls /\ BitsOut' = BitsOut
    <3>1. Len(TX_ShiftReg) = 0
      BY <1>18, Places
    <3> QED
      BY <1>2, <1>5, <1>18, <3>1 DEF BitsOut
  <2>2. since = 16
    BY <1>18, FollowTypes
  <2>3. /\ Place = "data" => RX_Bit_Cnt = LCR.wls + 1
        /\ Place = "parity" => RX_Bit_Cnt = 10 /\ LCR.pen
        /\ Bit_Phase = d
    BY <1>6, <1>18, <2>1, <2>2, Places DEF Tracks
  <2>4. Tracks(d)'
    BY <1>2, <1>4, <1>5, <1>18, <2>3 DEF Tracks
  <2>5. RX_Parity = TX_Parity
    <3>1. RX_Bit_Cnt # BitsOut
      BY <1>5, <1>18, <2>1, <2>3
    <3> QED
      BY <1>18, <3>1 DEF Following, Tallies
  <2>6. Tallies'
    BY <1>4, <1>13, <1>18, <2>5 DEF Tallies
  <2>7. Incoming /\ Incoming'
    BY <1>4, <1>5, <1>18, <2>3 DEF Incoming
  <2>8. ASSUME NEW w \in Words(LCR.wls), Carries(w) PROVE Carries(w)'
    BY <1>2, <1>4, <1>14, <1>18, <2>1, <2>8 DEF Carries
  <2>9. PICK w \in Words(LCR.wls) : inFlight = << w >> \o Waiting /\ Carries(w)
    BY <2>7 DEF Following, Delivery
  <2>10. TX_Bit_Cnt # 1 /\ Delivery
    BY <1>18 DEF Following
  <2>11. inFlight' = << w >> \o Waiting' /\ Carries(w)'
    BY <1>4, <2>8, <2>9, <2>10, FirstInFlight
  <2>12. Delivery'
    BY <1>2, <1>13, <2>7, <2>11 DEF Delivery
  <2> QED
    BY <1>4, <1>10, <1>11, <1>12, <1>6, <2>4, <2>6, <2>12 DEF Following, Tracking
<1> QED
  BY <1>4, <1>15, <1>16, <1>17, <1>18, PlaceStep

\* An enable: the filter, and the bit tick that the transmitter will act on.
LEMMA FollowFilter ==
  ASSUME TxInv, Enabling, Counting, Following, NEW access \in Accesses, UARTClock(access),
         ~TX_Tick, BaudOut
  PROVE  /\ LCR' = LCR /\ since' = since + 1 /\ Place' = Place /\ BitsOut' = BitsOut
         /\ UNCHANGED << TX_Bit_Cnt, TX_ShiftReg, TX_Parity, TXD >>
         /\ Regular' /\ Wire' /\ Filtered'
<1>1. /\ LCR' = LCR /\ BitTick /\ since' = since + 1
      /\ UNCHANGED << TX_Bit_Cnt, TX_ShiftReg, TX_Parity, TXD, TX_Next_Is_Stop, TX_Stop_Bit >>
  <2>1. LCR' = LCR /\ BitTick /\ Transmit(access.written)
    BY ClockSteps
  <2>2. since' = since + 1
    BY DEF UARTClock, TxClock
  <2> QED
    BY <2>1, <2>2, TransmitStep
<1>2. Place' = Place /\ BitsOut' = BitsOut
  BY <1>1 DEF Place, BitsOut
<1>3. Regular'
  <2> SUFFICES ASSUME Place \in {"data", "parity"}
               PROVE  /\ TX_Tick' => since' = 16
                      /\ ~TX_Tick' => /\ since' < 16
                                      /\ TX_Cnt' = (IF since' = 0 THEN 31 ELSE since' + 15)
    BY <1>2 DEF Regular
  <2>1. since \in 0..15 /\ TX_Cnt = (IF since = 0 THEN 31 ELSE since + 15)
    BY FollowTypes DEF Following, Regular
  <2>2. ~TX_Stop_Bit
    BY Places
  <2>3. /\ TX_Tick' <=> ((TX_Cnt + 1) % 32) % 16 = 15
        /\ TX_Cnt' = 16 + (((TX_Cnt + 1) % 32) % 16)
    BY <1>1, <2>2 DEF BitTick
  <2>4. ((TX_Cnt + 1) % 32) % 16 = since
    BY <2>1
  <2> QED
    BY <1>1, <2>1, <2>3, <2>4
<1>4. Wire'
  BY <1>1, <1>2 DEF Following, Wire
<1>5. Filtered'
  <2>1. Samples' = << TXD, Samples[1] >>
    BY DEF UARTClock, RxClock, Filter, RXD
  <2>2. RX_Filtered' = IF Samples'[1] = Samples'[2] THEN Samples'[1] ELSE RX_Filtered
    BY DEF UARTClock, RxClock, Filter
  <2>3. Samples[1] \in Bit /\ RX_Filtered \in Bit /\ TXD \in Bit /\ since \in 0..32
    BY FollowTypes DEF Following, Filtered
  <2>4. Samples'[1] = TXD /\ Samples'[2] = Samples[1]
    BY <2>1
  <2>5. Samples' \in Bit \X Bit /\ RX_Filtered' \in Bit
    BY <2>1, <2>2, <2>3, <2>4
  <2>6. since' >= 2 => Samples'[2] = TXD
    <3>1. since' >= 2 => since >= 1
      BY <1>1, <2>3
    <3> QED
      BY <2>4, <3>1 DEF Following, Filtered
  <2>7. Place = "idle" => Samples'[1] = 1 /\ Samples'[2] = 1
    BY <2>4 DEF Following, Filtered, Wire
  <2>8. Place = "start" /\ since' = 1 => Samples'[2] = 1 /\ RX_Filtered' = 1
    <3> SUFFICES ASSUME Place = "start", since' = 1
                 PROVE  Samples'[2] = 1 /\ RX_Filtered' = 1
      OBVIOUS
    <3>1. since = 0
      BY <1>1, <2>3
    <3>2. Samples[1] = 1 /\ RX_Filtered = 1 /\ TXD = 0
      BY <3>1 DEF Following, Filtered, Wire
    <3> QED
      BY <2>2, <2>4, <3>2
  <2>9. since' # 0
    BY <1>1, <2>3
  <2> QED
    BY <1>1, <1>2, <2>2, <2>4, <2>5, <2>6, <2>7, <2>8, <2>9 DEF Filtered
<1> QED
  BY <1>1, <1>2, <1>3, <1>4, <1>5

\* An enable on which the receiver comes to the middle of no bit but, perhaps, the start bit.
LEMMA FollowBetween ==
  ASSUME TxInv, Enabling, Counting, Following, NEW access \in Accesses, UARTClock(access),
         ~TX_Tick, BaudOut, Tracking', Sound',
         ~FrameEnd, ~WordEnd, UNCHANGED << Brk_Cnt, RX_ShiftReg >>,
         \/ UNCHANGED << RX_Bit_Cnt, RX_Parity >>
         \/ /\ Place = "start" /\ RX_Bit_Cnt = 0
            /\ RX_Bit_Cnt' = 1 /\ RX_Parity' = 1 - LCR.eps
  PROVE  Following'
<1>1. /\ LCR' = LCR /\ since' = since + 1 /\ Place' = Place /\ BitsOut' = BitsOut
      /\ UNCHANGED << TX_Bit_Cnt, TX_ShiftReg, TX_Parity, TXD >>
      /\ Regular' /\ Wire' /\ Filtered' /\ Clean'
  BY FollowFilter, StaysClean DEF UARTClock, Following
<1>2. RxTypes /\ LCR.wls \in 5..8
  BY FollowTypes DEF RxTypes
<1>3. Tallies'
  <2>1. CASE UNCHANGED << RX_Bit_Cnt, RX_Parity >>
    BY <1>1, <2>1 DEF Following, Tallies
  <2>2. CASE /\ Place = "start" /\ RX_Bit_Cnt = 0
             /\ RX_Bit_Cnt' = 1 /\ RX_Parity' = 1 - LCR.eps
    <3>1. Brk_Cnt = 0 /\ TX_Parity = 1 - LCR.eps /\ TX_Parity \in Bit
      BY <2>2, FollowTypes DEF Following, Tallies, Wire
    <3> QED
      BY <1>1, <2>2, <3>1 DEF Tallies
  <2> QED
    BY <2>1, <2>2
<1>4. (Incoming' <=> Incoming) /\ Sampled' = Sampled
  <2>1. CASE UNCHANGED << RX_Bit_Cnt, RX_Parity >>
    BY <1>1, <2>1 DEF Incoming, Sampled
  <2>2. CASE Place = "start" /\ RX_Bit_Cnt = 0 /\ RX_Bit_Cnt' = 1
    BY <1>1, <2>2 DEF Incoming, Sampled
  <2> QED
    BY <2>1, <2>2
<1>5. ASSUME NEW w, Carries(w) PROVE Carries(w)'
  BY <1>1, <1>4, <1>5 DEF Carries
<1>6. Delivery'
  <2>1. RX_ShiftReg' \in Words(LCR'.wls) /\ Delivery
    BY <1>1 DEF Following, Delivery
  <2>2. ~Incoming' => inFlight' = Waiting'
    BY <1>4, <2>1, FirstInFlight
  <2>3. Incoming' => \E w \in Words(LCR'.wls) : inFlight' = << w >> \o Waiting' /\ Carries(w)'
    BY <1>1, <1>4, <1>5, <2>1, FirstInFlight DEF Delivery
  <2> QED
    BY <2>1, <2>2, <2>3 DEF Delivery
<1> QED
  BY <1>1, <1>3, <1>6 DEF Following

LEMMA FollowEnable ==
  ASSUME TxInv, Enabling, Counting, Following, NEW access \in Accesses, UARTClock(access),
         ~TX_Tick, BaudOut
  PROVE  Following' /\ (WordEnd => inFlight # << >> /\ RX_ShiftReg = Head(inFlight))
<1>1. /\ LCR' = LCR /\ since' = since + 1 /\ Place' = Place /\ BitsOut' = BitsOut
      /\ UNCHANGED << TX_Bit_Cnt, TX_ShiftReg, TX_Parity, TXD >>
      /\ Regular' /\ Wire' /\ Filtered'
  BY FollowFilter
<1>2. RxTypes /\ Clean /\ Sound /\ RxClock(RXD, access.readRBR, access.readLSR)
  BY FollowTypes DEF Following, UARTClock, Clean
<1>3. /\ LCR.wls \in 5..8 /\ LCR.pen \in BOOLEAN /\ LCR.sp \in BOOLEAN /\ LCR.eps \in Bit
      /\ TX_Parity \in Bit /\ RX_Parity \in Bit /\ TXD \in Bit /\ RX_Filtered \in Bit
      /\ since \in 0..32 /\ (Place # "stop" => since \in 0..15)
      /\ RX_ShiftReg \in Words(LCR.wls) /\ RX_Bit_Cnt \in 0..10 /\ Brk_Cnt \in 0..9
      /\ RX_Bit_Cnt = 10 => LCR.pen
  BY FollowTypes DEF RxTypes
<1>4. PICK d \in {5, 6} : Tracks(d)
  BY DEF Following, Tracking
<1>5. Tracks(d)' => Tracking'
  BY DEF Tracking
<1>6. since >= 2 => RX_Filtered = TXD
  BY FilterSettled
\* Nothing on the line.
<1>7. CASE Place = "idle"
  <2>1. RX_Bit_Cnt = 0 /\ Bit_Phase = 0 /\ RX_Filtered = 1
    BY <1>4, <1>7 DEF Tracks, Following, Filtered
  <2>2. /\ ~WordEnd /\ ~FrameEnd /\ Sound' /\ UNCHANGED << Brk_Cnt, RX_ShiftReg >>
        /\ RX_Bit_Cnt' = 0 /\ RX_Parity' = RX_Parity /\ Bit_Phase' = 0
    BY <1>2, <2>1, RxQuiet
  <2>3. Tracks(d)'
    BY <1>1, <1>7, <2>2 DEF Tracks
  <2> QED
    BY <1>5, <2>1, <2>2, <2>3, FollowBetween
\* The start bit, before its middle, in its middle, and after it.
<1>8. CASE Place = "start" /\ since < 10
  <2>1. RX_Bit_Cnt = 0 /\ Bit_Phase = (IF since < 2 THEN 0 ELSE since - 2) /\ Bit_Phase \in 0..7
    BY <1>3, <1>4, <1>8 DEF Tracks
  <2>2. since < 2 => RX_Filtered = 1
    BY <1>3, <1>8 DEF Following, Filtered
  <2>3. since >= 2 => RX_Filtered = 0
    BY <1>6, <1>8 DEF Following, Wire
  <2>4. /\ ~WordEnd /\ ~FrameEnd /\ Sound' /\ UNCHANGED << Brk_Cnt, RX_ShiftReg >>
        /\ Bit_Phase = 7 => RX_Bit_Cnt' = 1 /\ Bit_Phase' = 0 /\ RX_Parity' = 1 - LCR.eps
        /\ Bit_Phase # 7 => /\ RX_Bit_Cnt' = 0 /\ RX_Parity' = RX_Parity
                            /\ Bit_Phase' = IF RX_Filtered = 1 THEN 0 ELSE Bit_Phase + 1
    BY <1>2, <2>1, RxQuiet
  <2>5. CASE since = 9
    <3>1. Bit_Phase = 7
      BY <2>1, <2>5
    <3>2. Tracks(d)'
      BY <1>1, <1>8, <2>4, <2>5, <3>1 DEF Tracks
    <3> QED
      BY <1>5, <1>8, <2>1, <2>4, <3>1, <3>2, FollowBetween
  <2>6. CASE since # 9
    <3>1. Bit_Phase # 7 /\ Bit_Phase' = (IF since + 1 < 2 THEN 0 ELSE (since + 1) - 2)
      BY <1>3, <1>8, <2>1, <2>2, <2>3, <2>4, <2>6
    <3>2. Tracks(d)'
      BY <1>1, <1>3, <1>8, <2>4, <2>6, <3>1 DEF Tracks
    <3> QED
      BY <1>5, <2>1, <2>4, <3>1, <3>2, FollowBetween
  <2> QED
    BY <2>5, <2>6
<1>9. CASE Place = "start" /\ since >= 10
  <2>1. RX_Bit_Cnt = 1 /\ Bit_Phase = since - 10 /\ Bit_Phase # 15
    BY <1>3, <1>4, <1>9 DEF Tracks
  <2>2. /\ ~WordEnd /\ ~FrameEnd /\ Sound' /\ Bit_Phase' = Bit_Phase + 1
        /\ UNCHANGED << Brk_Cnt, RX_ShiftReg, RX_Bit_Cnt, RX_Parity >>
    BY <1>2, <2>1, RxWithin
  <2>3. Tracks(d)'
    BY <1>1, <1>3, <1>9, <2>1, <2>2 DEF Tracks
  <2> QED
    BY <1>5, <2>2, <2>3, FollowBetween
\* Any other bit, away from its middle.
<1>10. CASE Place \in {"data", "parity", "stop"} /\ RX_Bit_Cnt # 0 /\ Bit_Phase # 15
  <2>1. /\ ~WordEnd /\ ~FrameEnd /\ Sound' /\ Bit_Phase' = Bit_Phase + 1
        /\ UNCHANGED << Brk_Cnt, RX_ShiftReg, RX_Bit_Cnt, RX_Parity >>
    BY <1>2, <1>10, RxWithin
  <2>2. Tracks(d)'
    <3>1. CASE since + d < 16
      <4>1. Bit_Phase = since + d /\ (since + 1) + d < 16
        BY <1>3, <1>4, <1>10, <3>1 DEF Tracks
      <4> QED
        BY <1>1, <1>3, <1>4, <1>10, <2>1, <3>1, <4>1 DEF Tracks
    <3>2. CASE since + d >= 16
      <4>1. Bit_Phase = since + d - 16 /\ ~((since + 1) + d < 16) /\ Place # "stop"
        BY <1>3, <1>4, <1>10, <3>2 DEF Tracks
      <4> QED
        BY <1>1, <1>3, <1>4, <1>10, <2>1, <3>2, <4>1 DEF Tracks
    <3> QED
      BY <1>3, <3>1, <3>2
  <2> QED
    BY <1>5, <2>1, <2>2, FollowBetween
\* The middle of a bit of the word.
<1>11. CASE Place = "data" /\ RX_Bit_Cnt # 0 /\ Bit_Phase = 15
  <2>1. BitsOut \in 1..LCR.wls
    BY <1>11, FollowTypes
  <2>2. RX_Bit_Cnt = BitsOut /\ since + d = 15 /\ since >= 2
    BY <1>3, <1>4, <1>11 DEF Tracks
  <2>3. RX_Filtered = TXD
    BY <1>6, <2>2
  <2>4. ~WordEnd /\ ~FrameEnd
    BY <1>3, <2>1, <2>2 DEF WordEnd, FrameEnd, MidBit
  <2>5. /\ Sound' /\ Bit_Phase' = 0 /\ RX_Bit_Cnt' = RX_Bit_Cnt + 1
        /\ Brk_Cnt' = IF RX_Filtered = 1 THEN 0 ELSE Brk_Cnt + 1
        /\ RX_Parity' = (RX_Parity + RX_Filtered) % 2
        /\ RX_ShiftReg' = Append(Tail(RX_ShiftReg), RX_Filtered)
    BY <1>2, <1>3, <1>11, <2>1, <2>2, <2>4, RxMiddle
  <2>6. Tracks(d)'
    BY <1>1, <1>3, <1>11, <2>1, <2>2, <2>5 DEF Tracks
  <2>7. Tallies'
    <3>1. RX_Parity' = TX_Parity
      BY <1>11, <2>2, <2>3, <2>5 DEF Following, Tallies
    <3>2. Brk_Cnt' < RX_Bit_Cnt' /\ Brk_Cnt' \in 0..9 /\ RX_Bit_Cnt' # 0 /\ RX_Bit_Cnt' # BitsOut
      BY <1>3, <1>11, <2>1, <2>2, <2>5 DEF Following, Tallies
    <3> QED
      BY <1>1, <1>3, <1>11, <3>1, <3>2 DEF Tallies
  <2>8. Incoming /\ Incoming' /\ Delivery
    BY <1>1, <1>11 DEF Incoming, Following
  <2>9. PICK w \in Words(LCR.wls) : inFlight = << w >> \o Waiting /\ Carries(w)
    BY <2>8 DEF Delivery
  <2>10. Sampled = BitsOut - 1 /\ Sampled' = BitsOut /\ TXD = w[BitsOut]
    <3>1. RX_Bit_Cnt # 0 /\ RX_Bit_Cnt # 10 /\ RX_Bit_Cnt' # 0 /\ RX_Bit_Cnt' # 10
      BY <1>3, <2>1, <2>2, <2>5
    <3> QED
      BY <1>11, <2>1, <2>2, <2>5, <2>9, <3>1 DEF Sampled, Carries
  <2>11. /\ RX_ShiftReg' \in Words(LCR.wls)
         /\ \A i \in 1..LCR.wls : i <= BitsOut => RX_ShiftReg'[LCR.wls - BitsOut + i] = w[i]
    <3>1. \A i \in 1..LCR.wls :
            i <= BitsOut - 1 => RX_ShiftReg[LCR.wls - (BitsOut - 1) + i] = w[i]
      BY <2>9, <2>10 DEF Carries
    <3>2. RX_ShiftReg' = Append(Tail(RX_ShiftReg), w[BitsOut])
      BY <2>3, <2>5, <2>10
    <3> QED
      BY <1>3, <2>1, <3>1, <3>2, BitSampled
  <2>12. Carries(w)'
    BY <1>1, <2>9, <2>10, <2>11 DEF Carries
  <2>13. inFlight' = << w >> \o Waiting'
    BY <2>4, <2>8, <2>9, FirstInFlight
  <2>14. Delivery'
    BY <1>1, <2>8, <2>11, <2>12, <2>13 DEF Delivery
  <2> QED
    BY <1>1, <1>5, <2>4, <2>5, <1>2, <2>6, <2>7, <2>14, StaysClean DEF Following
\* The middle of the bit that follows the word: the parity bit or the stop bit.
<1>12. CASE Place \in {"parity", "stop"} /\ RX_Bit_Cnt # 0 /\ Bit_Phase = 15
  <2>1. /\ since + d = 15 /\ since >= 2 /\ BitsOut = LCR.wls
        /\ Place = "parity" => RX_Bit_Cnt = LCR.wls + 1 /\ LCR.pen
        /\ Place = "stop" => RX_Bit_Cnt = IF LCR.pen THEN 10 ELSE LCR.wls + 1
    BY <1>3, <1>4, <1>12, FollowTypes, Places DEF Tracks
  <2>2. RX_Filtered = TXD
    BY <1>6, <2>1
  <2>3. /\ WordEnd <=> RX_Bit_Cnt = LCR.wls + 1
        /\ FrameEnd <=> Place = "stop"
    <3>1. WordEnd <=> RX_Bit_Cnt = LCR.wls + 1
      BY <1>12 DEF WordEnd, MidBit
    <3>2. FrameEnd <=> RX_Bit_Cnt = IF LCR.pen THEN 10 ELSE LCR.wls + 1
      BY <1>12 DEF FrameEnd, MidBit
    <3> QED
      BY <1>3, <1>12, <2>1, <3>1, <3>2
  <2>4. FrameEnd => RX_Filtered = 1
    BY <2>2, <2>3 DEF Following, Wire
  <2>5. WordEnd => ~(LCR.pen /\ ParityWrong)
    <3> SUFFICES ASSUME WordEnd, LCR.pen PROVE ~ParityWrong
      OBVIOUS
    <3>1. Place = "parity"
      BY <1>3, <1>12, <2>1, <2>3
    <3>2. RX_Parity = TX_Parity /\ TXD = IF LCR.sp THEN 1 - LCR.eps ELSE TX_Parity
      BY <3>1 DEF Following, Tallies, Wire
    <3>3. LCR.eps = 0 \/ LCR.eps = 1
      BY <1>3 DEF Bit
    <3>4. 1 - LCR.eps # LCR.eps
      BY <3>3
    <3> QED
      BY <2>2, <3>2, <3>4 DEF ParityWrong
  <2>6. /\ Sound' /\ Bit_Phase' = 0
        /\ Brk_Cnt' = IF RX_Filtered = 1 THEN 0 ELSE Brk_Cnt + 1
        /\ UNCHANGED << RX_Parity, RX_ShiftReg >>
        /\ RX_Bit_Cnt = LCR.wls + 1 => RX_Bit_Cnt' = IF LCR.pen THEN 10 ELSE 0
        /\ RX_Bit_Cnt = 10 => RX_Bit_Cnt' = 0
    <3>1. RX_Bit_Cnt > LCR.wls
      BY <1>3, <1>12, <2>1
    <3> QED
      BY <1>2, <1>3, <1>12, <2>4, <3>1, RxMiddle
  <2>6a. Clean'
    BY <1>2, <2>5, <2>6, StaysClean
  <2>7. RX_Bit_Cnt' = IF Place = "parity" THEN 10 ELSE 0
    BY <1>3, <1>12, <2>1, <2>6
  <2>8. Tracks(d)'
    BY <1>1, <1>3, <1>12, <2>1, <2>6, <2>7 DEF Tracks
  <2>9. Tallies'
    <3>1. RX_Bit_Cnt' = 0 => Brk_Cnt' = 0
      BY <1>12, <2>3, <2>4, <2>6, <2>7
    <3>2. RX_Bit_Cnt' # 0 => Brk_Cnt' < RX_Bit_Cnt' /\ Brk_Cnt' \in 0..9
      BY <1>3, <1>12, <2>1, <2>6, <2>7 DEF Following, Tallies
    <3> QED
      BY <1>1, <1>3, <1>12, <2>6, <3>1, <3>2 DEF Following, Tallies
  <2>10. Incoming /\ Delivery
    BY <1>12 DEF Incoming, Following
  <2>11. PICK w \in Words(LCR.wls) : inFlight = << w >> \o Waiting /\ Carries(w)
    BY <2>10 DEF Delivery
  <2>12. WordEnd => inFlight # << >> /\ RX_ShiftReg = Head(inFlight)
    <3> SUFFICES ASSUME WordEnd PROVE inFlight # << >> /\ RX_ShiftReg = Head(inFlight)
      OBVIOUS
    <3>1. Sampled = LCR.wls
      BY <1>3, <2>3 DEF Sampled
    <3>2. \A i \in 1..LCR.wls : RX_ShiftReg[i] = w[i]
      <4> SUFFICES ASSUME NEW i \in 1..LCR.wls PROVE RX_ShiftReg[i] = w[i]
        OBVIOUS
      <4>1. LCR.wls - LCR.wls + i = i /\ i <= LCR.wls
        BY <1>3
      <4> QED
        BY <2>11, <3>1, <4>1 DEF Carries
    <3>3. RX_ShiftReg = w
      BY <1>3, <3>2 DEF Words
    <3>4. Waiting \in Seq(Words(LCR.wls))
      BY FlightStep
    <3> QED
      BY <2>11, <3>3, <3>4, FirstWord
  <2>13. CASE Place = "stop"
    <3>1. ~Incoming' /\ FrameEnd
      BY <1>1, <2>3, <2>7, <2>13 DEF Incoming
    <3>2. inFlight' = Waiting'
      BY <2>10, <3>1, FirstInFlight
    <3>3. Delivery'
      BY <1>1, <1>3, <2>6, <3>1, <3>2 DEF Delivery
    <3> QED
      BY <1>1, <1>5, <2>6a, <2>8, <2>9, <2>12, <3>3 DEF Following
  <2>14. CASE Place = "parity"
    <3>1. Incoming' /\ ~FrameEnd
      BY <1>1, <2>3, <2>14 DEF Incoming
    <3>2. Sampled' = Sampled
      <4>1. Sampled = LCR.wls
        BY <1>3, <2>1, <2>14 DEF Sampled
      <4>2. Sampled' = LCR.wls
        BY <1>1, <2>7, <2>14 DEF Sampled
      <4> QED
        BY <4>1, <4>2
    <3>3. Carries(w)'
      BY <1>1, <2>6, <2>11, <3>2 DEF Carries
    <3>4. inFlight' = << w >> \o Waiting'
      BY <2>10, <2>11, <3>1, FirstInFlight
    <3>5. Delivery'
      BY <1>1, <1>3, <2>6, <3>1, <3>3, <3>4 DEF Delivery
    <3> QED
      BY <1>1, <1>5, <2>6a, <2>8, <2>9, <2>12, <3>5 DEF Following
  <2> QED
    BY <1>12, <2>13, <2>14
\* The frame is complete, and its stop bit not yet over.
<1>13. CASE Place = "stop" /\ RX_Bit_Cnt = 0
  <2>1. Bit_Phase = 0 /\ ~(since + d < 16) /\ since >= 2
    BY <1>3, <1>4, <1>13 DEF Tracks
  <2>2. RX_Filtered = 1
    BY <1>6, <1>13, <2>1 DEF Following, Wire
  <2>3. /\ ~WordEnd /\ ~FrameEnd /\ Sound' /\ UNCHANGED << Brk_Cnt, RX_ShiftReg >>
        /\ RX_Bit_Cnt' = 0 /\ RX_Parity' = RX_Parity /\ Bit_Phase' = 0
    BY <1>2, <1>13, <2>1, <2>2, RxQuiet
  <2>4. Tracks(d)'
    BY <1>1, <1>3, <1>13, <2>1, <2>3 DEF Tracks
  <2> QED
    BY <1>5, <1>13, <2>3, <2>4, FollowBetween
<1>14. Place \in {"data", "parity"} => RX_Bit_Cnt # 0
  <2>1. Place = "data" => BitsOut \in 1..8
    BY <1>3, FollowTypes
  <2> QED
    BY <1>3, <1>4, <2>1 DEF Tracks
<1> QED
  BY <1>3, <1>7, <1>8, <1>9, <1>10, <1>11, <1>12, <1>13, <1>14, Places

LEMMA FollowInit == InitUART => Following
<1> SUFFICES ASSUME InitUART PROVE Following
  OBVIOUS
<1>1. /\ LCR \in Formats /\ THRE = TRUE /\ TX_Bit_Cnt = 0 /\ ~TX_Next_Is_Stop /\ ~TX_Stop_Bit
      /\ TXD = 1 /\ since = 0
      /\ Samples = << 1, 1 >> /\ RX_Filtered = 1 /\ Bit_Phase = 0 /\ Brk_Cnt = 0
      /\ RX_Bit_Cnt = 0 /\ RX_Parity = 0 /\ ~FE /\ ~PE /\ ~BI
      /\ RX_ShiftReg = [i \in 1..LCR.wls |-> 0] /\ inFlight = << >>
  BY DEF InitUART, InitLine, InitTx, InitRx
<1>2. Place = "idle"
  BY <1>1 DEF Place
<1>3. Regular /\ Wire /\ Filtered /\ Clean
  BY <1>1, <1>2 DEF Regular, Wire, Filtered, Clean, Sound, Bit
<1>4. Tracks(5) /\ Tallies
  BY <1>1, <1>2 DEF Tracks, Tallies, Bit
<1>5. Delivery
  <2>1. RX_ShiftReg \in Words(LCR.wls)
    BY <1>1 DEF Words, Bit
  <2> QED
    BY <1>1, <1>2, <2>1 DEF Delivery, Incoming, Waiting
<1> QED
  BY <1>3, <1>4, <1>5 DEF Following, Tracking

Arriving == WordEnd => inFlight # << >> /\ RX_ShiftReg = Head(inFlight)

LEMMA FollowNext ==
  ASSUME Divisor >= 2, TxInv, TxInv', Enabling, Counting, Following, [NextUART]_uartVars
  PROVE  Following' /\ [Arriving /\ ~FE' /\ ~PE' /\ ~BI']_uartVars
<1>1. ASSUME NEW access \in Accesses, UARTClock(access) PROVE Following' /\ Arriving
  <2>1. CASE TX_Tick
    BY <1>1, <2>1, FollowTick DEF Arriving
  <2>2. CASE ~TX_Tick /\ BaudOut
    BY <1>1, <2>2, FollowEnable DEF Arriving
  <2>3. CASE ~TX_Tick /\ ~BaudOut
    BY <1>1, <2>3, FollowIdle DEF Arriving
  <2> QED
    BY <2>1, <2>2, <2>3
<1>2. CASE UNCHANGED uartVars
  <2>1. UNCHANGED << LCR, THR, THRE, TX_Tick, TX_Cnt, TX_Bit_Cnt, TX_ShiftReg, TX_Parity, TXD,
                     TX_Next_Is_Stop, TX_Stop_Bit, since, Samples, RX_Filtered, Bit_Phase,
                     Brk_Cnt, RX_Bit_Cnt, RX_ShiftReg, RX_Parity, PE, FE, BI, inFlight >>
    BY <1>2 DEF uartVars, lineVars, txVars, txState, rxVars
  <2>2. Place' = Place /\ BitsOut' = BitsOut /\ Waiting' = Waiting
    BY <2>1 DEF Place, BitsOut, Waiting
  <2>3. Regular' /\ Wire' /\ Filtered' /\ Clean'
    BY <2>1, <2>2 DEF Following, Regular, Wire, Filtered, Clean, Sound
  <2>4. Tracking' /\ Tallies'
    BY <2>1, <2>2 DEF Following, Tracking, Tracks, Tallies
  <2>5. (Incoming' <=> Incoming) /\ Sampled' = Sampled
    BY <2>1, <2>2 DEF Incoming, Sampled
  <2>6. Delivery'
    BY <2>1, <2>2, <2>5 DEF Following, Delivery, Carries
  <2> QED
    BY <1>2, <2>3, <2>4, <2>6 DEF Following
<1>3. Following' => ~FE' /\ ~PE' /\ ~BI'
  BY DEF Following, Clean, Sound
<1> QED
  BY <1>1, <1>2, <1>3 DEF NextUART

\* The receiver follows the transmitter through every frame.
THEOREM LoopbackInvariance == ASSUME Divisor >= 2 PROVE SpecUART => []Following
<1>1. TxInv /\ TxInv' /\ Enabling /\ Counting /\ Following /\ [NextUART]_uartVars => Following'
  BY FollowNext
<1> QED
  BY <1>1, FollowInit, TxInvariance, TimingInvariance, PTL DEF SpecUART

\* In loopback the words arrive as they were written, in order, none twice and none out of
\* nothing, and no error is reported (T16450.vhd:247-364).
THEOREM WordsAreEchoed == ASSUME Divisor >= 2 PROVE SpecUART => EchoIntact
<1>1. TxInv /\ TxInv' /\ Enabling /\ Counting /\ Following /\ [NextUART]_uartVars
      => [Arriving /\ ~FE' /\ ~PE' /\ ~BI']_uartVars
  BY FollowNext
<1>2. [Arriving /\ ~FE' /\ ~PE' /\ ~BI']_uartVars
      => [ /\ WordEnd => inFlight # << >> /\ RX_ShiftReg = Head(inFlight)
           /\ ~FE' /\ ~PE' /\ ~BI' ]_uartVars
  BY DEF Arriving
<1> QED
  BY <1>1, <1>2, TxInvariance, TimingInvariance, LoopbackInvariance, PTL DEF SpecUART, EchoIntact

\* There are never more words in the UART than its registers hold, and a word that THR holds
\* is one of them (T16450.vhd:212-229, 399-458).
THEOREM FlightIsBounded == ASSUME Divisor >= 2 PROVE SpecUART => []InFlightBound
<1>1. TxInv /\ Following => InFlightBound
  <2> SUFFICES ASSUME TxInv, Following PROVE InFlightBound
    OBVIOUS
  <2>1. THRE \in BOOLEAN /\ (~THRE => THR \in Words(LCR.wls))
    BY WordsWritten DEF TxInv, Registers, Holding
  <2>2. /\ Waiting \in Seq(Words(LCR.wls)) /\ Len(Waiting) \in 0..1
        /\ ~THRE => Waiting # << >>
    <3>1. CASE THRE
      BY <3>1, EmptySeq DEF Waiting
    <3>2. CASE ~THRE
      <4>1. << THR >> \in Seq(Words(LCR.wls)) /\ Len(<< THR >>) = 1 /\ << THR >> # << >>
        BY <2>1, <3>2, OneWord
      <4> QED
        BY <3>2, <4>1 DEF Waiting
    <3> QED
      BY <3>1, <3>2
  <2>3. CASE ~Incoming
    BY <2>2, <2>3 DEF Following, Delivery, InFlightBound
  <2>4. CASE Incoming
    <3>1. PICK w \in Words(LCR.wls) : inFlight = << w >> \o Waiting
      BY <2>4 DEF Following, Delivery
    <3>2. << w >> \in Seq(Words(LCR.wls)) /\ Len(<< w >>) = 1
      BY OneWord
    <3>3. Len(inFlight) = 1 + Len(Waiting) /\ inFlight # << >>
      BY <2>2, <3>1, <3>2, ConcatProperties, FirstWord
    <3>4. \A n \in 0..1 : 1 + n <= 2
      OBVIOUS
    <3>5. Len(inFlight) <= 2
      BY <2>2, <3>3, <3>4, Zenon
    <3> QED
      BY <3>3, <3>5 DEF InFlightBound
  <2> QED
    BY <2>3, <2>4
<1> QED
  BY <1>1, TxInvariance, LoopbackInvariance, PTL
===============================================================================
