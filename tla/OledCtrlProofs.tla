---------------------------- MODULE OledCtrlProofs ----------------------------
(***************************************************************************)
(* The controller of the display, for every width of a word, list and       *)
(* divider: the serial lines stand still when they are sampled, and every   *)
(* step is one of DisplayList or leaves its variables alone.                *)
(***************************************************************************)
EXTENDS OledCtrl, Integers, TLAPS

\* Powers and bits. Of a register of twice h, the upper bit is what h goes into.

LEMMA TwoDigits ==
  ASSUME NEW p \in Nat \ {0}, NEW m \in Nat, m < 2 * p
  PROVE  /\ m \div p \in {0, 1} /\ m % p \in 0..(p - 1)
         /\ m = ((m \div p) * p) + (m % p)
<1>1. CASE m < p
  BY <1>1
<1>2. CASE m >= p
  <2>1. m \div p = 1 /\ m % p = m - p
    BY <1>2
  <2> QED
    BY <1>2, <2>1
<1> QED
  BY <1>1, <1>2

LEMMA TopBit ==
  ASSUME NEW h \in Nat \ {0}, NEW d \in 0..(2 * h - 1)
  PROVE  /\ d \div h \in {0, 1}
         /\ (2 * d) % (2 * h) = 2 * d - (d \div h) * (2 * h)
         /\ (d % h) = d - (d \div h) * h /\ d % h \in 0..(h - 1)
<1>1. CASE d < h
  <2>1. d \div h = 0 /\ d % h = d
    BY <1>1
  <2>2. (2 * d) % (2 * h) = 2 * d
    BY <1>1
  <2> QED
    BY <2>1, <2>2
<1>2. CASE d >= h
  <2>1. d \div h = 1 /\ d % h = d - h
    BY <1>2
  <2>2. (2 * d) % (2 * h) = 2 * d - 2 * h
    BY <1>2
  <2> QED
    BY <2>1, <2>2
<1> QED
  BY <1>1, <1>2

\* A word times a power of two: what was taken of it from the top, and what is
\* left in the register.
Halves(word, p, taken, h, left) == word * p = (taken * (2 * h)) + left

LEMMA BitTaken ==
  ASSUME NEW h \in Nat \ {0}, NEW d \in 0..(2 * h - 1), NEW b \in {0, 1}, b = d \div h,
         NEW word \in Nat, NEW v \in Nat, NEW p \in Nat,
         Halves(word, p, v, h, d)
  PROVE  Halves(word, 2 * p, 2 * v + b, h, (2 * d) % (2 * h))
<1> DEFINE A == word * p
           B == v * (2 * h)
           C == b * (2 * h)
<1>1. (2 * d) % (2 * h) = 2 * d - C
  BY TopBit
<1>2. word * (2 * p) = 2 * A
  OBVIOUS
<1>3. (2 * v + b) * (2 * h) = 2 * B + C
  OBVIOUS
<1>4. A \in Int /\ B \in Int /\ C \in Int /\ A = B + d
  BY DEF Halves
<1> HIDE DEF A, B, C
<1>5. 2 * A = (2 * B + C) + (2 * d - C)
  BY <1>4
<1> QED
  BY <1>1, <1>2, <1>3, <1>5 DEF Halves

LEMMA LastBit ==
  ASSUME NEW h \in Nat \ {0}, NEW d \in 0..(2 * h - 1), NEW b \in {0, 1}, b = d \div h,
         NEW word \in Nat, NEW v \in Nat, Halves(word, h, v, h, d)
  PROVE  word = 2 * v + b
<1>1. d - b * h \in 0..(h - 1)
  BY TopBit
<1>2. (word - (2 * v + b)) * h = d - b * h
  BY DEF Halves
<1>3. \A n \in Int : n * h \in 0..(h - 1) => n = 0
  <2> SUFFICES ASSUME NEW n \in Int, n * h \in 0..(h - 1), n # 0 PROVE FALSE
    OBVIOUS
  <2>1. CASE n >= 1
    <3>1. n * h >= h
      BY <2>1
    <3> QED
      BY <3>1
  <2>2. CASE n <= -1
    <3>1. n * h <= -h
      BY <2>2
    <3> QED
      BY <3>1
  <2> QED
    BY <2>1, <2>2
<1>4. word - (2 * v + b) = 0
  <2> DEFINE n == word - (2 * v + b)
  <2>1. n \in Int /\ n * h \in 0..(h - 1)
    BY <1>1, <1>2
  <2> HIDE DEF n
  <2>2. n = 0
    BY <2>1, <1>3
  <2> QED
    BY <2>2 DEF n
<1> QED
  BY <1>4

LEMMA Powers ==
  /\ W \in Nat \ {0} /\ 2^(W - 1) \in Nat \ {0} /\ 2^W \in Nat \ {0}
  /\ 2^W = 2 * 2^(W - 1) /\ 2^(W + 1) = 2 * 2^W
<1>1. W \in Nat /\ W >= 1 /\ W - 1 \in 0..W /\ W \in 0..W /\ (W - 1) + 1 = W
  BY SizesAssumption
<1>2. 2^((W - 1) + 1) = 2 * 2^(W - 1) /\ 2^(W - 1) \in Nat \ {0}
  BY <1>1, PowersAssumption
<1>3. 2^(W + 1) = 2 * 2^W /\ 2^W \in Nat \ {0}
  BY <1>1, PowersAssumption
<1> QED
  BY <1>1, <1>2, <1>3
-------------------------------------------------------------------------------
\* The shifter. The delay that is meant to hold back the first edge of spi_clk
\* is over when the first bit is on the line: that begins with a tick, which
\* ends the delay.
SpiInv ==
  /\ spi_state \in {"idle", "wait_clk", "send_dat"}
  /\ clk_reg \in {0, 1}
  /\ spi_dreg \in 0..(2^W - 1)
  /\ spi_state = "send_dat" => clk_delay_reg = 0 /\ spi_dcnt \in 0..(W - 1)
  /\ bit_cnt \in 0..(W - 1) /\ value \in Nat
  /\ spi_ncs => bit_cnt = 0 /\ value = 0

\* What a clock does to the shifter: nothing to see, a word taken, its first
\* bit put on the line, a rising edge, or a falling edge and the next bit.
Stays  == /\ ~spi_send /\ UNCHANGED << spi_state, spi_dreg >>
          /\ spi_state = "send_dat" => UNCHANGED << clk_reg, spi_dcnt >>
Loads  == /\ spi_send /\ spi_dreg' = data_out
          /\ spi_state' = "wait_clk" \/ (spi_state' = "send_dat" /\ clk_reg' = 0 /\ spi_dcnt' = 0)
Begins == /\ spi_state = "wait_clk" /\ spi_state' = "send_dat"
          /\ spi_dreg' = spi_dreg /\ clk_reg' = 0 /\ spi_dcnt' = 0
Rises  == /\ spi_state = "send_dat" /\ clk_reg = 0 /\ clk_reg' = 1
          /\ UNCHANGED << spi_state, spi_dreg, spi_dcnt >>
Falls  == /\ spi_state = "send_dat" /\ clk_reg = 1 /\ clk_reg' = 0
          /\ spi_dreg' = (2 * spi_dreg) % 2^W
          /\ \/ spi_dcnt = W - 1 /\ spi_state' = "idle"
             \/ spi_dcnt < W - 1 /\ spi_state' = "send_dat" /\ spi_dcnt' = spi_dcnt + 1

LEMMA ShiftCases ==
  ASSUME SpiInv, Shift
  PROVE  /\ Stays \/ Loads \/ Begins \/ Rises \/ Falls
         /\ clk_reg' \in {0, 1}
         /\ spi_state' = "send_dat" => clk_delay_reg' = 0
<1>1. CASE spi_state = "send_dat"
  <2>1. ~spi_send /\ spi_clk = clk_reg /\ spi_clk_delay = 0 /\ ~spi_ncs /\ clk_reg \in {0, 1}
    BY <1>1 DEF SpiInv, spi_send, spi_busy, spi_clk, spi_clk_delay, spi_ncs
  <2>2. clk_delay_reg' = 0
    BY <2>1 DEF Shift
  <2>3. CASE ~spi_prescaler_tick
    <3>1. ~spi_tick
      BY <2>3 DEF spi_tick
    <3>2. Stays /\ clk_reg' = clk_reg
      BY <1>1, <2>1, <2>3, <3>1 DEF Shift, SpiAfter, Shifted, Stays
    <3> QED
      BY <2>1, <2>2, <3>2
  <2>4. CASE spi_prescaler_tick /\ clk_reg = 0
    <3>1. ~spi_tick
      BY <2>1, <2>4 DEF spi_tick
    <3>2. Rises
      BY <1>1, <2>1, <2>4, <3>1 DEF Shift, SpiAfter, Shifted, Rises
    <3> QED
      BY <2>2, <3>2 DEF Rises
  <2>5. CASE spi_prescaler_tick /\ clk_reg = 1
    <3>1. spi_tick
      BY <2>1, <2>5 DEF spi_tick
    <3>2. clk_reg' = 0
      BY <2>1, <2>5 DEF Shift
    <3>3. spi_state' = IF spi_dcnt = W - 1 THEN "idle" ELSE "send_dat"
      BY <1>1, <3>1 DEF Shift, SpiAfter
    <3>4. spi_dcnt' = (spi_dcnt + 1) % 16 /\ spi_dreg' = (2 * spi_dreg) % 2^W
      BY <2>1, <3>1 DEF Shift, Shifted
    <3>5. spi_dcnt \in 0..(W - 1) /\ W \in 1..16
      BY <1>1, SizesAssumption DEF SpiInv
    <3>6. spi_dcnt < W - 1 => spi_dcnt' = spi_dcnt + 1
      BY <3>4, <3>5
    <3>7. spi_dcnt = W - 1 \/ spi_dcnt < W - 1
      BY <3>5
    <3>8. Falls
      BY <1>1, <2>5, <3>2, <3>3, <3>4, <3>5, <3>6, <3>7 DEF Falls
    <3> QED
      BY <2>2, <3>2, <3>8
  <2> QED
    BY <2>1, <2>3, <2>4, <2>5
<1>2. CASE spi_state # "send_dat"
  <2>1. spi_ncs /\ spi_clk = 0 /\ spi_clk_delay = 1 /\ (spi_tick <=> spi_prescaler_tick)
    BY <1>2 DEF spi_ncs, spi_clk, spi_clk_delay, spi_tick
  <2>2. clk_reg' = 0
    BY <2>1 DEF Shift
  <2>3. spi_state \in {"idle", "wait_clk"}
    BY <1>2 DEF SpiInv
  <2>4. spi_state' = "send_dat" => spi_tick /\ clk_delay_reg' = 0 /\ spi_dcnt' = 0
    BY <2>1, <2>3 DEF Shift, SpiAfter
  <2>5. CASE spi_send
    <3>1. spi_state' \in {"wait_clk", "send_dat"} /\ spi_dreg' = data_out
      BY <2>3, <2>5 DEF Shift, SpiAfter, Shifted, spi_send, spi_busy
    <3>2. Loads
      BY <2>2, <2>4, <2>5, <3>1 DEF Loads
    <3> QED
      BY <2>2, <2>4, <3>2
  <2>6. CASE ~spi_send
    <3>1. spi_dreg' = spi_dreg
      BY <2>1, <2>6 DEF Shift, Shifted
    <3>2. spi_state' = spi_state \/ (spi_state = "wait_clk" /\ spi_state' = "send_dat")
      BY <2>3, <2>6 DEF Shift, SpiAfter
    <3>3. Stays \/ Begins
      BY <1>2, <2>2, <2>4, <2>6, <3>1, <3>2 DEF Stays, Begins
    <3> QED
      BY <2>2, <2>4, <3>3
  <2> QED
    BY <2>5, <2>6
<1> QED
  BY <1>1, <1>2
-------------------------------------------------------------------------------
\* The words of the list that the shifter has taken; the last of them is the
\* word it is at while it is busy. The display has it from the last rising edge.
Sent == CASE state = "read_cmd" -> init_cnt - 2
          [] state \in {"read_last", "done"} -> Len(list)
          [] state \notin {"read_cmd", "read_last", "done"} -> 0
Word == list[Sent]
Whole == spi_state = "send_dat" /\ clk_reg = 1 /\ spi_dcnt = W - 1
Got == IF spi_busy /\ ~Whole THEN Sent - 1 ELSE Sent

\* The memory is a clock behind init_cnt: it has caught up when a word is over.
\* The size is in init_len when the display is under reset, and no state that
\* sends is looked at, through last_state, before its words are there.
States == {"idle", "read_len_low", "reset", "reset_release", "wait_on",
           "read_cmd", "read_last", "done"}

CtrlInv ==
  /\ list \in Lists
  /\ state \in States
  /\ init_cnt \in Nat /\ addr \in Nat /\ init_len \in Nat
  /\ state = "idle" => init_cnt = 0 /\ last_state \in {"idle", "done"}
  /\ state = "read_len_low" => last_state = "idle" /\ init_cnt = 1 /\ addr = 0
  /\ state \in {"reset", "reset_release", "wait_on"} => init_cnt = 2
  /\ state = "reset" =>
       \/ last_state = "read_len_low" /\ addr = 1 /\ (init_len % 2) = Memory[1]
       \/ last_state = "reset" /\ init_len = Len(list) + 1
  /\ state \in {"reset_release", "wait_on"} =>
       addr = 2 /\ last_state \in {"reset", "reset_release", "wait_on"}
  /\ state \in {"reset_release", "wait_on", "read_cmd"} => init_len = Len(list) + 1
  /\ state = "read_cmd" =>
       /\ init_cnt \in 2..(Len(list) + 1)
       /\ last_state \in {"wait_on", "read_cmd"}
       /\ last_state = "wait_on" => init_cnt = 2 /\ ~spi_busy
       /\ spi_busy => init_cnt > 2
       /\ addr = init_cnt \/ spi_state = "wait_clk" \/ (spi_state = "send_dat" /\ clk_reg = 0)
  /\ state = "read_last" =>
       /\ last_state \in {"read_cmd", "read_last"}
       /\ last_state = "read_cmd" => spi_busy
  /\ state = "done" => last_state \in {"read_last", "done"}
  /\ state \notin {"read_cmd", "read_last"} => ~spi_busy

LEMMA Listed ==
  ASSUME list \in Lists
  PROVE  /\ list \in Seq(0..(2^W - 1)) /\ Len(list) \in Nat
         /\ Len(list) > 1 /\ Len(list) + 2 < 2^(W + 1)
  BY SizesAssumption

\* What comes out of the memory: the size in two parts, and the words.
LEMMA DataOut ==
  ASSUME list \in Lists, addr \in Nat
  PROVE  /\ data_out \in 0..(2^W - 1)
         /\ addr = 0 => data_out = Memory[1]
         /\ addr = 1 => data_out = (Len(list) + 1) % 2^W
         /\ addr \in 2..(Len(list) + 1) => data_out = list[addr - 1]
         /\ Memory[1] = (Len(list) + 1) \div 2^W /\ Memory[1] \in {0, 1}
<1> DEFINE n == Len(list)
           pair == << (n + 1) \div 2^W, (n + 1) % 2^W >>
<1>1. /\ list \in Seq(0..(2^W - 1)) /\ n \in Nat /\ n + 2 < 2 * 2^W
      /\ 2^W \in Nat \ {0} /\ 2^W >= 2
  BY Listed, Powers
<1>2. (n + 1) \div 2^W \in {0, 1} /\ (n + 1) % 2^W \in 0..(2^W - 1)
  <2>1. n + 1 \in Nat /\ n + 1 < 2 * 2^W
    BY <1>1
  <2> QED
    BY <1>1, <2>1, TwoDigits
<1>3. pair \in Seq(Nat) /\ Len(pair) = 2 /\ Memory = pair \o list /\ list \in Seq(Nat)
  BY <1>1, <1>2 DEF Memory
<1>4. /\ Len(Memory) = n + 2 /\ Memory[1] = pair[1] /\ Memory[2] = pair[2]
      /\ \A i \in 1..n : Memory[i + 2] = list[i]
  BY <1>1, <1>3
<1>5. CASE addr \in {0, 1}
  <2>1. data_out = Memory[addr + 1]
    BY <1>1, <1>4, <1>5 DEF data_out
  <2> QED
    BY <1>1, <1>2, <1>4, <1>5, <2>1
<1>6. CASE addr \in 2..(n + 1)
  <2>1. data_out = Memory[(addr - 1) + 2]
    BY <1>1, <1>4, <1>6 DEF data_out
  <2>2. addr - 1 \in 1..n
    BY <1>1, <1>6
  <2>3. data_out = list[addr - 1]
    BY <1>4, <2>1, <2>2
  <2>4. list[addr - 1] \in 0..(2^W - 1)
    BY <1>1, <2>2
  <2> QED
    BY <1>1, <1>2, <1>4, <1>6, <2>3, <2>4, SMTT(30)
<1>7. CASE addr > n + 1
  <2>1. data_out = 0
    BY <1>1, <1>4, <1>7 DEF data_out
  <2> QED
    BY <1>1, <1>2, <1>4, <1>7, <2>1
<1> QED
  BY <1>1, <1>5, <1>6, <1>7
-------------------------------------------------------------------------------
\* A clock while the shifter is at a word: it stays the word.
LEMMA SentKept ==
  ASSUME CtrlInv, Play(FALSE) \/ Play(TRUE), UNCHANGED list, spi_busy
  PROVE  /\ state' = state /\ state \in {"read_cmd", "read_last"}
         /\ Sent' = Sent /\ Word' = Word /\ ~spi_send
         /\ state = "read_cmd" => init_cnt' = init_cnt
<1>1. ~spi_send
  BY DEF spi_send
<1>2. CASE state = "read_cmd"
  <2>1. state' = state /\ init_cnt' = init_cnt
    BY <1>1, <1>2 DEF Play, After, Counter
  <2> QED
    BY <1>1, <1>2, <2>1 DEF Sent, Word
<1>3. CASE state = "read_last"
  <2>1. state' = state
    BY <1>3 DEF Play, After
  <2> QED
    BY <1>1, <1>3, <2>1 DEF Sent, Word
<1> QED
  BY <1>2, <1>3 DEF CtrlInv

\* A word is taken: it is the next one of the list.
LEMMA SentNext ==
  ASSUME CtrlInv, Play(FALSE) \/ Play(TRUE), UNCHANGED list, spi_send
  PROVE  /\ state = "read_cmd" /\ state' \in {"read_cmd", "read_last"}
         /\ Sent' = Sent + 1 /\ Sent' \in 1..Len(list) /\ data_out = list[Sent']
         /\ state' = "read_cmd" => init_cnt' = init_cnt + 1 /\ init_cnt' \in 2..(Len(list) + 1)
<1>1. last_state = "read_cmd" /\ ~spi_busy
  BY DEF spi_send
<1>2. state = "read_cmd"
  BY <1>1 DEF CtrlInv, States
<1>3. /\ init_cnt \in 2..(Len(list) + 1) /\ addr = init_cnt /\ init_len = Len(list) + 1
      /\ Sent = init_cnt - 2
  BY <1>1, <1>2 DEF CtrlInv, spi_busy, Sent
<1>4. Len(list) \in Nat /\ Len(list) + 2 < 2^(W + 1) /\ 2^(W + 1) \in Nat
  BY Listed, Powers DEF CtrlInv
<1>5. data_out = list[init_cnt - 1]
  BY <1>3, DataOut DEF CtrlInv
<1>6. init_cnt' = init_cnt + 1
  <2>1. init_cnt' = (init_cnt + 1) % 2^(W + 1)
    BY <1>2 DEF Play, Counter
  <2> QED
    BY <1>3, <1>4, <2>1
<1>7. CASE init_cnt = init_len
  <2>1. state' = "read_last"
    BY <1>1, <1>2, <1>7 DEF Play, After
  <2>2. Sent' = Len(list)
    BY <2>1 DEF Sent
  <2> QED
    BY <1>2, <1>3, <1>4, <1>5, <1>7, <2>1, <2>2
<1>8. CASE init_cnt # init_len
  <2>1. state' = "read_cmd"
    BY <1>1, <1>2, <1>8 DEF Play, After
  <2>2. Sent' = init_cnt - 1
    BY <1>3, <1>6, <2>1 DEF Sent
  <2> QED
    BY <1>2, <1>3, <1>4, <1>5, <1>6, <1>8, <2>1, <2>2
<1> QED
  BY <1>7, <1>8

\* Nothing is taken: the number stays, but where the sequence begins or ends.
LEMMA SentIdle ==
  ASSUME CtrlInv, Play(FALSE) \/ Play(TRUE), UNCHANGED list, ~spi_busy, ~spi_send,
         state' # "idle"
  PROVE  /\ Sent' = Sent
         /\ state = "read_cmd" => state' = "read_cmd" /\ init_cnt' = 2 /\ last_state = "wait_on"
<1>1. CASE state = "read_cmd"
  <2>1. last_state = "wait_on" /\ init_cnt = 2
    BY <1>1 DEF CtrlInv, spi_send
  <2>2. init_len > 2
    BY <1>1, Listed DEF CtrlInv
  <2>3. state' = state /\ init_cnt' = init_cnt
    BY <1>1, <2>1, <2>2 DEF Play, After, Counter
  <2> QED
    BY <1>1, <2>1, <2>3 DEF Sent
<1>2. CASE state \in {"read_last", "done"}
  <2>1. state' = "done"
    BY <1>2 DEF Play, After
  <2> QED
    BY <1>2, <2>1 DEF Sent
<1>3. CASE state = "wait_on"
  <2>1. init_cnt' = 2 /\ state' \in {"wait_on", "read_cmd"}
    BY <1>3 DEF Play, After, Counter
  <2> QED
    BY <1>3, <2>1 DEF Sent
<1>4. CASE state \in {"idle", "read_len_low", "reset", "reset_release"}
  <2>1. state' \notin {"read_cmd", "read_last", "done"}
    BY <1>4 DEF Play, After
  <2> QED
    BY <1>4, <2>1 DEF Sent
<1> QED
  BY <1>1, <1>2, <1>3, <1>4 DEF CtrlInv, States
-------------------------------------------------------------------------------
\* The size gets into init_len a part at a time.
LEMMA LenLoaded ==
  ASSUME CtrlInv, Play(FALSE) \/ Play(TRUE)
  PROVE  /\ init_len' \in Nat
         /\ state = "read_len_low" => (init_len' % 2) = Memory[1]
         /\ state = "reset" => init_len' = Len(list) + 1
         /\ state \in {"reset_release", "wait_on", "read_cmd"} => init_len' = init_len
<1> DEFINE p == 2^(W - 1)
           n == Len(list) + 1
<1>1. p \in Nat \ {0} /\ 2^W = 2 * p /\ n \in Nat /\ n < 2 * 2^W /\ init_len \in Nat
  BY Powers, Listed DEF CtrlInv
<1>2. init_len' = IF last_state \in {"idle", "read_len_low"}
                  THEN (init_len % 2) * 2^W + data_out ELSE init_len
  BY DEF Play
<1>3. data_out \in Nat /\ init_len % 2 \in {0, 1}
  BY <1>1, DataOut DEF CtrlInv
<1>4. init_len' \in Nat
  <2>1. (init_len % 2) * 2^W \in Nat
    BY <1>1, <1>3
  <2> QED
    BY <1>1, <1>2, <1>3, <2>1
<1>5. ASSUME state = "read_len_low" PROVE (init_len' % 2) = Memory[1]
  <2>1. data_out = Memory[1] /\ Memory[1] \in {0, 1}
    BY <1>5, DataOut DEF CtrlInv
  <2>2. init_len' = (init_len % 2) * (2 * p) + data_out
    BY <1>1, <1>2, <1>5 DEF CtrlInv
  <2>3. CASE init_len % 2 = 0
    <3>1. init_len' = data_out
      BY <1>1, <1>3, <2>2, <2>3
    <3> QED
      BY <2>1, <3>1
  <2>4. CASE init_len % 2 = 1
    <3>1. init_len' = 2 * p + data_out
      BY <1>1, <1>3, <2>2, <2>4
    <3> QED
      BY <1>1, <2>1, <3>1
  <2> QED
    BY <1>3, <2>3, <2>4
<1>6. ASSUME state = "reset" PROVE init_len' = n
  <2>1. CASE last_state = "read_len_low" /\ addr = 1 /\ (init_len % 2) = Memory[1]
    <3>1. data_out = n % 2^W /\ Memory[1] = n \div 2^W
      BY <2>1, DataOut DEF CtrlInv
    <3>2. init_len' = ((n \div 2^W) * 2^W) + (n % 2^W)
      BY <1>2, <2>1, <3>1
    <3>3. n = ((n \div 2^W) * 2^W) + (n % 2^W)
      <4>1. 2^W \in Nat \ {0}
        BY Powers
      <4> QED
        BY <1>1, <4>1, TwoDigits
    <3> QED
      BY <3>2, <3>3
  <2>2. CASE last_state = "reset" /\ init_len = n
    BY <1>2, <2>2
  <2> QED
    BY <1>6, <2>1, <2>2 DEF CtrlInv
<1>7. ASSUME state \in {"reset_release", "wait_on", "read_cmd"} PROVE init_len' = init_len
  BY <1>2, <1>7 DEF CtrlInv
<1> QED
  BY <1>4, <1>5, <1>6, <1>7

\* The shifter is busy or not as ShiftCases says.
LEMMA Busy ==
  ASSUME SpiInv, Stays \/ Loads \/ Begins \/ Rises \/ Falls
  PROVE  /\ ~spi_busy /\ ~spi_send => ~spi_busy' /\ spi_state' = spi_state
         /\ spi_send => /\ spi_busy' /\ ~spi_busy
                        /\ spi_state' = "wait_clk" \/ (spi_state' = "send_dat" /\ clk_reg' = 0)
<1>1. CASE ~spi_busy /\ ~spi_send
  BY <1>1 DEF Stays, Loads, Begins, Rises, Falls, spi_busy
<1>2. CASE spi_send
  BY <1>2 DEF Stays, Loads, Begins, Rises, Falls, spi_busy, spi_send
<1> QED
  BY <1>1, <1>2 DEF spi_send

LEMMA CtrlStep ==
  ASSUME SpiInv, CtrlInv, Play(FALSE) \/ Play(TRUE), UNCHANGED list, addr' = init_cnt,
         Stays \/ Loads \/ Begins \/ Rises \/ Falls
  PROVE  CtrlInv'
<1>1. last_state' = state /\ state' \in States /\ init_cnt' \in Nat /\ init_len' \in Nat
      /\ addr' \in Nat /\ list' \in Lists /\ addr' = init_cnt
  <2>1. state' \in States
    BY DEF Play, After, CtrlInv, States
  <2>2. init_cnt' \in Nat
    <3>1. 2^(W + 1) \in Nat \ {0} /\ init_cnt \in Nat
      BY Powers DEF CtrlInv
    <3>2. (init_cnt + 1) % 2^(W + 1) \in Nat
      BY <3>1
    <3>3. Counter \in Nat
      BY <3>1, <3>2 DEF Counter, CtrlInv, States
    <3> QED
      BY <3>3 DEF Play
  <2> QED
    BY <2>1, <2>2, LenLoaded DEF Play, CtrlInv
<1>2. Memory' = Memory
  BY DEF Memory
<1>3. CASE state \in {"idle", "read_len_low", "reset", "reset_release", "wait_on"}
  <2>1. ~spi_busy /\ ~spi_send
    BY <1>3 DEF CtrlInv, spi_send
  <2>2. ~spi_busy'
    BY <2>1, Busy
  <2>3. CASE state = "idle"
    <3>1. state' = "read_len_low" /\ init_cnt' = 1 /\ init_cnt = 0
      BY <2>3 DEF Play, After, Counter, CtrlInv
    <3> QED
      BY <1>1, <2>2, <2>3, <3>1 DEF CtrlInv
  <2>4. CASE state = "read_len_low"
    <3>1. state' = "reset" /\ init_cnt' = 2 /\ init_cnt = 1
      BY <2>4 DEF Play, After, Counter, CtrlInv
    <3>2. (init_len' % 2) = Memory'[1]
      BY <1>2, <2>4, LenLoaded
    <3> QED
      BY <1>1, <2>2, <2>4, <3>1, <3>2 DEF CtrlInv
  <2>5. CASE state \in {"reset", "reset_release", "wait_on"}
    <3>1. init_cnt' = 2 /\ init_cnt = 2
      BY <2>5 DEF Play, Counter, CtrlInv
    <3>2. init_len' = Len(list') + 1
      BY <2>5, LenLoaded DEF CtrlInv
    <3>3. /\ state = "reset" => state' \in {"reset", "reset_release"}
          /\ state = "reset_release" => state' = "wait_on"
          /\ state = "wait_on" => state' \in {"wait_on", "read_cmd"}
      BY DEF Play, After
    <3>4. Len(list') \in Nat /\ Len(list') > 1
      BY <1>1, Listed
    <3>5. 2 \in 2..(Len(list') + 1)
      BY <3>4
    <3> QED
      BY <1>1, <2>2, <2>5, <3>1, <3>2, <3>3, <3>5 DEF CtrlInv
  <2> QED
    BY <1>3, <2>3, <2>4, <2>5
<1>4. CASE state = "read_cmd"
  <2>1. init_len' = Len(list') + 1
    BY <1>4, LenLoaded DEF CtrlInv
  <2>2. CASE spi_busy
    <3>1. state' = "read_cmd" /\ init_cnt' = init_cnt /\ init_cnt > 2
      BY <1>4, <2>2, SentKept DEF CtrlInv
    <3> QED
      BY <1>1, <1>4, <2>1, <3>1 DEF CtrlInv
  <2>3. CASE spi_send
    <3>1. state' \in {"read_cmd", "read_last"} /\ Sent' = Sent + 1
          /\ (state' = "read_cmd" => init_cnt' = init_cnt + 1 /\ init_cnt' \in 2..(Len(list) + 1))
      BY <2>3, SentNext
    <3>2. spi_busy' /\ (spi_state' = "wait_clk" \/ (spi_state' = "send_dat" /\ clk_reg' = 0))
      BY <2>3, Busy
    <3>3. init_cnt + 1 > 2
      BY <1>4 DEF CtrlInv
    <3> QED
      BY <1>1, <1>4, <2>1, <3>1, <3>2, <3>3 DEF CtrlInv
  <2>4. CASE ~spi_busy /\ ~spi_send
    <3>1. ~spi_busy' /\ init_cnt = 2
      BY <1>4, <2>4, Busy DEF CtrlInv, spi_send
    <3>2. state' # "idle"
      BY <1>4 DEF Play, After
    <3>3. state' = "read_cmd" /\ init_cnt' = 2
      BY <1>4, <2>4, <3>2, SentIdle
    <3>4. 2 \in 2..(Len(list') + 1)
      BY <1>4, <3>1 DEF CtrlInv
    <3> QED
      BY <1>1, <1>4, <2>1, <3>1, <3>3, <3>4 DEF CtrlInv
  <2> QED
    BY <2>2, <2>3, <2>4
<1>5. CASE state = "read_last"
  <2>1. ~spi_send
    BY <1>5 DEF CtrlInv, spi_send
  <2>2. state' = IF spi_busy THEN "read_last" ELSE "done"
    BY <1>5 DEF Play, After
  <2>3. ~spi_busy => ~spi_busy'
    BY <2>1, Busy
  <2> QED
    BY <1>1, <1>5, <2>2, <2>3 DEF CtrlInv
<1>6. CASE state = "done"
  <2>1. ~spi_busy /\ ~spi_send
    BY <1>6 DEF CtrlInv, spi_send
  <2>2. ~spi_busy' /\ init_cnt' = 0 /\ state' \in {"idle", "done"}
    BY <1>6, <2>1, Busy DEF Play, After, Counter
  <2> QED
    BY <1>1, <1>6, <2>2 DEF CtrlInv
<1> QED
  BY <1>3, <1>4, <1>5, <1>6 DEF CtrlInv, States
-------------------------------------------------------------------------------
\* The bits: what the display has of the word, and what is still in spi_dreg,
\* are the two halves of the word as it has been shifted so far.
ShiftInv == spi_busy =>
  /\ Sent \in 1..Len(list)
  /\ spi_state = "wait_clk" => spi_dreg = Word
  /\ spi_state = "send_dat" /\ clk_reg = 0 =>
       bit_cnt = spi_dcnt /\ Halves(Word, 2^spi_dcnt, value, 2^(W - 1), spi_dreg)
  /\ spi_state = "send_dat" /\ clk_reg = 1 /\ spi_dcnt < W - 1 =>
       /\ bit_cnt = spi_dcnt + 1
       /\ Halves(Word, 2^(spi_dcnt + 1), value, 2^(W - 1), (2 * spi_dreg) % 2^W)
  /\ Whole => bit_cnt = 0 /\ value = 0

\* A clock without a rising edge on the line.
LEMMA NoRise ==
  ASSUME SpiInv, Samples, Stays \/ Loads \/ Begins \/ Falls
  PROVE  /\ bit_cnt' = IF spi_ncs' \/ ~lcd_nrst' THEN 0 ELSE bit_cnt
         /\ value' = IF spi_ncs' \/ ~lcd_nrst' THEN 0 ELSE value
         /\ words' = IF ~lcd_nrst' THEN << >> ELSE words
<1>1. ~(~spi_ncs /\ spi_clk = 0 /\ spi_clk' = 1)
  <2>1. CASE Stays
    BY <2>1 DEF Stays, spi_ncs, spi_clk
  <2>2. CASE Loads \/ Begins
    BY <2>2 DEF Loads, Begins, spi_ncs, spi_send, spi_busy
  <2>3. CASE Falls
    BY <2>3 DEF Falls, spi_ncs, spi_clk
  <2> QED
    BY <2>1, <2>2, <2>3
<1>2. bit_cnt # W
  BY Powers DEF SpiInv
<1> QED
  BY <1>1, <1>2 DEF Samples

\* At the rising edge the display takes the upper bit of spi_dreg.
LEMMA BitRead ==
  ASSUME SpiInv, Samples, Rises, lcd_nrst'
  PROVE  LET bit == spi_dreg \div 2^(W - 1)
             all == 2 * value + bit
         IN /\ bit_cnt + 1 = W => bit_cnt' = 0 /\ value' = 0 /\ words' = Append(words, all)
            /\ bit_cnt + 1 # W => bit_cnt' = bit_cnt + 1 /\ value' = all /\ words' = words
<1>1. /\ ~spi_ncs /\ ~spi_ncs' /\ spi_clk = 0 /\ spi_clk' = 1
      /\ spi_mosi = spi_dreg \div 2^(W - 1) /\ spi_mosi' = spi_dreg \div 2^(W - 1)
  BY DEF Rises, spi_ncs, spi_clk, spi_mosi
<1> QED
  BY <1>1 DEF Samples

LEMMA WordTyped ==
  ASSUME list \in Lists, Sent \in 1..Len(list)
  PROVE  Word \in 0..(2^W - 1)
<1> DEFINE S == 0..(2^W - 1)
<1>1. list \in Seq(S)
  BY Listed
<1> HIDE DEF S
<1>2. list[Sent] \in S
  BY <1>1
<1> QED
  BY <1>2 DEF Word, S

\* The shifter's half of the invariant is kept while the display is not under
\* reset, and a whole word gets to the display.
LEMMA RisingStep ==
  ASSUME SpiInv, ShiftInv, Samples, Rises, lcd_nrst', list \in Lists,
         UNCHANGED list, Sent' = Sent, Word' = Word
  PROVE  /\ bit_cnt' \in 0..(W - 1) /\ value' \in Nat
         /\ ShiftInv'
         /\ Whole' => words' = Append(words, Word)
         /\ ~Whole' => words' = words
<1> DEFINE h == 2^(W - 1)
           b == spi_dreg \div h
           p == 2^spi_dcnt
           d == spi_dreg
<1>1. /\ h \in Nat \ {0} /\ 2^W = 2 * h /\ W \in Nat \ {0}
      /\ d \in 0..(2 * h - 1) /\ spi_dcnt \in 0..(W - 1) /\ value \in Nat
  BY Powers DEF SpiInv, Rises
<1>2. spi_busy /\ spi_busy' /\ spi_state = "send_dat" /\ spi_state' = "send_dat"
      /\ clk_reg = 0 /\ clk_reg' = 1 /\ spi_dcnt' = spi_dcnt /\ spi_dreg' = spi_dreg
  BY DEF Rises, spi_busy
<1>3. Sent \in 1..Len(list) /\ bit_cnt = spi_dcnt /\ Halves(Word, p, value, h, d)
  BY <1>1, <1>2 DEF ShiftInv
<1>4. Word \in Nat
  <2>1. Word \in 0..(2^W - 1) /\ 2^W \in Nat
    BY <1>3, WordTyped, Powers
  <2> QED
    BY <2>1
<1>5. b \in {0, 1}
  BY <1>1, TopBit
<1>6. p \in Nat /\ 2^(spi_dcnt + 1) = 2 * p
  BY <1>1, PowersAssumption
<1>7. /\ bit_cnt + 1 = W => bit_cnt' = 0 /\ value' = 0 /\ words' = Append(words, 2 * value + b)
      /\ bit_cnt + 1 # W => bit_cnt' = bit_cnt + 1 /\ value' = 2 * value + b /\ words' = words
  BY BitRead
<1>9. CASE spi_dcnt = W - 1
  <2>1. Word = 2 * value + b
    <3>1. Halves(Word, h, value, h, d)
      BY <1>3, <1>9
    <3> HIDE DEF h, d
    <3>2. b = d \div h
      BY DEF d
    <3> HIDE DEF b
    <3> QED
      BY <1>1, <1>4, <1>5, <3>1, <3>2, LastBit
  <2>2. Whole'
    BY <1>2, <1>9 DEF Whole
  <2>3. bit_cnt' = 0 /\ value' = 0 /\ words' = Append(words, Word)
    BY <1>1, <1>3, <1>7, <1>9, <2>1
  <2> HIDE DEF h, b, p, d
  <2> QED
    BY <1>1, <1>2, <1>3, <1>9, <2>2, <2>3 DEF ShiftInv
<1>10. CASE spi_dcnt < W - 1
  <2>1. bit_cnt' = spi_dcnt + 1 /\ value' = 2 * value + b /\ words' = words
    BY <1>1, <1>3, <1>7, <1>10
  <2>2. Halves(Word, 2 * p, value', h, (2 * d) % (2 * h))
    <3>1. b = d \div h
      OBVIOUS
    <3> HIDE DEF h, b, p, d
    <3>2. Halves(Word, 2 * p, 2 * value + b, h, (2 * d) % (2 * h))
      BY <1>1, <1>3, <1>4, <1>5, <1>6, <3>1, BitTaken
    <3> QED
      BY <2>1, <3>2
  <2>3. Halves(Word, 2^(spi_dcnt + 1), value', 2^(W - 1), (2 * spi_dreg) % 2^W)
    BY <1>1, <1>6, <2>2
  <2>4. ~Whole'
    BY <1>1, <1>2, <1>10 DEF Whole
  <2>5. value' \in Nat /\ bit_cnt' \in 0..(W - 1)
    BY <1>1, <1>5, <1>10, <2>1
  <2> HIDE DEF h, b, p, d
  <2> QED
    BY <1>1, <1>2, <1>3, <1>10, <2>1, <2>3, <2>4, <2>5 DEF ShiftInv
<1> QED
  BY <1>1, <1>9, <1>10
-------------------------------------------------------------------------------
\* The display has the words that were shifted out since it was cleared.
ListInv == state \notin {"idle", "read_len_low"} => words = SubSeq(list, 1, Got)

IInv == SpiInv /\ CtrlInv /\ ShiftInv /\ ListInv

LEMMA Prefixes ==
  ASSUME list \in Lists
  PROVE  /\ SubSeq(list, 1, 0) = << >> /\ SubSeq(list, 1, Len(list)) = list
         /\ \A n \in 0..Len(list) : Len(SubSeq(list, 1, n)) = n
         /\ \A n \in 1..Len(list) : Append(SubSeq(list, 1, n - 1), list[n]) = SubSeq(list, 1, n)
<1> DEFINE S == 0..(2^W - 1)
<1>1. list \in Seq(S) /\ Len(list) \in Nat
  BY Listed
<1> HIDE DEF S
<1> QED
  BY <1>1

LEMMA InvInit == Init => IInv
<1> SUFFICES ASSUME Init PROVE IInv
  OBVIOUS
<1>1. SpiInv
  BY Powers DEF Init, SpiInv, spi_ncs
<1>2. CtrlInv
  BY DEF Init, CtrlInv, States, spi_busy
<1>3. ShiftInv
  BY DEF Init, ShiftInv, spi_busy
<1>4. ListInv
  BY DEF Init, ListInv
<1> QED
  BY <1>1, <1>2, <1>3, <1>4 DEF IInv

\* A clock with the shifter idle.
LEMMA IdleClock ==
  ASSUME IInv, Play(FALSE) \/ Play(TRUE), UNCHANGED list, Samples, Stays, ~spi_busy,
         clk_reg' \in {0, 1}
  PROVE  /\ SpiInv' /\ ShiftInv' /\ ListInv' /\ ~spi_busy'
         /\ state' # "reset" => words' = words
         /\ state' = "reset" => words' = << >>
<1> USE DEF IInv
<1>1. spi_state = "idle" /\ spi_state' = "idle" /\ spi_dreg' = spi_dreg
  BY DEF spi_busy, Stays
<1>2. /\ ~spi_busy' /\ spi_ncs' /\ bit_cnt' = 0 /\ value' = 0
      /\ words' = IF state' = "reset" THEN << >> ELSE words
  BY <1>1, NoRise DEF spi_busy, spi_ncs, lcd_nrst
<1>3. SpiInv'
  BY <1>1, <1>2, Powers DEF SpiInv
<1>4. ShiftInv'
  BY <1>2 DEF ShiftInv
<1>5. ASSUME state' \notin {"idle", "read_len_low"} PROVE words' = SubSeq(list', 1, Got')
  <2>1. CASE state' = "reset"
    <3>1. Got' = 0
      BY <1>2, <2>1 DEF Got, Sent
    <3> QED
      BY <1>2, <2>1, <3>1, Prefixes DEF CtrlInv
  <2>2. CASE state' # "reset"
    <3>1. state \notin {"idle", "read_len_low"}
      BY <1>5, <2>2 DEF Play, After
    <3>2. Sent' = Sent
      BY <1>5, SentIdle DEF Stays
    <3>3. Got' = Sent' /\ Got = Sent
      BY <1>2 DEF Got
    <3> QED
      BY <1>2, <2>2, <3>1, <3>2, <3>3 DEF ListInv
  <2> QED
    BY <2>1, <2>2
<1> QED
  BY <1>2, <1>3, <1>4, <1>5 DEF ListInv

\* The clock that takes a word.
LEMMA LoadClock ==
  ASSUME IInv, Play(FALSE) \/ Play(TRUE), UNCHANGED list, Samples, Loads, clk_reg' \in {0, 1},
         spi_state' = "send_dat" => clk_delay_reg' = 0
  PROVE  SpiInv' /\ ShiftInv' /\ ListInv' /\ words' = words
<1> USE DEF IInv
<1>1. /\ spi_send /\ ~spi_busy /\ spi_ncs /\ spi_dreg' = data_out /\ spi_busy'
      /\ spi_state' = "wait_clk" \/ (spi_state' = "send_dat" /\ clk_reg' = 0 /\ spi_dcnt' = 0)
  BY DEF Loads, spi_send, spi_busy, spi_ncs
<1>2. /\ state = "read_cmd" /\ state' \in {"read_cmd", "read_last"} /\ Sent' = Sent + 1
      /\ Sent' \in 1..Len(list) /\ data_out = list[Sent']
  BY <1>1, SentNext
<1>3. /\ bit_cnt = 0 /\ value = 0
  BY <1>1 DEF SpiInv
<1>4. bit_cnt' = 0 /\ value' = 0 /\ words' = words
  BY <1>2, <1>3, NoRise DEF lcd_nrst
<1>5. data_out \in 0..(2^W - 1) /\ data_out \in Nat
  <2>1. data_out \in 0..(2^W - 1) /\ 2^W \in Nat
    BY DataOut, Powers DEF CtrlInv
  <2> QED
    BY <2>1
<1>6. SpiInv'
  BY <1>1, <1>4, <1>5, Powers DEF SpiInv
<1>7. Word' = spi_dreg'
  BY <1>1, <1>2 DEF Word
<1>8. ~Whole'
  BY <1>1 DEF Whole
<1>9. ShiftInv'
  <2>1. Halves(spi_dreg', 2^0, 0, 2^(W - 1), spi_dreg')
    <3>1. 2^0 = 1 /\ 2^(W - 1) \in Nat /\ spi_dreg' \in Nat
      BY <1>1, <1>5, Powers
    <3> QED
      BY <3>1 DEF Halves
  <2>2. CASE spi_state' = "wait_clk"
    BY <1>2, <1>7, <1>8, <2>2 DEF ShiftInv
  <2>3. CASE spi_state' = "send_dat" /\ clk_reg' = 0 /\ spi_dcnt' = 0
    <3>1. Halves(Word', 2^spi_dcnt', value', 2^(W - 1), spi_dreg')
      BY <1>4, <1>7, <2>1, <2>3
    <3> QED
      BY <1>2, <1>4, <1>8, <2>3, <3>1 DEF ShiftInv
  <2> QED
    BY <1>1, <2>2, <2>3
<1>10. ListInv'
  <2>1. Got' = Sent /\ Got = Sent
    <3>1. Sent \in Int
      BY <1>2 DEF Sent, CtrlInv
    <3> QED
      BY <1>1, <1>2, <1>8, <3>1 DEF Got
  <2> QED
    BY <1>2, <1>4, <2>1 DEF ListInv
<1> QED
  BY <1>4, <1>6, <1>9, <1>10

\* A clock in the middle of a word.
LEMMA WordClock ==
  ASSUME IInv, Play(FALSE) \/ Play(TRUE), UNCHANGED list, Samples, spi_busy,
         Stays \/ Begins \/ Rises \/ Falls, clk_reg' \in {0, 1},
         spi_state' = "send_dat" => clk_delay_reg' = 0
  PROVE  /\ SpiInv' /\ ShiftInv' /\ ListInv'
         /\ state' = state /\ state \in {"read_cmd", "read_last"}
         /\ words' = words \/ (Got < Len(list) /\ words' = Append(words, list[Got + 1]))
<1> USE DEF IInv
<1>1. /\ state' = state /\ state \in {"read_cmd", "read_last"} /\ Sent' = Sent /\ Word' = Word
      /\ Sent \in 1..Len(list) /\ lcd_nrst' /\ Len(list) \in Nat
  BY SentKept, Listed DEF lcd_nrst, ShiftInv, CtrlInv
<1>2. /\ 2^W \in Nat \ {0} /\ W \in Nat \ {0} /\ bit_cnt \in 0..(W - 1) /\ value \in Nat
      /\ spi_state \in {"wait_clk", "send_dat"} /\ spi_dreg \in 0..(2^W - 1)
      /\ spi_state = "send_dat" => spi_dcnt \in 0..(W - 1)
  BY Powers DEF SpiInv, spi_busy
<1>3. words = SubSeq(list, 1, Got)
  BY <1>1 DEF ListInv
<1>4. CASE Rises
  <2>1. /\ bit_cnt' \in 0..(W - 1) /\ value' \in Nat /\ ShiftInv'
        /\ Whole' => words' = Append(words, Word)
        /\ ~Whole' => words' = words
    BY <1>1, <1>4, RisingStep DEF CtrlInv
  <2>2. SpiInv'
    BY <1>2, <1>4, <2>1 DEF SpiInv, Rises, spi_ncs
  <2>3. Got = Sent - 1
    BY <1>4 DEF Got, Whole, Rises
  <2>4. CASE Whole'
    <3>1. Got' = Sent
      BY <1>1, <2>4 DEF Got
    <3>2. words' = SubSeq(list, 1, Sent)
      BY <1>1, <1>3, <2>1, <2>3, <2>4, Prefixes DEF CtrlInv, Word
    <3>3. words' = Append(words, list[Got + 1]) /\ Got < Len(list)
      BY <1>1, <2>1, <2>3, <2>4 DEF Word
    <3> QED
      BY <1>1, <2>1, <2>2, <3>1, <3>2, <3>3 DEF ListInv
  <2>5. CASE ~Whole'
    <3>1. spi_busy'
      BY <1>4 DEF Rises, spi_busy
    <3>2. Got' = Got
      BY <1>1, <2>3, <2>5, <3>1 DEF Got
    <3> QED
      BY <1>1, <1>3, <2>1, <2>2, <2>5, <3>2 DEF ListInv
  <2> QED
    BY <2>4, <2>5
<1>5. CASE ~Rises
  <2>1. /\ bit_cnt' = IF spi_ncs' THEN 0 ELSE bit_cnt
        /\ value' = IF spi_ncs' THEN 0 ELSE value
        /\ words' = words
    BY <1>1, <1>5, NoRise
  <2>2. spi_dreg' \in 0..(2^W - 1)
    <3>1. CASE Falls
      <4>1. 2 * spi_dreg \in Nat
        BY <1>2
      <4> QED
        BY <1>2, <3>1, <4>1 DEF Falls
    <3>2. CASE ~Falls
      BY <1>2, <1>5, <3>2 DEF Stays, Begins
    <3> QED
      BY <3>1, <3>2
  <2>3. spi_state' = "send_dat" => spi_dcnt' \in 0..(W - 1)
    BY <1>2, <1>5 DEF Stays, Begins, Falls
  <2>4. spi_state' \in {"idle", "wait_clk", "send_dat"}
    BY <1>2, <1>5 DEF Stays, Begins, Falls
  <2>5. SpiInv'
    BY <1>2, <2>1, <2>2, <2>3, <2>4 DEF SpiInv
  <2>6. ShiftInv' /\ Got' = Got
    <3>1. CASE Stays
      <4>1. CASE spi_state = "wait_clk"
        <5>1. spi_state' = "wait_clk" /\ spi_dreg' = spi_dreg
          BY <3>1, <4>1 DEF Stays
        <5>2. spi_busy' /\ ~Whole' /\ ~Whole
          BY <4>1, <5>1 DEF Whole, spi_busy
        <5> QED
          BY <1>1, <4>1, <5>1, <5>2 DEF ShiftInv, Got
      <4>2. CASE spi_state = "send_dat"
        <5>1. /\ spi_state' = spi_state /\ spi_dreg' = spi_dreg /\ clk_reg' = clk_reg
              /\ spi_dcnt' = spi_dcnt /\ bit_cnt' = bit_cnt /\ value' = value
          BY <2>1, <3>1, <4>2 DEF Stays, spi_ncs
        <5>2. spi_busy' /\ (Whole' <=> Whole)
          BY <4>2, <5>1 DEF Whole, spi_busy
        <5> QED
          BY <1>1, <4>2, <5>1, <5>2 DEF ShiftInv, Got
      <4> QED
        BY <1>2, <4>1, <4>2
    <3>2. CASE Begins
      <4>1. /\ spi_state = "wait_clk" /\ spi_state' = "send_dat" /\ spi_dreg' = spi_dreg
            /\ clk_reg' = 0 /\ spi_dcnt' = 0 /\ bit_cnt' = 0 /\ value' = 0
        BY <2>1, <3>2 DEF Begins, SpiInv, spi_ncs
      <4>2. spi_busy' /\ ~Whole' /\ ~Whole /\ Word = spi_dreg
        BY <4>1 DEF Whole, spi_busy, ShiftInv
      <4>3. Halves(Word', 2^spi_dcnt', value', 2^(W - 1), spi_dreg')
        <5>1. 2^0 = 1 /\ 2^(W - 1) \in Nat /\ spi_dreg \in Nat
          BY <1>2, Powers
        <5> QED
          BY <1>1, <4>1, <4>2, <5>1 DEF Halves
      <4> QED
        BY <1>1, <4>1, <4>2, <4>3 DEF ShiftInv, Got
    <3>3. CASE Falls /\ spi_dcnt = W - 1
      <4>1. Whole /\ ~spi_busy'
        BY <3>3 DEF Falls, Whole, spi_busy
      <4> QED
        BY <1>1, <4>1 DEF ShiftInv, Got
    <3>4. CASE Falls /\ spi_dcnt # W - 1
      <4>1. /\ spi_state = "send_dat" /\ clk_reg = 1 /\ clk_reg' = 0 /\ spi_dcnt < W - 1
            /\ spi_state' = "send_dat" /\ spi_dcnt' = spi_dcnt + 1
            /\ spi_dreg' = (2 * spi_dreg) % 2^W /\ bit_cnt' = bit_cnt /\ value' = value
        BY <2>1, <3>4 DEF Falls, spi_ncs
      <4>2. spi_busy' /\ ~Whole' /\ ~Whole
        BY <3>4, <4>1 DEF Whole, spi_busy
      <4>3. /\ bit_cnt = spi_dcnt + 1
            /\ Halves(Word, 2^(spi_dcnt + 1), value, 2^(W - 1), (2 * spi_dreg) % 2^W)
        BY <4>1 DEF ShiftInv
      <4>4. Halves(Word', 2^spi_dcnt', value', 2^(W - 1), spi_dreg')
        BY <1>1, <4>1, <4>3
      <4> QED
        BY <1>1, <4>1, <4>2, <4>3, <4>4 DEF ShiftInv, Got
    <3> QED
      BY <1>5, <3>1, <3>2, <3>3, <3>4
  <2> QED
    BY <1>1, <1>3, <2>1, <2>5, <2>6 DEF ListInv
<1> QED
  BY <1>4, <1>5

LEMMA ResetClock ==
  ASSUME IInv, Reset, UNCHANGED setup
  PROVE  IInv' /\ words' = words /\ state' = "idle"
<1> USE DEF IInv
<1>1. /\ UNCHANGED list /\ state' = "idle" /\ last_state' = "idle" /\ init_cnt' = 0 /\ init_len' = 0
      /\ addr' = init_cnt /\ spi_state' = "idle" /\ spi_dreg' = 0 /\ clk_reg' = 0
  BY DEF Reset, Cleared, setup
<1>2. ~spi_busy' /\ spi_ncs' /\ lcd_nrst' /\ spi_clk' = 0
  BY <1>1 DEF spi_busy, spi_ncs, lcd_nrst, spi_clk
<1>3. bit_cnt' = 0 /\ value' = 0 /\ words' = words
  <2>1. bit_cnt # W
    BY Powers DEF SpiInv
  <2>2. spi_clk' # 1
    BY <1>2
  <2> QED
    BY <1>2, <2>1, <2>2 DEF Reset, Samples
<1>4. SpiInv'
  BY <1>1, <1>2, <1>3, Powers DEF SpiInv
<1>5. CtrlInv'
  BY <1>1, <1>2 DEF CtrlInv, States
<1>6. ShiftInv' /\ ListInv'
  BY <1>1, <1>2 DEF ShiftInv, ListInv
<1> QED
  BY <1>1, <1>3, <1>4, <1>5, <1>6

\* What a clock does to the list at the display.
LEMMA ClockStep ==
  ASSUME IInv, Clock, UNCHANGED setup
  PROVE  /\ IInv'
         /\ \/ words' = words
            \/ state' = "reset" /\ words' = << >>
            \/ /\ spi_busy /\ state' = state /\ state \in {"read_cmd", "read_last"}
               /\ Got < Len(list) /\ words' = Append(words, list[Got + 1])
         /\ state' = "reset" => words' = << >>
         /\ state' = "done" => ~spi_busy
<1>1. /\ Play(FALSE) \/ Play(TRUE)
      /\ Shift /\ addr' = init_cnt /\ Samples /\ UNCHANGED list
  BY DEF Clock, setup
<1>2. /\ SpiInv /\ CtrlInv /\ ShiftInv /\ ListInv
  BY DEF IInv
<1>3. /\ Stays \/ Loads \/ Begins \/ Rises \/ Falls
      /\ clk_reg' \in {0, 1}
      /\ spi_state' = "send_dat" => clk_delay_reg' = 0
  BY <1>1, <1>2, ShiftCases
<1>4. CtrlInv'
  BY <1>1, <1>2, <1>3, CtrlStep
<1>5. CASE spi_busy
  <2>1. ~Loads
    BY <1>5 DEF Loads, spi_send
  <2>2. /\ SpiInv' /\ ShiftInv' /\ ListInv'
        /\ state' = state /\ state \in {"read_cmd", "read_last"}
        /\ words' = words \/ (Got < Len(list) /\ words' = Append(words, list[Got + 1]))
    BY <1>1, <1>3, <1>5, <2>1, WordClock
  <2> QED
    BY <1>4, <1>5, <2>2 DEF IInv
<1>6. CASE Loads
  <2>1. SpiInv' /\ ShiftInv' /\ ListInv' /\ words' = words
    BY <1>1, <1>3, <1>6, LoadClock
  <2>2. state' \in {"read_cmd", "read_last"}
    BY <1>1, <1>2, <1>6, SentNext DEF Loads
  <2> QED
    BY <1>4, <2>1, <2>2 DEF IInv
<1>7. CASE ~spi_busy /\ ~Loads
  <2>1. Stays
    BY <1>3, <1>7 DEF Begins, Rises, Falls, spi_busy
  <2>2. /\ SpiInv' /\ ShiftInv' /\ ListInv' /\ ~spi_busy'
        /\ state' # "reset" => words' = words
        /\ state' = "reset" => words' = << >>
    BY <1>1, <1>3, <1>7, <2>1, IdleClock
  <2> QED
    BY <1>4, <1>7, <2>2 DEF IInv
<1> QED
  BY <1>5, <1>6, <1>7

LEMMA InvStep == IInv /\ [Next]_vars => IInv'
<1> SUFFICES ASSUME IInv, [Next]_vars PROVE IInv'
  OBVIOUS
<1>1. CASE UNCHANGED setup /\ Clock
  BY <1>1, ClockStep
<1>2. CASE UNCHANGED setup /\ Reset
  BY <1>2, ResetClock
<1>3. CASE UNCHANGED vars
  <2>1. UNCHANGED << list, state, last_state, init_len, init_cnt, addr, spi_state, spi_dcnt,
                     spi_dreg, clk_delay_reg, clk_reg, bit_cnt, value, words >>
    BY <1>3 DEF vars, setup, ctrl, spi
  <2>2. SpiInv' /\ CtrlInv'
    BY <2>1 DEF IInv, SpiInv, CtrlInv, spi_ncs, spi_busy, Memory
  <2>3. Sent' = Sent /\ Word' = Word /\ Whole' = Whole /\ spi_busy' = spi_busy /\ Got' = Got
    BY <2>1 DEF Sent, Word, Whole, spi_busy, Got
  <2>4. ShiftInv' /\ ListInv'
    BY <2>1, <2>3 DEF IInv, ShiftInv, ListInv
  <2> QED
    BY <2>2, <2>4 DEF IInv
<1> QED
  BY <1>1, <1>2, <1>3 DEF Next

LEMMA Invariant == Spec => []IInv
  BY InvInit, InvStep, PTL DEF Spec
-------------------------------------------------------------------------------
LEMMA ListInit == Init => Display!Init
<1> SUFFICES ASSUME Init PROVE Display!Init
  OBVIOUS
<1>1. state = "idle" /\ words = << >>
  BY DEF Init
<1>2. (state \notin {"idle", "read_len_low"}) = FALSE /\ busy = TRUE
  BY <1>1 DEF busy
<1> QED
  BY <1>1, <1>2 DEF Display!Init

\* Every clock is a step of DisplayList, or leaves what that speaks of alone.
LEMMA ListStep == IInv /\ [Next]_vars => [Display!Next]_Display!displayVars
<1> SUFFICES ASSUME IInv, [Next]_vars PROVE [Display!Next]_Display!displayVars
  OBVIOUS
<1> DEFINE fresh == state \notin {"idle", "read_len_low"}
<1>1. /\ state \in States /\ list \in Lists
      /\ fresh => words = SubSeq(list, 1, Got)
  BY DEF IInv, CtrlInv, ListInv
<1>2. CASE UNCHANGED vars
  <2>1. list' = list /\ words' = words /\ state' = state
    BY <1>2 DEF vars, setup, ctrl
  <2>2. fresh' = fresh /\ busy' = busy
    BY <2>1 DEF busy
  <2> QED
    BY <2>1, <2>2 DEF Display!displayVars
<1>3. CASE UNCHANGED setup /\ Reset
  <2>1. list' = list /\ words' = words /\ state' = "idle"
    BY <1>3, ResetClock DEF setup
  <2>2. fresh' = FALSE /\ busy' = TRUE
    BY <2>1 DEF busy
  <2>3. Display!Restart
    BY <2>1, <2>2 DEF Display!Restart
  <2> QED
    BY <2>1, <2>3 DEF Display!Next
<1>4. CASE UNCHANGED setup /\ Clock
  <2>1. /\ list' = list
        /\ \/ words' = words
           \/ state' = "reset" /\ words' = << >>
           \/ /\ spi_busy /\ state' = state /\ state \in {"read_cmd", "read_last"}
              /\ Got < Len(list) /\ words' = Append(words, list[Got + 1])
        /\ state' = "reset" => words' = << >>
        /\ state' = "done" => ~spi_busy
    BY <1>4, ClockStep DEF setup
  <2>2. Play(FALSE) \/ Play(TRUE)
    BY <1>4 DEF Clock
  <2>3. CASE state' = state /\ words' = words
    <3>1. fresh' = fresh /\ busy' = busy
      BY <2>3 DEF busy
    <3> QED
      BY <2>1, <2>3, <3>1 DEF Display!displayVars
  <2>4. CASE state' = state /\ words' # words
    <3>1. CASE state = "reset"
      <4>1. words = << >>
        <5>1. Got = 0
          BY <3>1 DEF Got, Sent, IInv, CtrlInv
        <5> QED
          BY <1>1, <3>1, <5>1, Prefixes
      <4> QED
        BY <2>1, <2>4, <3>1, <4>1
    <3>2. CASE state # "reset"
      <4>1. spi_busy /\ state \in {"read_cmd", "read_last"} /\ Got < Len(list)
            /\ words' = Append(words, list[Got + 1])
        BY <2>1, <2>4, <3>2
      <4>2. Len(words) = Got
        <5>1. Got \in 0..Len(list)
          <6>1. Sent \in Int
            BY <4>1, Listed DEF Sent, IInv, CtrlInv
          <6> QED
            BY <4>1, <6>1 DEF IInv, ShiftInv, Got
        <5> QED
          BY <1>1, <4>1, <5>1, Prefixes
      <4>3. fresh = TRUE /\ fresh' = TRUE /\ busy' = busy
        BY <2>4, <4>1 DEF busy
      <4>4. Display!Take
        BY <2>1, <4>1, <4>2, <4>3 DEF Display!Take
      <4> QED
        BY <2>1, <4>4 DEF Display!Next
    <3> QED
      BY <3>1, <3>2
  <2>5. CASE state' # state
    <3>1. words' = words \/ (state' = "reset" /\ words' = << >>)
      BY <2>1, <2>5
    <3>2. CASE state = "read_len_low"
      <4>1. state' = "reset" /\ words' = << >>
        BY <2>1, <2>2, <3>2 DEF Play, After
      <4>2. fresh = FALSE /\ fresh' = TRUE /\ busy' = busy
        BY <3>2, <4>1 DEF busy
      <4>3. Display!Clear
        BY <4>1, <4>2 DEF Display!Clear
      <4> QED
        BY <2>1, <4>3 DEF Display!Next
    <3>3. CASE state = "read_last"
      <4>1. state' = "done" /\ words' = words /\ ~spi_busy
        BY <2>1, <2>2, <2>5, <3>1, <3>3 DEF Play, After
      <4>2. words = list
        <5>1. Got = Len(list)
          BY <3>3, <4>1 DEF Got, Sent
        <5> QED
          BY <1>1, <3>3, <5>1, Prefixes
      <4>3. fresh = TRUE /\ fresh' = TRUE /\ busy = TRUE /\ busy' = FALSE
        BY <3>3, <4>1 DEF busy
      <4>4. Display!Finish
        BY <4>1, <4>2, <4>3 DEF Display!Finish
      <4> QED
        BY <2>1, <4>4 DEF Display!Next
    <3>4. CASE state = "done"
      <4>1. state' = "idle" /\ words' = words
        BY <2>2, <2>5, <3>1, <3>4 DEF Play, After
      <4>2. fresh' = FALSE /\ busy' = TRUE
        BY <4>1 DEF busy
      <4>3. Display!Restart
        BY <4>1, <4>2 DEF Display!Restart
      <4> QED
        BY <2>1, <4>3 DEF Display!Next
    <3>5. CASE state \notin {"read_len_low", "read_last", "done"}
      <4>1. /\ state = "idle" => state' = "read_len_low"
            /\ state # "idle" => state' \in {"reset_release", "wait_on", "read_cmd", "read_last"}
        BY <1>1, <2>2, <2>5, <3>5 DEF Play, After, States
      <4>2. fresh' = fresh /\ busy' = busy /\ words' = words
        BY <3>1, <3>5, <4>1 DEF busy
      <4> QED
        BY <2>1, <4>2 DEF Display!displayVars
    <3> QED
      BY <3>2, <3>3, <3>4, <3>5
  <2> QED
    BY <2>3, <2>4, <2>5
<1> QED
  BY <1>2, <1>3, <1>4 DEF Next

\* The words of the list, each once and in order, get to the display after it
\* was cleared, and the last one before busy falls: whatever the width of a
\* word, the list and the dividers (oled_ctrl.py, OledCtrl).
THEOREM PlaysList == Spec => Display!Spec
<1>1. IInv /\ [Next]_vars => [Display!Next]_Display!displayVars
  BY ListStep
<1> QED
  BY <1>1, ListInit, Invariant, PTL DEF Spec, Display!Spec
-------------------------------------------------------------------------------
\* A clock that ends with spi_clk high leaves data and select as they were.
LEMMA SteadyStep ==
  IInv /\ [Next]_vars => [spi_clk' = 1 => spi_mosi' = spi_mosi /\ spi_ncs' = spi_ncs]_vars
<1> SUFFICES ASSUME IInv, Next, spi_clk' = 1
             PROVE  spi_mosi' = spi_mosi /\ spi_ncs' = spi_ncs
  OBVIOUS
<1>1. spi_state' = "send_dat" /\ clk_reg' = 1
  BY DEF spi_clk, spi_ncs
<1>2. Shift
  BY <1>1 DEF Next, Clock, Reset, Cleared
<1>3. Stays \/ Loads \/ Begins \/ Rises \/ Falls
  BY <1>2, ShiftCases DEF IInv
<1>4. spi_state = "send_dat" /\ spi_dreg' = spi_dreg
  BY <1>1, <1>3 DEF Stays, Loads, Begins, Rises, Falls
<1> QED
  BY <1>1, <1>4 DEF spi_mosi, spi_ncs

\* While spi_clk is high, and as it rises, data and select stand still
\* (oled_ctrl.py:48-51).
THEOREM SteadyLines == Spec => MosiSteady
  BY Invariant, SteadyStep, PTL DEF Spec, MosiSteady
===============================================================================
