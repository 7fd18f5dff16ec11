------------------------------- MODULE OledCtrl -------------------------------
(***************************************************************************)
(* The controller of the OLED display (build/oled_ctrl.py): OledCtrl plays  *)
(* the words of a memory, and SpiCtrl shifts them out. One step is a clock; *)
(* the variables are the registers, the operators the wires between them.   *)
(***************************************************************************)
EXTENDS Naturals, Sequences

CONSTANTS
  W,           \* bits of a word: 9 in OledCtrl
  Lists,       \* the lists of words that are played
  ClkDividers, RstDividers

ASSUME SizesAssumption ==
  /\ W \in 1..16                              \* spi_dcnt counts them in four bits
  /\ \A l \in Lists : /\ l \in Seq(0..(2^W - 1))
                      /\ Len(l) > 1 /\ Len(l) + 2 < 2^(W + 1)
  /\ ClkDividers \subseteq 0..255 /\ RstDividers \subseteq 0..255

\* What a proof has to be told about powers.
ASSUME PowersAssumption == \A n \in 0..W : 2^n \in Nat \ {0} /\ 2^(n + 1) = 2 * 2^n

VARIABLES
  list, clk_divider, rst_divider,              \* generated in, and tied at the pins
  state, last_state, rst_cnt, init_len, init_cnt, addr,
  spi_state, prescaler, spi_prescaler_tick, spi_dcnt, spi_dreg,
  clk_delay_reg, clk_reg,                      \* behind spi_clk_delay and spi_clk
  bit_cnt, value, words                        \* of the display: see Samples

setup  == << list, clk_divider, rst_divider >>
ctrl   == << state, last_state, rst_cnt, init_len, init_cnt >>
spi    == << spi_state, prescaler, spi_prescaler_tick, spi_dcnt, spi_dreg,
             clk_delay_reg, clk_reg >>
vars   == << setup, ctrl, addr, spi, bit_cnt, value, words >>
-------------------------------------------------------------------------------
\* Mutant: the size is that of the list, although the memory is read from 2 on.
MemoryOfLength == LET size == Len(list)
                  IN << size \div 2^W, size % 2^W >> \o list

\* The memory: how many words, in two parts, and the words.
Memory == LET size == Len(list) + 1
          IN << size \div 2^W, size % 2^W >> \o list

data_out == IF addr < Len(Memory) THEN Memory[addr + 1] ELSE 0

lcd_nrst == state # "reset"
busy     == state # "done"
spi_busy == spi_state # "idle"
spi_ncs  == spi_state # "send_dat"
spi_mosi == IF spi_ncs THEN 0 ELSE spi_dreg \div 2^(W - 1)
spi_clk  == IF spi_ncs THEN 0 ELSE clk_reg
spi_clk_delay == IF spi_ncs THEN 1 ELSE clk_delay_reg
spi_tick == spi_prescaler_tick /\ (spi_clk = 1 \/ spi_ncs)

\* Mutant: a word is sent while the shifter is at the one before.
SendWhileBusy == last_state = "read_cmd"

spi_send == last_state = "read_cmd" /\ ~spi_busy
-------------------------------------------------------------------------------
Init ==
  /\ list \in Lists /\ clk_divider \in ClkDividers /\ rst_divider \in RstDividers
  /\ state = "idle" /\ last_state = "idle" /\ rst_cnt = 0
  /\ init_len = 0 /\ init_cnt = 0 /\ addr = 0
  /\ spi_state = "idle" /\ prescaler = 0 /\ spi_prescaler_tick = FALSE
  /\ spi_dcnt = 0 /\ spi_dreg = 0 /\ clk_delay_reg = 0 /\ clk_reg = 0
  /\ bit_cnt = 0 /\ value = 0 /\ words = << >>

\* The states of OledCtrl; refresh is looked at in done only.
After(refresh) ==
  CASE state = "idle"          -> "read_len_low"
    [] state = "read_len_low"  -> "reset"
    [] state = "reset"         -> IF rst_cnt = rst_divider THEN "reset_release" ELSE state
    [] state = "reset_release" -> "wait_on"
    [] state = "wait_on"       -> IF rst_cnt = rst_divider THEN "read_cmd" ELSE state
    [] state = "read_cmd"      -> IF init_cnt = init_len /\ ~spi_busy THEN "read_last" ELSE state
    [] state = "read_last"     -> IF spi_busy THEN state ELSE "done"
    [] state = "done"          -> IF refresh THEN "idle" ELSE state

Counter ==
  CASE state = "idle" -> 1
    [] state \in {"read_len_low", "reset", "reset_release", "wait_on"} -> 2
    [] state = "read_cmd" -> IF spi_send THEN (init_cnt + 1) % 2^(W + 1) ELSE init_cnt
    [] state \in {"read_last", "done"} -> 0

Play(refresh) ==
  /\ state' = After(refresh)
  /\ last_state' = state
  /\ rst_cnt' = IF state \in {"read_len_low", "reset_release"} THEN 0 ELSE (rst_cnt + 1) % 256
  /\ init_len' = IF last_state \in {"idle", "read_len_low"}
                 THEN (init_len % 2) * 2^W + data_out ELSE init_len
  /\ init_cnt' = Counter

SpiAfter ==
  CASE spi_state = "idle" ->
         IF ~spi_send THEN spi_state ELSE IF spi_tick THEN "send_dat" ELSE "wait_clk"
    [] spi_state = "wait_clk" -> IF spi_tick THEN "send_dat" ELSE spi_state
    [] spi_state = "send_dat" -> IF spi_tick /\ spi_dcnt = W - 1 THEN "idle" ELSE spi_state

\* Mutant: the next bit is put on the line with every tick.
ShiftOnEveryTick ==
  IF spi_send THEN data_out
  ELSE IF spi_prescaler_tick /\ ~spi_ncs THEN (2 * spi_dreg) % 2^W ELSE spi_dreg

\* Nothing comes in on spi_miso.
Shifted ==
  IF spi_send THEN data_out
  ELSE IF spi_tick /\ ~spi_ncs THEN (2 * spi_dreg) % 2^W ELSE spi_dreg

Shift ==
  /\ spi_state' = SpiAfter
  /\ prescaler' = IF prescaler = clk_divider THEN 0 ELSE (prescaler + 1) % 256
  /\ spi_prescaler_tick' = (prescaler = 0)
  /\ spi_dcnt' = IF ~spi_tick THEN spi_dcnt ELSE IF spi_ncs THEN 0 ELSE (spi_dcnt + 1) % 16
  /\ spi_dreg' = Shifted
  /\ clk_delay_reg' = IF spi_prescaler_tick THEN 0 ELSE spi_clk_delay
  /\ clk_reg' = IF spi_prescaler_tick /\ spi_clk_delay = 0 THEN 1 - spi_clk ELSE spi_clk

Cleared ==
  /\ state' = "idle" /\ last_state' = "idle"
  /\ rst_cnt' = 0 /\ init_len' = 0 /\ init_cnt' = 0
  /\ spi_state' = "idle" /\ prescaler' = 0 /\ spi_prescaler_tick' = FALSE
  /\ spi_dcnt' = 0 /\ spi_dreg' = 0 /\ clk_delay_reg' = 0 /\ clk_reg' = 0

\* The display: a bit at each rising edge of spi_clk, from before or after the
\* edge if spi_mosi changes with it; spi_ncs drops what is not a word.
Samples ==
  LET rises == ~spi_ncs /\ spi_clk = 0 /\ spi_clk' = 1
  IN \E bit \in {spi_mosi, spi_mosi'} :
       LET count == IF rises THEN bit_cnt + 1 ELSE bit_cnt
           all   == IF rises THEN 2 * value + bit ELSE value
           whole == count = W
           drop  == whole \/ spi_ncs' \/ ~lcd_nrst'
       IN /\ bit_cnt' = IF drop THEN 0 ELSE count
          /\ value' = IF drop THEN 0 ELSE all
          /\ words' = IF ~lcd_nrst' THEN << >>
                      ELSE IF whole THEN Append(words, all) ELSE words
-------------------------------------------------------------------------------
\* The address register of the memory has no reset.
Clock == \E refresh \in BOOLEAN : Play(refresh) /\ Shift /\ addr' = init_cnt /\ Samples
Reset == Cleared /\ addr' = init_cnt /\ Samples

Next == UNCHANGED setup /\ (Clock \/ Reset)

Spec == Init /\ [][Next]_vars

\* The clock runs, and is not under reset for ever.
FairSpec == Spec /\ WF_vars(Next) /\ <>[][~Reset]_vars
-------------------------------------------------------------------------------
\* The words of the list, each once and in order, get to the display after it
\* was cleared, the last one before busy falls; and they do get there.
\* (oled_ctrl.py: the memory is a clock behind init_cnt, and the last word is
\* sent in read_last.)
Display == INSTANCE DisplayList WITH
  got <- words, fresh <- state \notin {"idle", "read_len_low"}, busy <- busy
ImplementsList == Display!FairSpec

\* While the clock is high, and as it rises, data and select stand still: they
\* change with the falling edge (oled_ctrl.py:48-51).
MosiSteady == [][spi_clk' = 1 => spi_mosi' = spi_mosi /\ spi_ncs' = spi_ncs]_vars
===============================================================================
