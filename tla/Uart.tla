-------------------------------- MODULE Uart --------------------------------
(***************************************************************************)
(* The UART (rtl/uncore/uart/uart.py): its registers on the data bus, the  *)
(* receiver and the transmitter.  Every operator that primes a variable is *)
(* the effect of one clock.  A frame has Bits data bits (8 in the code),   *)
(* counters and the divider are Width bits wide (16).                      *)
(***************************************************************************)
EXTENDS Naturals

CONSTANTS Bits, Width

ASSUME UartAssumption ==
    Bits \in Nat \ {0} /\ Width \in Nat \ {0} /\ Bits < 2 ^ Width

VARIABLES
    tx_divider, rx_start_qual_ticks, rx_start_sample_ticks,
    int_en,             \* the interrupts enabled, a subset of {"rx", "tx"}
    \* receiver
    rx_sync_1, rx_sync_2, rx_prev,
    start_candidate, start_ticks, rx_busy, stop_bit,
    rx_shift, rx_bit_index, rx_div_count, rx_sample_phase, rx_sample_ones,
    rx_data, rx_ready, rx_framing_error,
    \* transmitter
    tx_line, tx_busy, tx_buffer, tx_buffer_valid, tx_shift, tx_bit_index,
    tx_div_count

registers == <<tx_divider, rx_start_qual_ticks, rx_start_sample_ticks, int_en>>
sync == <<rx_sync_1, rx_sync_2, rx_prev>>
start == <<start_candidate, start_ticks>>
frame == <<rx_busy, stop_bit, rx_shift, rx_bit_index, rx_div_count,
           rx_sample_phase, rx_sample_ones>>
holding == <<rx_data, rx_ready, rx_framing_error>>
txVars == <<tx_line, tx_busy, tx_buffer, tx_buffer_valid, tx_shift,
            tx_bit_index, tx_div_count>>
uartVars == <<registers, sync, start, frame, holding, txVars>>

Byte == [0 .. Bits - 1 -> BOOLEAN]
Wrap(n) == n % 2 ^ Width
Half(n, k) == n \div 2 ^ k      \* a shift to the right

\* An access of the data bus in this clock: it is never stalled and answered
\* at once.
Access == [op : {"none", "status"}] \cup [op : {"read"}] \cup
          [op : {"write"}, data : Byte] \cup
          [op : {"control"}, divider : 0 .. 2 ^ Width - 1] \cup
          [op : {"interrupt"}, enable : SUBSET {"rx", "tx"}]

rx_reg_read(a) == a.op = "read"
tx_reg_write(a) == a.op = "write" /\ ~tx_buffer_valid
tx_ready == ~tx_buffer_valid
irq == ("rx" \in int_en /\ rx_ready) \/ ("tx" \in int_en /\ tx_ready)

Registers(a) ==
    /\ IF a.op = "control"
       THEN LET d == a.divider IN
            /\ tx_divider' = d
            /\ rx_start_qual_ticks' = Half(d, 1) + Half(d, 2) + Half(d, 4)
            /\ rx_start_sample_ticks' = Half(d, 1) + Half(d, 3) + Half(d, 4)
       ELSE UNCHANGED <<tx_divider, rx_start_qual_ticks, rx_start_sample_ticks>>
    /\ int_en' = IF a.op = "interrupt" THEN a.enable ELSE int_en

-----------------------------------------------------------------------------
(* Receiver. *)

Majority == rx_sample_ones = 2 \/ (rx_sample_ones = 1 /\ rx_sync_2)

\* A byte ends with its stop bit.
Complete == rx_busy /\ ~start_candidate /\ rx_div_count = 0 /\
            rx_sample_phase = 2 /\ stop_bit

\* mutant: the read clears the flag of the byte that arrives in its clock
HoldingReadWins(a) ==
    /\ rx_data' = IF Complete THEN rx_shift ELSE rx_data
    /\ rx_ready' = (~rx_reg_read(a) /\ (Complete \/ rx_ready))
    /\ rx_framing_error' = IF rx_reg_read(a) THEN FALSE
                           ELSE IF Complete THEN ~Majority ELSE rx_framing_error

\* The holding register: a read clears it, a byte that arrives in the same
\* clock prevails.
Holding(a) ==
    IF Complete
    THEN rx_data' = rx_shift /\ rx_ready' = TRUE /\ rx_framing_error' = ~Majority
    ELSE /\ rx_ready' = (rx_ready /\ ~rx_reg_read(a))
         /\ rx_framing_error' = (rx_framing_error /\ ~rx_reg_read(a))
         /\ UNCHANGED rx_data

\* A start bit is taken when the line stayed low for most of a bit.
Qualify ==
    /\ start_candidate
    /\ IF rx_sync_2
       THEN start_candidate' = FALSE /\ start_ticks' = 0 /\ UNCHANGED frame
       ELSE IF start_ticks = rx_start_qual_ticks
       THEN /\ start_candidate' = FALSE /\ start_ticks' = 0
            /\ rx_busy' = TRUE /\ stop_bit' = FALSE /\ rx_bit_index' = 0
            /\ rx_sample_phase' = 0 /\ rx_sample_ones' = 0
            /\ rx_div_count' = rx_start_sample_ticks
            /\ UNCHANGED rx_shift
       ELSE /\ start_ticks' = Wrap(start_ticks + 1)
            /\ UNCHANGED <<start_candidate, frame>>

Wait ==
    /\ ~start_candidate /\ rx_busy /\ rx_div_count # 0
    /\ rx_div_count' = rx_div_count - 1
    /\ UNCHANGED <<start, rx_busy, stop_bit, rx_shift, rx_bit_index,
                   rx_sample_phase, rx_sample_ones>>

\* Each bit is the majority of three samples in a row.
Sample ==
    /\ ~start_candidate /\ rx_busy /\ rx_div_count = 0 /\ rx_sample_phase # 2
    /\ rx_sample_ones' = rx_sample_ones + (IF rx_sync_2 THEN 1 ELSE 0)
    /\ rx_sample_phase' = rx_sample_phase + 1
    /\ UNCHANGED <<start, rx_busy, stop_bit, rx_shift, rx_bit_index, rx_div_count>>

\* mutant: the clocks of the samples are not among those counted
NextBitLate ==
    /\ ~start_candidate /\ rx_busy /\ rx_div_count = 0 /\ rx_sample_phase = 2
    /\ rx_shift' = IF stop_bit THEN rx_shift
                   ELSE [rx_shift EXCEPT ![rx_bit_index] = Majority]
    /\ rx_busy' = ~stop_bit
    /\ stop_bit' = (~stop_bit /\ rx_bit_index = Bits - 1)
    /\ rx_bit_index' = IF stop_bit THEN 0
                       ELSE IF rx_bit_index = Bits - 1 THEN rx_bit_index
                       ELSE rx_bit_index + 1
    /\ rx_sample_phase' = 0 /\ rx_sample_ones' = 0
    /\ rx_div_count' = tx_divider
    /\ UNCHANGED start

NextBit ==
    /\ ~start_candidate /\ rx_busy /\ rx_div_count = 0 /\ rx_sample_phase = 2
    /\ rx_shift' = IF stop_bit THEN rx_shift
                   ELSE [rx_shift EXCEPT ![rx_bit_index] = Majority]
    /\ rx_busy' = ~stop_bit
    /\ stop_bit' = (~stop_bit /\ rx_bit_index = Bits - 1)
    /\ rx_bit_index' = IF stop_bit THEN 0
                       ELSE IF rx_bit_index = Bits - 1 THEN rx_bit_index
                       ELSE rx_bit_index + 1
    /\ rx_sample_phase' = 0 /\ rx_sample_ones' = 0
    /\ rx_div_count' = Wrap(tx_divider + 2 ^ Width - 2)
    /\ UNCHANGED start

Idle ==
    /\ ~start_candidate /\ ~rx_busy
    /\ IF rx_prev /\ ~rx_sync_2
       THEN start_candidate' = TRUE /\ start_ticks' = 0
       ELSE UNCHANGED start
    /\ UNCHANGED frame

Receiver(rx, a) ==
    /\ rx_sync_1' = rx /\ rx_sync_2' = rx_sync_1 /\ rx_prev' = rx_sync_2
    /\ Holding(a)
    /\ (Qualify \/ Wait \/ Sample \/ NextBit \/ Idle)

-----------------------------------------------------------------------------
(* Transmitter. *)

\* The last bit is over: a buffered byte goes first, then one that is being
\* written.
FrameEnds == tx_busy /\ tx_div_count = 0 /\ tx_bit_index = Bits + 1

Load(data) == tx_shift' = data /\ tx_line' = FALSE /\ tx_bit_index' = 0

\* mutant: the stop bit is never counted
SendBitStop ==
    /\ tx_busy /\ tx_div_count = 0 /\ ~FrameEnds
    /\ tx_div_count' = tx_divider
    /\ tx_line' = IF tx_bit_index < Bits THEN tx_shift[tx_bit_index] ELSE TRUE
    /\ tx_bit_index' = IF tx_bit_index < Bits THEN tx_bit_index + 1 ELSE Bits
    /\ UNCHANGED <<tx_busy, tx_shift>>

SendBit ==
    /\ tx_busy /\ tx_div_count = 0 /\ ~FrameEnds
    /\ tx_div_count' = tx_divider
    /\ tx_line' = IF tx_bit_index < Bits THEN tx_shift[tx_bit_index] ELSE TRUE
    /\ tx_bit_index' = tx_bit_index + 1
    /\ UNCHANGED <<tx_busy, tx_shift>>

NextFrame(a) ==
    /\ FrameEnds /\ tx_div_count' = tx_divider
    /\ IF tx_buffer_valid THEN Load(tx_buffer) /\ tx_busy' = TRUE
       ELSE IF tx_reg_write(a) THEN Load(a.data) /\ tx_busy' = TRUE
       ELSE tx_busy' = FALSE /\ tx_line' = TRUE /\ tx_bit_index' = 0 /\ UNCHANGED tx_shift

HoldBit ==
    /\ tx_busy /\ tx_div_count # 0 /\ tx_div_count' = tx_div_count - 1
    /\ UNCHANGED <<tx_line, tx_busy, tx_shift, tx_bit_index>>

FirstFrame(a) ==
    /\ ~tx_busy
    /\ IF tx_reg_write(a)
       THEN Load(a.data) /\ tx_busy' = TRUE /\ tx_div_count' = tx_divider
       ELSE UNCHANGED <<tx_line, tx_busy, tx_shift, tx_bit_index, tx_div_count>>

\* A byte written during a frame waits, unless the transmitter takes it now.
Buffer(a) ==
    IF tx_busy /\ tx_reg_write(a) /\ ~FrameEnds
    THEN tx_buffer' = a.data /\ tx_buffer_valid' = TRUE
    ELSE /\ tx_buffer_valid' = (tx_buffer_valid /\ ~FrameEnds)
         /\ UNCHANGED tx_buffer

Transmitter(a) ==
    /\ (SendBit \/ NextFrame(a) \/ HoldBit \/ FirstFrame(a))
    /\ Buffer(a)

UartInit ==
    LET zero == [b \in 0 .. Bits - 1 |-> FALSE]
        max == 2 ^ Width - 1
    IN  /\ tx_divider = max
        /\ rx_start_qual_ticks = Half(max, 1) + Half(max, 2) + Half(max, 4)
        /\ rx_start_sample_ticks = Half(max, 1) + Half(max, 3) + Half(max, 4)
        /\ int_en = {}
        /\ rx_sync_1 = TRUE /\ rx_sync_2 = TRUE /\ rx_prev = TRUE
        /\ start_candidate = FALSE /\ start_ticks = 0
        /\ rx_busy = FALSE /\ stop_bit = FALSE /\ rx_shift = zero
        /\ rx_bit_index = 0 /\ rx_div_count = 0
        /\ rx_sample_phase = 0 /\ rx_sample_ones = 0
        /\ rx_data = zero /\ rx_ready = FALSE /\ rx_framing_error = FALSE
        /\ tx_line = TRUE /\ tx_busy = FALSE
        /\ tx_buffer = zero /\ tx_buffer_valid = FALSE /\ tx_shift = zero
        /\ tx_bit_index = 0 /\ tx_div_count = 0

UartClock(rx, a) == Registers(a) /\ Receiver(rx, a) /\ Transmitter(a)
=============================================================================
