------------------------------ MODULE UartLoop ------------------------------
(***************************************************************************)
(* The UART with its transmitter wired to its receiver, and a program that *)
(* polls or takes one of the two interrupts: it writes a byte when it knows*)
(* the transmitter to be ready, and reads one when it knows that one was   *)
(* received.  Between learning it and the access any number of clocks go   *)
(* by.  The line is disturbed now and then: for one clock, never in a start*)
(* bit, and at most once per bit.                                          *)
(***************************************************************************)
EXTENDS Uart, Sequences

CONSTANTS
    Payload,        \* the bytes the program sends
    Dividers,       \* the dividers it may program
    Noise           \* the line is disturbed

ASSUME LoopAssumption ==
    Payload \subseteq Byte /\ Dividers \subseteq 2 .. 2 ^ Width - 2 /\ Noise \in BOOLEAN

VARIABLES
    status,     \* program: what it knows to be ready
    since,      \* clocks since the line was disturbed, at most one bit
    sent,       \* history: bytes written and not yet received, oldest first
    fresh,      \* history: {} or the byte received that nobody read
    taken       \* history: {} or what the program read in the last clock

vars == <<uartVars, status, since, sent, fresh, taken>>

Programmed == tx_divider \in Dividers

\* The program chooses its interrupt and the divider first.
MayDo(a) ==
    \/ a.op = "interrupt" /\ ~Programmed /\ \E source \in {"rx", "tx"} : a.enable = {source}
    \/ a.op = "control" /\ ~Programmed /\ a.divider \in Dividers
    \/ a.op \in {"none", "status"} /\ Programmed
    \/ a.op = "read" /\ "rx" \in status
    \/ a.op = "write" /\ "tx" \in status /\ a.data \in Payload

Ready == (IF rx_ready THEN {"rx"} ELSE {}) \cup (IF tx_ready THEN {"tx"} ELSE {})

Program(a) ==
    status' = CASE a.op = "status" -> Ready
                [] a.op = "none" -> status \cup (IF irq THEN int_en ELSE {})
                [] OTHER -> {}

InStartBit == tx_busy /\ tx_bit_index = 0

Wire(glitch) ==
    /\ glitch => Noise /\ Programmed /\ since > tx_divider /\ ~InStartBit
    /\ since' = IF glitch THEN 0 ELSE IF since > tx_divider THEN since ELSE since + 1

Line(glitch) == IF glitch THEN ~tx_line ELSE tx_line

\* Every byte that the transmitter takes, in order.
Written(a) == IF tx_reg_write(a) THEN Append(sent, a.data) ELSE sent

History(a) ==
    /\ sent' = IF Complete /\ sent # <<>> THEN Tail(Written(a)) ELSE Written(a)
    /\ fresh' = IF Complete THEN {rx_shift} ELSE IF rx_reg_read(a) THEN {} ELSE fresh
    /\ taken' = IF rx_reg_read(a) THEN {[byte |-> rx_data, fresh |-> fresh]} ELSE {}

Clock(a, glitch) ==
    /\ MayDo(a) /\ Program(a) /\ Wire(glitch)
    /\ UartClock(Line(glitch), a) /\ History(a)

Init == UartInit /\ status = {} /\ since = 2 ^ Width
        /\ sent = <<>> /\ fresh = {} /\ taken = {}

Next == \E a \in Access, glitch \in BOOLEAN : Clock(a, glitch)
Spec == Init /\ [][Next]_vars

\* The clock runs whatever the program does.
FairSpec == Spec /\ WF_vars(Next)

-----------------------------------------------------------------------------
(* Properties. *)

\* A byte that is received is the oldest one that was sent, and its frame is
\* good: whatever the program does in the meantime, and with a line that is
\* disturbed for one clock per bit, start bits excepted: a start bit that is
\* disturbed is taken for a short pulse (rtl/uncore/uart/uart.py:239).
InOrder ==
    [][Complete => /\ sent # <<>> /\ rx_data' = Head(sent)
                   /\ ~rx_framing_error']_vars

\* The ready flag is about a byte nobody has read, also when a byte arrives in
\* the clock of a read; so a program that learnt of a byte, from the status or
\* an interrupt, reads one it has not read before, however late it comes.
ReadOnce ==
    /\ rx_ready <=> fresh # {}
    /\ \A t \in taken : t.fresh = {t.byte}

\* Every byte written is received.
Arrives == []<>(sent = <<>> \/ Complete)
=============================================================================
