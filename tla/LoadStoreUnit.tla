--------------------------- MODULE LoadStoreUnit ---------------------------
(***************************************************************************)
(* The load/store unit, rtl/loadstore.py (LoadStoreBundle.LoadStoreUnit).  *)
(*                                                                         *)
(* An operation is a record: the register it is for (which also names the  *)
(* operation), whether it stores, its width, and the two faults the unit   *)
(* detects.  Byte lanes and data are abstract: the word a slave returns is *)
(* named by the operation it belongs to, and what the read multiplexer     *)
(* makes of it by the width the multiplexer applied.                       *)
(***************************************************************************)
EXTENDS Naturals

CONSTANTS
    MaxOutstanding,         \* config.loadstore_outstanding
    RegisteredReadStage,    \* config.registered_read_stage
    WriteEarlyTerm,         \* config.mem_write_early_term
    Rd,                     \* operation names
    Junk                    \* what the data bus shows when nothing is answered

\* loadstore.py:70-73
ASSUME OutstandingAssumption ==
    /\ RegisteredReadStage \in BOOLEAN /\ WriteEarlyTerm \in BOOLEAN
    /\ MaxOutstanding \in 1 .. (IF RegisteredReadStage THEN 3 ELSE 2)

ASSUME RdAssumption == Rd # {}

Op == [rd : Rd, store : BOOLEAN, width : {"byte", "word"},
       misalign : BOOLEAN, invalid_op : BOOLEAN]

\* Bytes are always aligned.
Possible(op) == op.misalign => op.width = "word"

Slots == 0 .. MaxOutstanding - 1
max_pipe_index == MaxOutstanding - 1
write_pipe_index == IF MaxOutstanding = 3 THEN 1 ELSE max_pipe_index
mux_index == write_pipe_index

VARIABLES
    pipe,           \* [Slots -> Op]: the operations in flight, youngest first
    outstanding,    \* requests without an answer
    en_r,           \* some request is outstanding
    bus_en,         \* the bus request, held while the bus stalls ...
    bus_op,         \* ... for this operation (adr_o, we_o, db_wr)
    valid_reg,      \* an answer arrived in the last clock
    result_o,       \* read data after the multiplexer
    bus_error_o, invalid_op_o, misalign_o    \* reported for the last answer

lsuVars == <<pipe, outstanding, en_r, bus_en, bus_op, valid_reg, result_o,
             bus_error_o, invalid_op_o, misalign_o>>

Result == [word : Rd \cup {Junk}, width : {"byte", "word"}]

LsuTypeOK ==
    /\ pipe \in [Slots -> Op]
    /\ outstanding \in 0 .. MaxOutstanding
    /\ en_r \in BOOLEAN /\ bus_en \in BOOLEAN /\ bus_op \in Op
    /\ valid_reg \in BOOLEAN /\ result_o \in Result
    /\ bus_error_o \in BOOLEAN /\ invalid_op_o \in BOOLEAN /\ misalign_o \in BOOLEAN

LsuInit ==
    LET zero == [rd |-> CHOOSE r \in Rd : TRUE, store |-> FALSE, width |-> "byte",
                 misalign |-> FALSE, invalid_op |-> FALSE]
    IN  /\ pipe = [i \in Slots |-> zero] /\ bus_op = zero
        /\ outstanding = 0 /\ en_r = FALSE /\ bus_en = FALSE /\ valid_reg = FALSE
        /\ result_o = [word |-> zero.rd, width |-> "byte"]
        /\ bus_error_o = FALSE /\ invalid_op_o = FALSE /\ misalign_o = FALSE

-----------------------------------------------------------------------------
(* Combinational signals. *)

confirm(ack_i, error_i) == (ack_i \/ error_i) /\ outstanding > 0

capacity_busy(ack_i) ==
    outstanding = MaxOutstanding /\ ~(~RegisteredReadStage /\ ack_i)

busy(stall_i, ack_i) == (MaxOutstanding > 1 /\ stall_i) \/ capacity_busy(ack_i)

valid_comb(ack_i, error_i) ==
    /\ confirm(ack_i, error_i)
    /\ ~pipe[max_pipe_index].misalign /\ ~pipe[max_pipe_index].invalid_op

rdmux_out(db_rd) == [word |-> db_rd, width |-> pipe[mux_index].width]

\* The answer takes effect at once, not through the register stage.
Unregistered == ~RegisteredReadStage \/ (pipe[write_pipe_index].store /\ WriteEarlyTerm)

valid_o(ack_i, error_i) ==
    IF Unregistered THEN valid_comb(ack_i, error_i) ELSE valid_reg

we_o == ~pipe[write_pipe_index].store /\ (RegisteredReadStage => valid_reg)

rd_o == pipe[max_pipe_index].rd

busy_o(stall_i, ack_i) == busy(stall_i, ack_i) \/ (~Unregistered /\ valid_reg)

-----------------------------------------------------------------------------
(* One clock edge.  ops holds the operation the execute stage offers, if   *)
(* any; it is taken unless the unit is busy.                               *)

Taken(ops, stall_i, ack_i) == IF busy_o(stall_i, ack_i) THEN {} ELSE ops

\* mutant: the slots move with a request only
AdvancePipeOnRequest(ops, taken, stall_i, ack_i) ==
    LET shift == MaxOutstanding > 1 /\ ops # {} /\ ~busy(stall_i, ack_i)
    IN  \E op \in (IF taken = {} THEN {pipe[0]} ELSE taken) :
            pipe' = [i \in Slots |-> IF i = 0 THEN op
                                     ELSE IF shift THEN pipe[i - 1] ELSE pipe[i]]

\* A new operation enters slot 0 and the others move up; without one, slot 0
\* keeps its content.
AdvancePipe(ops, taken, stall_i, ack_i) ==
    LET shift == MaxOutstanding > 1 /\ (ops # {} \/ en_r) /\ ~busy(stall_i, ack_i)
    IN  \E op \in (IF taken = {} THEN {pipe[0]} ELSE taken) :
            pipe' = [i \in Slots |-> IF i = 0 THEN op
                                     ELSE IF shift THEN pipe[i - 1] ELSE pipe[i]]

\* mutant: the request is dropped although the bus stalls
DriveBusOnce(taken, stall_i) ==
    LET start == {op \in taken : ~op.misalign}
    IN  /\ bus_en' = (start # {})
        /\ IF start # {} THEN bus_op' \in start ELSE UNCHANGED bus_op

\* A misaligned operation never reaches the bus.
DriveBus(taken, stall_i) ==
    LET start == {op \in taken : ~op.misalign}
    IN  /\ bus_en' = (start # {} \/ (bus_en /\ stall_i))
        /\ IF start # {} THEN bus_op' \in start ELSE UNCHANGED bus_op

CalcOutstanding(taken, ack_i, error_i) ==
    LET request == taken # {}
    IN  \/ /\ request /\ ~confirm(ack_i, error_i)
           /\ outstanding' = outstanding + 1
           /\ en_r' = TRUE
        \/ /\ ~request /\ confirm(ack_i, error_i)
           /\ outstanding' = outstanding - 1
           /\ en_r' = (en_r /\ outstanding # 1)
        \/ /\ request <=> confirm(ack_i, error_i)
           /\ en_r' = (request \/ en_r)
           /\ UNCHANGED outstanding

\* mutant: an error is reported for ever
TerminateSticky(ack_i, error_i) ==
    IF confirm(ack_i, error_i)
    THEN /\ bus_error_o' = (bus_error_o \/ error_i)
         /\ invalid_op_o' = pipe[max_pipe_index].invalid_op
         /\ misalign_o' = pipe[max_pipe_index].misalign
    ELSE UNCHANGED <<bus_error_o, invalid_op_o, misalign_o>>

Terminate(ack_i, error_i) ==
    IF confirm(ack_i, error_i)
    THEN /\ bus_error_o' = error_i
         /\ invalid_op_o' = pipe[max_pipe_index].invalid_op
         /\ misalign_o' = pipe[max_pipe_index].misalign
    ELSE UNCHANGED <<bus_error_o, invalid_op_o, misalign_o>>

LsuClock(ops, stall_i, ack_i, error_i, db_rd) ==
    LET taken == Taken(ops, stall_i, ack_i)
    IN  /\ AdvancePipe(ops, taken, stall_i, ack_i)
        /\ DriveBus(taken, stall_i)
        /\ CalcOutstanding(taken, ack_i, error_i)
        /\ Terminate(ack_i, error_i)
        /\ valid_reg' = valid_comb(ack_i, error_i)
        /\ result_o' = rdmux_out(db_rd)

=============================================================================
