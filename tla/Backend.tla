------------------------------- MODULE Backend -------------------------------
(***************************************************************************)
(* The data path behind the fetch stage: decode's operand side             *)
(* (rtl/decode.py), the register file, the functional units with their     *)
(* latencies (rtl/alu.py with the pipelined shifter, rtl/loadstore.py,     *)
(* rtl/csr.py), the execute stage (rtl/execute.py) and the write back of   *)
(* the three-stage (rtl/simple_pipeline.py) or four-stage pipeline         *)
(* (rtl/pipelined_backend.py).                                             *)
(*                                                                         *)
(* Values are few, and the units compute something that depends on both    *)
(* operands.  What does not come out of the register file (an immediate,   *)
(* the word in memory, the content of a CSR, the link address) is val, a   *)
(* part of the instruction.  A step is a clock edge.                       *)
(***************************************************************************)
EXTENDS RegisterFile

CONSTANTS
    Configs,        \* the settings of rtl/config.py to be checked
    Program         \* the instructions the program consists of

Cmds == {"alu", "alui", "lui", "shift", "load", "store", "jal", "jalr", "branch",
         "csr", "fence"}

Fields == [cmd : Cmds, rd : Reg, rs1 : Reg, rs2 : Reg, val : Values]

Uses1(i) == i.cmd \in {"alu", "alui", "shift", "load", "store", "jalr", "branch", "csr"}
Uses2(i) == i.cmd \in {"alu", "shift", "store", "branch"}
UsesVal(i) == i.cmd \in {"alui", "lui", "load", "jal", "jalr", "csr"}

\* What decode makes of a word.  A source or a value the instruction has not is
\* 0; in place of a destination, stores and branches have bits of an immediate.
Instr == {i \in Fields : /\ ~Uses1(i) => i.rs1 = 0
                         /\ ~Uses2(i) => i.rs2 = 0
                         /\ ~UsesVal(i) => i.val = 0
                         /\ i.cmd = "fence" => i.rd = 0}

ASSUME ProgramAssumption == Program \subseteq Instr

ASSUME ConfigsAssumption ==
    /\ Configs \subseteq [pipeline_length : {3, 4}, writeback_bypass : BOOLEAN,
                          jump_bypass : BOOLEAN]
    /\ Values = {0, 1}
    /\ \A c \in Configs : c.writeback_bypass => c.pipeline_length = 4

VARIABLES
    config,                 \* fixed when the core is elaborated
    d_valid, d,             \* decode: valid_o and the decoded instruction
    rd_adr_reg, jump_busy, load_pending, shift_pending,     \* execute
    shift_ready, alu_busy, stage_reg,                       \* ALU and its shifter
    pipe, outstanding, en_r, bus_en, bus_op, valid_reg, result_o,
    bus_error_o, invalid_op_o, misalign_o,                  \* load/store unit
    wb                      \* the write back registers of the four-stage pipeline

exVars == <<rd_adr_reg, jump_busy, load_pending, shift_pending>>
aluVars == <<shift_ready, alu_busy, stage_reg>>

NoWord == [reg |-> 0, val |-> 2]    \* on the bus when nothing is answered

\* A load or store is named by its register and the word memory holds for it.
LS == INSTANCE LoadStoreUnit WITH
          Rd <- [reg : Reg, val : Values], Junk <- NoWord, MaxOutstanding <- 1,
          RegisteredReadStage <- TRUE, WriteEarlyTerm <- FALSE

vars == <<config, d_valid, d, rfVars, exVars, aluVars, LS!lsuVars, wb>>

-----------------------------------------------------------------------------
(* Decode. *)

rs1_immediate == d.cmd = "lui"
rs2_immediate == d.cmd \in {"alui", "lui", "jalr"}
alu_cmd == d.cmd \in {"alu", "alui", "lui", "shift", "jalr"}

uses_rs1 == d_valid /\ Uses1(d)
uses_rs2 == d_valid /\ Uses2(d)

op1_o == IF rs1_immediate THEN d.val ELSE port_a
op2_o == IF rs2_immediate THEN (IF d.cmd = "lui" THEN 0 ELSE d.val) ELSE port_b

-----------------------------------------------------------------------------
(* Operands and stalls of the execute stage. *)

four_stage == config.pipeline_length = 4
wb_we == wb.valid /\ wb.we

\* The instruction in write back has a register that decode has read too early.
wbHits(rs) == wb_we /\ wb.rd # 0 /\ wb.rd = rs

hazard_i1 ==        \* mutant: the second operand is not looked at
    four_stage /\ ~config.writeback_bypass /\ uses_rs1 /\ wbHits(d.rs1)
hazard_i ==
    /\ four_stage /\ ~config.writeback_bypass
    /\ (uses_rs1 /\ wbHits(d.rs1)) \/ (uses_rs2 /\ wbHits(d.rs2))

op1 == IF config.writeback_bypass /\ uses_rs1 /\ wbHits(d.rs1) THEN wb.data ELSE op1_o
op2 == IF config.writeback_bypass /\ uses_rs2 /\ wbHits(d.rs2) THEN wb.data ELSE op2_o

ls_busy == LS!busy_o(FALSE, FALSE)      \* neither input matters in this configuration
busy == alu_busy \/ ls_busy \/ jump_busy \/ hazard_i
taken == d_valid /\ ~busy
downstream_busy == d_valid /\ busy

-----------------------------------------------------------------------------
(* The units. *)

Alu(a, b) == (a + b) % 2
Shift(a, b) == IF b = 0 THEN a ELSE 0

alu_en == taken /\ alu_cmd
shift_en == alu_en /\ d.cmd = "shift"
alu_valid == shift_ready \/ (alu_en /\ d.cmd # "shift")
alu_res == IF shift_ready THEN stage_reg ELSE Alu(op1, op2)

ls_valid(ack) == LS!valid_o(ack, FALSE)
csr_valid == taken /\ d.cmd = "csr"
jump_we == taken /\ d.cmd \in {"jal", "jalr"}
jump == taken /\ (d.cmd \in {"jal", "jalr"} \/ (d.cmd = "branch" /\ op1 = op2))

valid_o(ack) == alu_valid \/ ls_valid(ack) \/ csr_valid \/ jump_we
reg_we_oStore(ack) == valid_o(ack)      \* mutant: whatever completes writes a register
reg_we_o(ack) == alu_valid \/ LS!we_o \/ csr_valid \/ jump_we
rd_adr_o == IF taken THEN d.rd ELSE rd_adr_reg

\* Three stages: the pending registers say what may complete in this clock.
result3 ==
    IF jump_we THEN d.val
    ELSE IF load_pending THEN result_o.word.val
    ELSE IF shift_pending \/ alu_cmd THEN alu_res
    ELSE IF d.cmd = "csr" THEN d.val ELSE 0

\* Four stages: what completes is selected, and written one clock later.
result4 ==
    IF jump_we THEN d.val
    ELSE IF LS!we_o THEN result_o.word.val
    ELSE IF alu_valid THEN alu_res
    ELSE IF csr_valid THEN d.val ELSE 0

\* mutant: write back is forgotten
pipeline_emptyEarly(ack) == ~d_valid /\ ~busy /\ ~valid_o(ack)
pipeline_empty(ack) ==
    ~d_valid /\ ~busy /\ ~valid_o(ack) /\ (four_stage => ~wb.valid)

kill_i == IF config.jump_bypass THEN taken /\ jump ELSE jump_busy

-----------------------------------------------------------------------------
(* One clock edge: fetch offers nothing or one instruction, and the bus    *)
(* may answer an outstanding access.                                       *)

\* The register addresses come from the offered word, or from the held one.
ra(offer) == IF downstream_busy THEN d.rs1 ELSE IF offer = {} THEN 0
             ELSE (CHOOSE i \in offer : TRUE).rs1
rb(offer) == IF downstream_busy THEN d.rs2 ELSE IF offer = {} THEN 0
             ELSE (CHOOSE i \in offer : TRUE).rs2

DecodeClock(offer) ==
    IF kill_i THEN d_valid' = FALSE /\ UNCHANGED d
    ELSE IF downstream_busy THEN UNCHANGED <<d_valid, d>>
    ELSE /\ d_valid' = (offer # {})
         /\ IF offer = {} THEN UNCHANGED d ELSE d' \in offer

ExecuteClock(ack) ==
    /\ jump_busy' = (taken /\ jump /\ ~config.jump_bypass)
    /\ rd_adr_reg' = IF taken THEN d.rd ELSE rd_adr_reg
    /\ IF four_stage THEN UNCHANGED <<load_pending, shift_pending>>
       ELSE /\ load_pending' = IF taken THEN d.cmd = "load"
                               ELSE load_pending /\ ~ls_valid(ack)
            /\ shift_pending' = IF taken THEN d.cmd = "shift"
                                ELSE shift_pending /\ ~alu_valid

AluClock ==
    /\ shift_ready' = shift_en
    /\ alu_busy' = (shift_en /\ ~shift_ready)
    /\ stage_reg' = IF shift_en THEN Shift(op1, op2) ELSE stage_reg

Operation == [rd |-> [reg |-> d.rd, val |-> d.val], store |-> d.cmd = "store",
              width |-> "word", misalign |-> FALSE, invalid_op |-> FALSE]

LoadStoreClock(ack) ==
    LS!LsuClock(IF taken /\ d.cmd \in {"load", "store"} THEN {Operation} ELSE {},
                FALSE, ack, FALSE, IF ack THEN bus_op.rd ELSE NoWord)

\* mutant: the write back registers are held while execute is busy
WriteBackClockHeld(ack) ==
    IF four_stage /\ ~busy
    THEN wb' = [valid |-> valid_o(ack), we |-> reg_we_o(ack), rd |-> rd_adr_o,
                data |-> result4]
    ELSE UNCHANGED wb

WriteBackClock(ack) ==
    IF four_stage
    THEN wb' = [valid |-> valid_o(ack), we |-> reg_we_o(ack), rd |-> rd_adr_o,
                data |-> result4]
    ELSE UNCHANGED wb

WriteRegister(offer, ack) ==
    IF four_stage THEN RfClock(ra(offer), rb(offer), wb_we, wb.rd, wb.data)
    ELSE RfClock(ra(offer), rb(offer), reg_we_o(ack), rd_adr_o, result3)

Clock(offer, ack) ==
    /\ DecodeClock(offer)
    /\ ExecuteClock(ack)
    /\ AluClock
    /\ LoadStoreClock(ack)
    /\ WriteBackClock(ack)
    /\ WriteRegister(offer, ack)
    /\ UNCHANGED config

Init ==
    /\ config \in Configs
    /\ d_valid = FALSE
    /\ d = [cmd |-> "fence", rd |-> 0, rs1 |-> 0, rs2 |-> 0, val |-> 0]
    /\ rd_adr_reg = 0 /\ jump_busy = FALSE
    /\ load_pending = FALSE /\ shift_pending = FALSE
    /\ shift_ready = FALSE /\ alu_busy = FALSE /\ stage_reg = 0
    /\ wb = [valid |-> FALSE, we |-> FALSE, rd |-> 0, data |-> 0]
    /\ LS!LsuInit
    /\ RfInit

\* What decode does not look at need not be enumerated.
Offers == IF kill_i \/ downstream_busy THEN {{}} ELSE {{}} \cup {{i} : i \in Program}

\* The bus answers requests only.
Next == \E offer \in Offers, ack \in BOOLEAN : (ack => outstanding = 1) /\ Clock(offer, ack)

Spec == Init /\ [][Next]_vars

(* The clock runs, and the bus answers in the end. *)
BusAnswers == outstanding = 1 /\ \E offer \in Offers : Clock(offer, TRUE)

FairSpec == Spec /\ WF_vars(Next) /\ WF_vars(BusAnswers)

-----------------------------------------------------------------------------
(* Properties. *)

TypeOK ==
    /\ config \in Configs
    /\ RfTypeOK /\ LS!LsuTypeOK
    /\ d_valid \in BOOLEAN /\ d \in Instr
    /\ rd_adr_reg \in Reg /\ jump_busy \in BOOLEAN
    /\ load_pending \in BOOLEAN /\ shift_pending \in BOOLEAN
    /\ shift_ready \in BOOLEAN /\ alu_busy \in BOOLEAN /\ stage_reg \in Values
    /\ wb \in [valid : BOOLEAN, we : BOOLEAN, rd : Reg, data : Values]

Write(regs, r, v) == IF r = 0 THEN regs ELSE [regs EXCEPT ![r] = v]

\* The registers as the program sees them: with the results that are still in
\* write back, in the shifter or in the load/store unit.
arch ==
    LET written == IF wb_we THEN Write(registers, wb.rd, wb.data) ELSE registers
    IN  IF shift_ready THEN Write(written, rd_adr_reg, stage_reg)
        ELSE IF outstanding = 1 /\ ~pipe[0].store
             THEN Write(written, pipe[0].rd.reg, pipe[0].rd.val)
        ELSE IF valid_reg /\ ~pipe[0].store
             THEN Write(written, pipe[0].rd.reg, result_o.word.val)
        ELSE written

\* What instruction i makes of the registers.
After(i, regs) ==
    CASE i.cmd = "alu" -> Write(regs, i.rd, Alu(regs[i.rs1], regs[i.rs2]))
      [] i.cmd = "alui" -> Write(regs, i.rd, Alu(regs[i.rs1], i.val))
      [] i.cmd = "shift" -> Write(regs, i.rd, Shift(regs[i.rs1], regs[i.rs2]))
      [] i.cmd \in {"lui", "load", "jal", "jalr", "csr"} -> Write(regs, i.rd, i.val)
      [] OTHER -> regs

\* Every instruction reads the results of all instructions before it, whatever
\* unit they come from and wherever they are: rtl/regfile.py (collision),
\* rtl/pipelined_backend.py:122-131 (hazard) and rtl/execute.py:187-194 (forward).
OperandsCurrent ==
    taken => /\ uses_rs1 => op1 = arch[d.rs1]
             /\ uses_rs2 => op2 = arch[d.rs2]

\* The pipeline is a sequential machine: an instruction changes the registers as
\* its definition says in the clock in which execute takes it, no result is
\* lost, written twice or written to another register, and no other clock
\* changes what the program sees.
SequentialStep == arch' = IF taken THEN After(d, arch) ELSE arch
Sequential == [][SequentialStep]_vars

\* When the backends report pipeline_empty to the debug module, the register
\* file, which an abstract command reads directly, holds every result.
EmptyIsSettled == pipeline_empty(FALSE) => registers = arch

\* Execute is never busy for ever.
NeverStuck == []<>~busy

=============================================================================
