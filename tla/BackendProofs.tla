---------------------------- MODULE BackendProofs ----------------------------
(***************************************************************************)
(* The pipeline is a sequential machine: for every program, every number   *)
(* of registers and every choice of pipelines that rtl/config.py allows.   *)
(***************************************************************************)
EXTENDS Backend, TLAPS

Loads == ~pipe[0].store

\* One result at most is on its way out of a unit; the address of its register
\* is the one that execute has kept.
Underway ==
    /\ shift_ready = alu_busy
    /\ shift_ready => outstanding = 0 /\ ~valid_reg
    /\ outstanding = 1 => ~valid_reg
    /\ jump_busy => ~shift_ready /\ outstanding = 0 /\ ~valid_reg
    /\ outstanding = 1 \/ valid_reg => pipe[0].rd.reg = rd_adr_reg

\* What the load/store unit works on is what it has asked the bus for, and what
\* came back is the word of this operation.
OwnWord ==
    /\ outstanding = 1 => /\ bus_op = pipe[0]
                          /\ ~pipe[0].misalign /\ ~pipe[0].invalid_op
    /\ valid_reg => result_o.word = pipe[0].rd

\* The pending registers of the three-stage pipeline, which say what completes.
Pending ==
    four_stage \/ /\ load_pending = ((outstanding = 1 \/ valid_reg) /\ Loads)
                  /\ shift_pending = shift_ready
                  /\ ~wb.valid

\* The read ports show what is in the registers of the instruction in decode.
PortsCurrent ==
    /\ registers[0] = 0
    /\ d_valid => port_a = registers[d.rs1] /\ port_b = registers[d.rs2]

\* The inductive invariant.
PipelineInv == TypeOK /\ Underway /\ OwnWord /\ Pending /\ PortsCurrent

-----------------------------------------------------------------------------
(* The load/store unit as it is set here: one operation, a registered read *)
(* stage.                                                                  *)

\* The pipe has one slot: rtl/loadstore.py:75-86 for one outstanding operation.
LEMMA OneSlot ==
  LS!Slots = 0 .. 0 /\ LS!max_pipe_index = 0 /\ LS!write_pipe_index = 0 /\ LS!mux_index = 0
  BY DEF LS!Slots, LS!max_pipe_index, LS!write_pipe_index, LS!mux_index

Accesses == taken /\ d.cmd \in {"load", "store"}

\* What the unit shows to execute.
LEMMA UnitOutputs ==
  ASSUME TypeOK
  PROVE  /\ ls_busy = (outstanding = 1 \/ valid_reg)
         /\ LS!we_o = (Loads /\ valid_reg)
         /\ \A ack \in BOOLEAN : ls_valid(ack) = valid_reg
<1>1. outstanding \in {0, 1} /\ valid_reg \in BOOLEAN /\ pipe[0].store \in BOOLEAN
  BY OneSlot DEF TypeOK, LS!LsuTypeOK, LS!Op
<1> QED
  BY <1>1, OneSlot DEF ls_busy, ls_valid, Loads, LS!busy_o, LS!busy, LS!capacity_busy, LS!we_o,
     LS!valid_o, LS!Unregistered

\* An operation of execute is a well-typed operation of the unit.
LEMMA OperationType == TypeOK => Operation \in LS!Op
  BY DEF TypeOK, Operation, LS!Op, Instr, Fields

\* A clock of the unit.
LEMMA UnitClock ==
  ASSUME TypeOK, NEW ack \in BOOLEAN, ack => outstanding = 1, LoadStoreClock(ack)
  PROVE  /\ pipe'[0] = IF Accesses THEN Operation ELSE pipe[0]
         /\ bus_op' = IF Accesses THEN Operation ELSE bus_op
         /\ Accesses => outstanding = 0 /\ ~valid_reg
         /\ outstanding' = IF Accesses THEN 1 ELSE IF ack THEN 0 ELSE outstanding
         /\ valid_reg' = (ack /\ ~pipe[0].misalign /\ ~pipe[0].invalid_op)
         /\ result_o'.word = IF ack THEN bus_op.rd ELSE NoWord
         /\ LS!LsuTypeOK'
<1> DEFINE ops == IF Accesses THEN {Operation} ELSE {}
           word == IF ack THEN bus_op.rd ELSE NoWord
<1>1. LS!LsuClock(ops, FALSE, ack, FALSE, word)
  BY DEF LoadStoreClock, Accesses
<1>2. /\ outstanding \in {0, 1} /\ valid_reg \in BOOLEAN
      /\ pipe \in [0 .. 0 -> LS!Op] /\ bus_op \in LS!Op
      /\ en_r \in BOOLEAN /\ bus_en \in BOOLEAN
  BY OneSlot DEF TypeOK, LS!LsuTypeOK
<1>3. Accesses => outstanding = 0 /\ ~valid_reg
  BY <1>2, UnitOutputs DEF Accesses, taken, busy
<1>4. LS!Taken(ops, FALSE, ack) = ops
  BY <1>2, <1>3, UnitOutputs, OneSlot DEF LS!Taken, LS!busy_o, LS!busy, LS!capacity_busy, ls_busy, LS!Unregistered
<1>5. /\ LS!AdvancePipe(ops, ops, FALSE, ack) /\ LS!DriveBus(ops, FALSE)
      /\ LS!CalcOutstanding(ops, ack, FALSE) /\ LS!Terminate(ack, FALSE)
      /\ valid_reg' = LS!valid_comb(ack, FALSE) /\ result_o' = LS!rdmux_out(word)
  <2> HIDE DEF ops, word
  <2> QED BY <1>1, <1>4 DEF LS!LsuClock
<1>6. ~Operation.misalign /\ Operation \in LS!Op
  BY OperationType DEF Operation
<1>7. /\ pipe' \in [0 .. 0 -> LS!Op]
      /\ pipe'[0] = IF Accesses THEN Operation ELSE pipe[0]
  <2>1. \E op \in (IF ops = {} THEN {pipe[0]} ELSE ops) : pipe' = [i \in 0 .. 0 |-> op]
    <3>1. PICK op \in (IF ops = {} THEN {pipe[0]} ELSE ops) :
            pipe' = [i \in LS!Slots |-> IF i = 0 THEN op ELSE pipe[i]]
      <4> HIDE DEF ops
      <4> QED BY <1>5, OneSlot DEF LS!AdvancePipe
    <3> QED BY <3>1, OneSlot
  <2> QED BY <2>1, <1>2, <1>6
<1>13. /\ bus_op' \in LS!Op /\ bus_en' \in BOOLEAN
       /\ bus_op' = IF Accesses THEN Operation ELSE bus_op
  <2>1. {op \in ops : ~op.misalign} = ops
    BY <1>6
  <2> HIDE DEF ops
  <2>2. /\ bus_en' = (ops # {})
        /\ IF ops # {} THEN bus_op' \in ops ELSE bus_op' = bus_op
    BY <1>5, <2>1 DEF LS!DriveBus
  <2> QED BY <2>2, <1>2, <1>6 DEF ops
<1>8. LS!confirm(ack, FALSE) <=> ack
  BY <1>2 DEF LS!confirm
<1>9. /\ outstanding' = IF Accesses THEN 1 ELSE IF ack THEN 0 ELSE outstanding
      /\ outstanding' \in 0 .. 1 /\ en_r' \in BOOLEAN
  <2>1. ops # {} <=> Accesses
    OBVIOUS
  <2> HIDE DEF ops
  <2>2. \/ /\ Accesses /\ ~ack /\ outstanding' = outstanding + 1 /\ en_r' = TRUE
        \/ /\ ~Accesses /\ ack /\ outstanding' = outstanding - 1
           /\ en_r' = (en_r /\ outstanding # 1)
        \/ /\ Accesses <=> ack
           /\ en_r' = (Accesses \/ en_r)
           /\ outstanding' = outstanding
    BY <1>5, <1>8, <2>1 DEF LS!CalcOutstanding
  <2>3. en_r' \in BOOLEAN
    BY <2>2, <1>2, Zenon
  <2>4. outstanding' = IF Accesses THEN 1 ELSE IF ack THEN 0 ELSE outstanding
    BY <2>2, <1>2, <1>3
  <2> QED BY <2>3, <2>4, <1>2
<1>10. /\ valid_reg' = (ack /\ ~pipe[0].misalign /\ ~pipe[0].invalid_op)
       /\ result_o' = [word |-> word, width |-> pipe[0].width]
  <2> HIDE DEF word
  <2>1. valid_reg' = LS!valid_comb(ack, FALSE)
    BY <1>5
  <2>2. LS!valid_comb(ack, FALSE) <=> (ack /\ ~pipe[0].misalign /\ ~pipe[0].invalid_op)
    BY <1>8, OneSlot DEF LS!valid_comb
  <2>3. result_o' = [word |-> word, width |-> pipe[0].width]
    BY <1>5, OneSlot DEF LS!rdmux_out
  <2>4. LS!valid_comb(ack, FALSE) \in BOOLEAN
    BY Zenon DEF LS!valid_comb
  <2> QED BY <2>1, <2>2, <2>3, <2>4, Zenon
<1>11. bus_error_o' \in BOOLEAN /\ invalid_op_o' \in BOOLEAN /\ misalign_o' \in BOOLEAN
  <2>1. IF ack THEN /\ bus_error_o' = FALSE
                    /\ invalid_op_o' = pipe[0].invalid_op
                    /\ misalign_o' = pipe[0].misalign
        ELSE UNCHANGED <<bus_error_o, invalid_op_o, misalign_o>>
    BY <1>5, <1>8, OneSlot DEF LS!Terminate
  <2>2. pipe[0].misalign \in BOOLEAN /\ pipe[0].invalid_op \in BOOLEAN
    BY <1>2 DEF LS!Op
  <2> QED BY <2>1, <2>2 DEF TypeOK, LS!LsuTypeOK
<1>12. result_o' \in LS!Result
  <2>1. word \in [reg : Reg, val : Values] \cup {NoWord} /\ pipe[0].width \in {"byte", "word"}
    BY <1>2 DEF LS!Op
  <2> QED BY <1>10, <2>1 DEF LS!Result
<1> QED
  BY <1>3, <1>7, <1>9, <1>10, <1>11, <1>12, <1>13, <1>2, OneSlot DEF LS!LsuTypeOK, LS!Op

-----------------------------------------------------------------------------
(* The register file.                                                      *)

\* A port shows, in the clock after its address, what the register holds then,
\* whether or not it was written in between: rtl/regfile.py (collision).
LEMMA RfRead ==
  ASSUME RfTypeOK, registers[0] = 0, NEW a \in Reg, NEW b \in Reg,
         NEW we \in BOOLEAN, NEW wa \in Reg, NEW wd, we => wd \in Values, RfClock(a, b, we, wa, wd)
  PROVE  /\ RfTypeOK' /\ registers'[0] = 0
         /\ port_a' = registers'[a] /\ port_b' = registers'[b]
         /\ registers' = IF we THEN Write(registers, wa, wd) ELSE registers
<1>1. 0 \in Reg /\ 0 \in Values
  BY RegisterAssumption DEF Reg
<1>2. registers' = IF we /\ wa # 0 THEN [registers EXCEPT ![wa] = wd] ELSE registers
  BY DEF RfClock
<1>3. registers' \in [Reg -> Values] /\ registers'[0] = 0
  BY <1>1, <1>2 DEF RfTypeOK
<1>4. /\ read_a' \in Values /\ read_b' \in Values /\ wdata_reg' \in Values
      /\ collision_a' \in BOOLEAN /\ collision_b' \in BOOLEAN
  BY <1>1 DEF RfTypeOK, RfClock, Collides
<1>5. port_a' = registers'[a]
  BY <1>1, <1>2 DEF RfTypeOK, RfClock, Collides, port_a
<1>6. port_b' = registers'[b]
  BY <1>1, <1>2 DEF RfTypeOK, RfClock, Collides, port_b
<1> QED
  BY <1>2, <1>3, <1>4, <1>5, <1>6 DEF RfTypeOK, Write

-----------------------------------------------------------------------------
(* What execute sees.                                                      *)

\* The registers with the result that waits in write back.
Written == IF wb_we THEN Write(registers, wb.rd, wb.data) ELSE registers

\* What this clock hands to write back.
result == IF four_stage THEN result4 ELSE result3

\* The configurations of rtl/config.py.
LEMMA ConfigType ==
  ASSUME TypeOK
  PROVE  /\ four_stage \in BOOLEAN /\ config.writeback_bypass \in BOOLEAN
         /\ config.jump_bypass \in BOOLEAN /\ config.writeback_bypass => four_stage
<1>1. config \in Configs
  BY DEF TypeOK
<1>2. config \in [pipeline_length : {3, 4}, writeback_bypass : BOOLEAN, jump_bypass : BOOLEAN]
  BY <1>1, ConfigsAssumption
<1>3. config.writeback_bypass => config.pipeline_length = 4
  BY <1>1, ConfigsAssumption
<1> QED
  BY <1>2, <1>3 DEF four_stage

\* The instruction in decode.
LEMMA InstrType ==
  ASSUME TypeOK
  PROVE  /\ d.cmd \in Cmds /\ d.rd \in Reg /\ d.rs1 \in Reg /\ d.rs2 \in Reg
         /\ d.val \in Values
  BY DEF TypeOK, Instr, Fields

\* An instruction is taken when nothing is in the shifter or the load/store unit.
LEMMA TakenIdle ==
  ASSUME PipelineInv, taken
  PROVE  /\ ~shift_ready /\ ~alu_busy /\ outstanding = 0 /\ ~valid_reg /\ ~jump_busy
         /\ ~hazard_i /\ d_valid
<1>1. TypeOK /\ Underway
  BY DEF PipelineInv
<1>2. outstanding \in {0, 1}
  BY <1>1 DEF TypeOK, LS!LsuTypeOK
<1> QED
  BY <1>1, <1>2, UnitOutputs DEF taken, busy, Underway

\* Operands are values, what the units compute from them, too.
LEMMA OperandTypes ==
  ASSUME PipelineInv
  PROVE  op1 \in {0, 1} /\ op2 \in {0, 1} /\ alu_res \in {0, 1} /\ Shift(op1, op2) \in {0, 1}
<1>1. /\ TypeOK /\ RfTypeOK /\ Values = {0, 1}
      /\ wb \in [valid : BOOLEAN, we : BOOLEAN, rd : Reg, data : Values]
  BY ConfigsAssumption DEF PipelineInv, TypeOK
<1>2. port_a \in {0, 1} /\ port_b \in {0, 1}
  BY <1>1 DEF RfTypeOK, port_a, port_b
<1>3. op1_o \in {0, 1} /\ op2_o \in {0, 1}
  BY <1>1, <1>2, InstrType DEF op1_o, op2_o
<1>4. op1 \in {0, 1} /\ op2 \in {0, 1}
  BY <1>1, <1>3 DEF op1, op2
<1>5. stage_reg \in {0, 1}
  BY <1>1 DEF TypeOK
<1>6. Alu(op1, op2) \in {0, 1} /\ Shift(op1, op2) \in {0, 1}
  BY <1>4 DEF Alu, Shift
<1> QED
  BY <1>4, <1>5, <1>6 DEF alu_res

\* What completes in a clock, and with which result: in the three-stage pipeline,
\* because the pending registers agree with the units.
LEMMA Completes ==
  ASSUME PipelineInv, NEW ack \in BOOLEAN
  PROVE  /\ valid_o(ack) \in BOOLEAN /\ reg_we_o(ack) \in BOOLEAN /\ rd_adr_o \in Reg
         /\ reg_we_o(ack) => valid_o(ack)
         /\ reg_we_o(ack) <=> \/ taken /\ d.cmd \in {"alu", "alui", "lui", "jal", "jalr", "csr"}
                              \/ shift_ready
                              \/ valid_reg /\ Loads
         /\ taken /\ d.cmd \in {"jal", "jalr", "csr"} => result = d.val
         /\ taken /\ d.cmd \in {"alu", "alui", "lui"} => result = Alu(op1, op2)
         /\ shift_ready => result = stage_reg
         /\ valid_reg /\ Loads => result = pipe[0].rd.val
         /\ reg_we_o(ack) => result \in Values
         /\ four_stage => result4 \in Values
<1>1. TypeOK /\ Underway /\ OwnWord /\ Pending /\ Values = {0, 1}
  BY ConfigsAssumption DEF PipelineInv
<1>2. /\ outstanding \in {0, 1} /\ valid_reg \in BOOLEAN /\ shift_ready \in BOOLEAN
      /\ load_pending \in BOOLEAN /\ shift_pending \in BOOLEAN /\ rd_adr_reg \in Reg
      /\ pipe[0].rd.val \in Values /\ pipe[0].store \in BOOLEAN /\ stage_reg \in Values
  BY <1>1, OneSlot DEF TypeOK, LS!LsuTypeOK, LS!Op
<1>3. /\ alu_valid <=> shift_ready \/ (taken /\ alu_cmd /\ d.cmd # "shift")
      /\ csr_valid <=> taken /\ d.cmd = "csr"
      /\ jump_we <=> taken /\ d.cmd \in {"jal", "jalr"}
      /\ LS!we_o <=> Loads /\ valid_reg
      /\ ls_valid(ack) <=> valid_reg
  BY <1>1, UnitOutputs DEF alu_valid, alu_en, csr_valid, jump_we
<1>4. /\ valid_o(ack) <=> alu_valid \/ valid_reg \/ csr_valid \/ jump_we
      /\ reg_we_o(ack) <=> alu_valid \/ (Loads /\ valid_reg) \/ csr_valid \/ jump_we
  BY <1>3 DEF valid_o, reg_we_o
<1>5. reg_we_o(ack) <=> \/ taken /\ d.cmd \in {"alu", "alui", "lui", "jal", "jalr", "csr"}
                        \/ shift_ready
                        \/ valid_reg /\ Loads
  BY <1>3, <1>4 DEF alu_cmd
<1>6. ASSUME taken
      PROVE  /\ d.cmd \in {"jal", "jalr", "csr"} => result = d.val
             /\ d.cmd \in {"alu", "alui", "lui"} => result = Alu(op1, op2)
  <2>1. ~shift_ready /\ ~(outstanding = 1 \/ valid_reg)
    BY <1>6, TakenIdle
  <2>2. ~four_stage => ~load_pending /\ ~shift_pending
    BY <1>1, <1>2, <2>1 DEF Pending
  <2>3. alu_res = Alu(op1, op2)
    BY <2>1 DEF alu_res
  <2>4. ~LS!we_o /\ (alu_valid <=> alu_cmd /\ d.cmd # "shift")
        /\ (jump_we <=> d.cmd \in {"jal", "jalr"}) /\ (csr_valid <=> d.cmd = "csr")
    BY <1>3, <1>6, <2>1
  <2> QED
    BY <2>2, <2>3, <2>4 DEF result, result3, result4, alu_cmd
<1>7. ASSUME shift_ready
      PROVE  result = stage_reg
  <2>1. ~taken /\ ~(outstanding = 1 \/ valid_reg)
    BY <1>1, <1>2, <1>7, TakenIdle DEF Underway
  <2>2. ~four_stage => ~load_pending /\ shift_pending
    BY <1>1, <1>2, <2>1, <1>7 DEF Pending
  <2>3. alu_res = stage_reg
    BY <1>7 DEF alu_res
  <2>4. ~LS!we_o /\ alu_valid /\ ~jump_we
    BY <1>3, <1>7, <2>1
  <2> QED
    BY <2>2, <2>3, <2>4 DEF result, result3, result4
<1>8. ASSUME valid_reg, Loads
      PROVE  result = pipe[0].rd.val
  <2>1. ~taken
    BY <1>8, TakenIdle
  <2>2. ~four_stage => load_pending
    BY <1>1, <1>2, <1>8 DEF Pending
  <2>3. result_o.word = pipe[0].rd
    BY <1>1, <1>8 DEF OwnWord
  <2>4. LS!we_o /\ ~jump_we
    BY <1>3, <1>8, <2>1
  <2> QED
    BY <2>2, <2>3, <2>4 DEF result, result3, result4
<1>9. reg_we_o(ack) => result \in Values
  <2>1. d.val \in Values /\ Alu(op1, op2) \in Values
    BY <1>1, InstrType, OperandTypes DEF Alu
  <2> QED
    BY <1>2, <1>5, <1>6, <1>7, <1>8, <2>1
<1>10. four_stage => result4 \in Values
  <2>1. d.val \in Values /\ alu_res \in Values /\ 0 \in Values
    BY <1>1, InstrType, OperandTypes
  <2>2. LS!we_o => result_o.word.val \in Values
    BY <1>1, <1>2, <1>3 DEF OwnWord
  <2> QED
    BY <2>1, <2>2 DEF result4
<1>11. valid_o(ack) \in BOOLEAN /\ reg_we_o(ack) \in BOOLEAN
  BY Zenon DEF valid_o, reg_we_o
<1>12. rd_adr_o \in Reg
  BY <1>1, <1>2, InstrType DEF rd_adr_o
<1> QED
  BY <1>4, <1>5, <1>6, <1>7, <1>8, <1>9, <1>10, <1>11, <1>12

-----------------------------------------------------------------------------
(* The invariant holds initially and is kept by a clock.                   *)

\* Reset.
LEMMA InitInv == Init => PipelineInv
<1> SUFFICES ASSUME Init PROVE PipelineInv
  OBVIOUS
<1>1. 0 \in Reg /\ 0 \in Values
  BY RegisterAssumption DEF Reg
<1>2. d \in Instr
  BY <1>1 DEF Init, Instr, Fields, Cmds, Uses1, Uses2, UsesVal
<1>3. RfTypeOK /\ registers[0] = 0
  BY <1>1 DEF Init, RfInit, RfTypeOK
<1>4. LS!LsuTypeOK /\ outstanding = 0 /\ valid_reg = FALSE
  <2>1. PICK r \in [reg : Reg, val : Values] : r = CHOOSE q \in [reg : Reg, val : Values] : TRUE
    <3>1. [reg |-> 0, val |-> 0] \in [reg : Reg, val : Values]
      BY <1>1
    <3> QED BY <3>1
  <2> DEFINE zero == [rd |-> r, store |-> FALSE, width |-> "byte",
                      misalign |-> FALSE, invalid_op |-> FALSE]
  <2>2. zero \in LS!Op
    BY DEF LS!Op
  <2>3. /\ pipe = [i \in 0 .. 0 |-> zero] /\ bus_op = zero
        /\ outstanding = 0 /\ en_r = FALSE /\ bus_en = FALSE /\ valid_reg = FALSE
        /\ result_o = [word |-> r, width |-> "byte"]
        /\ bus_error_o = FALSE /\ invalid_op_o = FALSE /\ misalign_o = FALSE
    BY <2>1, OneSlot DEF Init, LS!LsuInit
  <2> HIDE DEF zero
  <2>4. pipe \in [0 .. 0 -> LS!Op] /\ bus_op \in LS!Op
    BY <2>2, <2>3
  <2>5. result_o \in LS!Result
    BY <2>3 DEF LS!Result
  <2>6. outstanding \in 0 .. 1
    BY <2>3
  <2>7. pipe \in [LS!Slots -> LS!Op]
    BY <2>4, OneSlot, Zenon
  <2>8. /\ en_r \in BOOLEAN /\ bus_en \in BOOLEAN /\ valid_reg \in BOOLEAN
        /\ bus_error_o \in BOOLEAN /\ invalid_op_o \in BOOLEAN /\ misalign_o \in BOOLEAN
    BY <2>3, Zenon
  <2> QED
    BY <2>3, <2>4, <2>5, <2>6, <2>7, <2>8, Zenon DEF LS!LsuTypeOK
<1>5. TypeOK
  BY <1>1, <1>2, <1>3, <1>4 DEF Init, TypeOK
<1>6. /\ shift_ready = FALSE /\ alu_busy = FALSE /\ jump_busy = FALSE
      /\ load_pending = FALSE /\ shift_pending = FALSE /\ wb.valid = FALSE
      /\ outstanding # 1
  BY <1>4 DEF Init
<1>7. Underway /\ OwnWord /\ Pending
  BY <1>4, <1>6, Zenon DEF Underway, OwnWord, Pending
<1>8. PortsCurrent
  BY <1>3 DEF Init, PortsCurrent
<1> QED
  BY <1>5, <1>7, <1>8 DEF PipelineInv

\* What a clock does to the registers: it writes what completed, in the four-stage
\* pipeline what completed in the clock before; and the ports show the registers
\* of the instruction that is in decode then.
LEMMA RegisterClock ==
  ASSUME PipelineInv, NEW offer \in Offers, NEW ack \in BOOLEAN, Clock(offer, ack)
  PROVE  /\ RfTypeOK' /\ PortsCurrent' /\ d_valid' \in BOOLEAN /\ d' \in Instr
         /\ Written' = IF reg_we_o(ack) THEN Write(Written, rd_adr_o, result) ELSE Written
         /\ wb' \in [valid : BOOLEAN, we : BOOLEAN, rd : Reg, data : Values]
         /\ ~four_stage => wb' = wb
<1>1. /\ TypeOK /\ PortsCurrent /\ Pending /\ RfTypeOK /\ registers[0] = 0
      /\ wb \in [valid : BOOLEAN, we : BOOLEAN, rd : Reg, data : Values]
      /\ d \in Instr /\ d_valid \in BOOLEAN
  BY DEF PipelineInv, TypeOK, PortsCurrent
<1>2. /\ DecodeClock(offer) /\ WriteBackClock(ack) /\ WriteRegister(offer, ack)
  BY DEF Clock
<1>3. offer = {} \/ \E i \in Instr : offer = {i}
  BY ProgramAssumption DEF Offers
<1>4. /\ d_valid' \in BOOLEAN /\ d' \in Instr
      /\ ra(offer) \in Reg /\ rb(offer) \in Reg
      /\ d_valid' => d'.rs1 = ra(offer) /\ d'.rs2 = rb(offer)
  <2>1. CASE offer = {}
    <3>1. d.rs1 \in Reg /\ d.rs2 \in Reg /\ 0 \in Reg
      BY <1>1, InstrType, RegisterAssumption DEF Reg
    <3>2. ra(offer) \in {d.rs1, 0} /\ rb(offer) \in {d.rs2, 0}
          /\ (downstream_busy => ra(offer) = d.rs1 /\ rb(offer) = d.rs2)
      BY <2>1 DEF ra, rb
    <3>3. d' = d /\ (d_valid' = FALSE \/ (downstream_busy /\ d_valid' = d_valid))
      BY <1>2, <2>1 DEF DecodeClock
    <3> QED
      BY <1>1, <3>1, <3>2, <3>3
  <2>2. ASSUME NEW i \in Instr, offer = {i}
        PROVE  <1>4!:
    <3>1. ~kill_i /\ ~downstream_busy
      BY <2>2 DEF Offers
    <3>2. (CHOOSE j \in offer : TRUE) = i
      <4>1. (CHOOSE j \in offer : TRUE) \in offer
        BY <2>2, Zenon
      <4> QED BY <2>2, <4>1
    <3>3. ra(offer) = i.rs1 /\ rb(offer) = i.rs2
      BY <2>2, <3>1, <3>2 DEF ra, rb
    <3>4. d' = i /\ d_valid' = TRUE
      BY <1>2, <2>2, <3>1 DEF DecodeClock
    <3>5. i.rs1 \in Reg /\ i.rs2 \in Reg
      BY DEF Instr, Fields
    <3> QED
      BY <3>3, <3>4, <3>5
  <2> QED
    BY <1>3, <2>1, <2>2
<1>5. /\ reg_we_o(ack) \in BOOLEAN /\ rd_adr_o \in Reg
      /\ reg_we_o(ack) => result \in Values
  BY Completes
<1>6. CASE four_stage
  <2>1. RfClock(ra(offer), rb(offer), wb_we, wb.rd, wb.data)
    BY <1>2, <1>6 DEF WriteRegister
  <2>2. wb_we \in BOOLEAN /\ wb.rd \in Reg /\ wb.data \in Values
    BY <1>1 DEF wb_we
  <2>3. /\ RfTypeOK' /\ registers'[0] = 0 /\ registers' = Written
        /\ port_a' = registers'[ra(offer)] /\ port_b' = registers'[rb(offer)]
    BY <1>1, <1>4, <2>1, <2>2, RfRead DEF Written
  <2>4. wb' = [valid |-> valid_o(ack), we |-> reg_we_o(ack), rd |-> rd_adr_o, data |-> result]
    BY <1>2, <1>6 DEF WriteBackClock, result
  <2>5. wb_we' <=> reg_we_o(ack)
    BY <1>5, <2>4, Completes DEF wb_we
  <2>6. Written' = IF reg_we_o(ack) THEN Write(Written, rd_adr_o, result) ELSE Written
    BY <2>3, <2>4, <2>5 DEF Written, Write
  <2>7. wb' \in [valid : BOOLEAN, we : BOOLEAN, rd : Reg, data : Values]
    BY <1>6, <2>4, Completes DEF result
  <2> QED
    BY <1>4, <1>6, <2>3, <2>6, <2>7 DEF PortsCurrent
<1>7. CASE ~four_stage
  <2>1. RfClock(ra(offer), rb(offer), reg_we_o(ack), rd_adr_o, result)
    BY <1>2, <1>7 DEF WriteRegister, result
  <2>2. wb' = wb /\ ~wb_we /\ Written = registers
    BY <1>1, <1>2, <1>7 DEF WriteBackClock, Pending, wb_we, Written
  <2>3. /\ RfTypeOK' /\ registers'[0] = 0
        /\ port_a' = registers'[ra(offer)] /\ port_b' = registers'[rb(offer)]
        /\ registers' = IF reg_we_o(ack) THEN Write(registers, rd_adr_o, result) ELSE registers
    BY <1>1, <1>4, <1>5, <2>1, RfRead
  <2>4. Written' = registers'
    BY <2>2 DEF Written, wb_we
  <2> QED
    BY <1>1, <1>4, <2>2, <2>3, <2>4 DEF PortsCurrent
<1> QED
  BY <1>6, <1>7

\* What a clock does to the units.
LEMMA UnitsClock ==
  ASSUME PipelineInv, NEW offer \in Offers, NEW ack \in BOOLEAN, ack => outstanding = 1,
         Clock(offer, ack)
  PROVE  /\ outstanding' \in {0, 1} /\ valid_reg' \in BOOLEAN
         /\ shift_ready' \in BOOLEAN /\ alu_busy' \in BOOLEAN /\ jump_busy' \in BOOLEAN
         /\ LS!LsuTypeOK'
         /\ shift_ready' <=> taken /\ d.cmd = "shift"
         /\ alu_busy' <=> taken /\ d.cmd = "shift"
         /\ jump_busy' => taken /\ d.cmd \in {"jal", "jalr", "branch"}
         /\ rd_adr_reg' = rd_adr_o
         /\ taken => /\ outstanding' = IF Accesses THEN 1 ELSE 0
                     /\ ~valid_reg'
                     /\ Accesses => bus_op' = Operation /\ pipe'[0] = Operation
         /\ ~taken => /\ pipe'[0] = pipe[0] /\ bus_op' = bus_op
                      /\ outstanding' = IF ack THEN 0 ELSE outstanding
                      /\ valid_reg' <=> ack
                      /\ ack => result_o'.word = pipe[0].rd
<1>1. TypeOK /\ Underway /\ OwnWord /\ outstanding \in {0, 1} /\ shift_ready \in BOOLEAN
  BY DEF PipelineInv, TypeOK, LS!LsuTypeOK
<1>2. LoadStoreClock(ack) /\ AluClock /\ ExecuteClock(ack)
  BY DEF Clock
<1>3. /\ pipe'[0] = IF Accesses THEN Operation ELSE pipe[0]
      /\ bus_op' = IF Accesses THEN Operation ELSE bus_op
      /\ outstanding' = IF Accesses THEN 1 ELSE IF ack THEN 0 ELSE outstanding
      /\ valid_reg' = (ack /\ ~pipe[0].misalign /\ ~pipe[0].invalid_op)
      /\ result_o'.word = IF ack THEN bus_op.rd ELSE NoWord
      /\ LS!LsuTypeOK'
  BY <1>1, <1>2, UnitClock
<1>4. /\ ack => bus_op = pipe[0] /\ ~pipe[0].misalign /\ ~pipe[0].invalid_op
      /\ Accesses => taken
      /\ taken => ~ack /\ outstanding = 0 /\ ~shift_ready
  BY <1>1, TakenIdle DEF OwnWord, Accesses
<1>5. /\ outstanding' \in {0, 1} /\ valid_reg' \in BOOLEAN
  BY <1>3 DEF LS!LsuTypeOK
<1>6. /\ shift_ready' = shift_en /\ alu_busy' = (shift_en /\ ~shift_ready)
      /\ shift_en <=> taken /\ d.cmd = "shift"
  BY <1>2 DEF AluClock, shift_en, alu_en, alu_cmd
<1>7. /\ jump_busy' = (taken /\ jump /\ ~config.jump_bypass) /\ rd_adr_reg' = rd_adr_o
      /\ jump => d.cmd \in {"jal", "jalr", "branch"}
  BY <1>2 DEF ExecuteClock, jump, rd_adr_o
<1>8. /\ shift_ready' \in BOOLEAN /\ alu_busy' \in BOOLEAN /\ jump_busy' \in BOOLEAN
      /\ jump_busy' => taken /\ d.cmd \in {"jal", "jalr", "branch"}
      /\ shift_ready' <=> taken /\ d.cmd = "shift"
      /\ alu_busy' <=> taken /\ d.cmd = "shift"
  <2>1. shift_en \in BOOLEAN /\ (shift_en /\ ~shift_ready) \in BOOLEAN
    BY Zenon DEF shift_en, alu_en
  <2> QED
    BY <1>4, <1>6, <1>7, <2>1, Zenon
<1>9. taken => /\ outstanding' = IF Accesses THEN 1 ELSE 0
               /\ ~valid_reg'
               /\ Accesses => bus_op' = Operation /\ pipe'[0] = Operation
  BY <1>3, <1>4
<1>10. ~taken => /\ pipe'[0] = pipe[0] /\ bus_op' = bus_op
                 /\ outstanding' = IF ack THEN 0 ELSE outstanding
                 /\ valid_reg' <=> ack
                 /\ ack => result_o'.word = pipe[0].rd
  BY <1>3, <1>4
<1> QED
  BY <1>3, <1>5, <1>7, <1>8, <1>9, <1>10

\* A clock of the pipeline keeps the invariant.
LEMMA ClockInv ==
  ASSUME PipelineInv, NEW offer \in Offers, NEW ack \in BOOLEAN, ack => outstanding = 1,
         Clock(offer, ack)
  PROVE  PipelineInv'
<1>1. /\ TypeOK /\ Underway /\ OwnWord /\ Pending /\ outstanding \in {0, 1}
      /\ valid_reg \in BOOLEAN
  BY DEF PipelineInv, TypeOK, LS!LsuTypeOK
<1>2. /\ ExecuteClock(ack) /\ AluClock /\ config' = config
  BY DEF Clock
<1>3. TypeOK'
  <2>1. load_pending' \in BOOLEAN /\ shift_pending' \in BOOLEAN
    BY <1>1, <1>2 DEF ExecuteClock, TypeOK
  <2>2. stage_reg' \in Values
    BY <1>1, <1>2, OperandTypes, ConfigsAssumption DEF AluClock, TypeOK
  <2>3. rd_adr_reg' \in Reg
    BY UnitsClock, Completes
  <2>4. config' \in Configs
    BY <1>1, <1>2 DEF TypeOK
  <2> QED
    BY <2>1, <2>2, <2>3, <2>4, UnitsClock, RegisterClock DEF TypeOK
<1>4. Underway'
  <2>1. CASE taken
    <3>1. Accesses => Operation.rd.reg = rd_adr_reg'
      BY <2>1, UnitsClock DEF Operation, rd_adr_o
    <3>2. Accesses => d.cmd \in {"load", "store"}
      BY DEF Accesses
    <3> QED
      BY <2>1, <3>1, <3>2, UnitsClock DEF Underway
  <2>2. CASE ~taken
    BY <1>1, <2>2, UnitsClock DEF Underway, rd_adr_o
  <2> QED
    BY <2>1, <2>2
<1>5. OwnWord'
  <2>1. ~Operation.misalign /\ ~Operation.invalid_op
    BY DEF Operation
  <2> QED
    BY <1>1, <2>1, UnitsClock DEF OwnWord
<1>6. Pending'
  <2>1. four_stage' = four_stage
    BY <1>2 DEF four_stage
  <2>2. ASSUME ~four_stage
        PROVE  /\ load_pending' = ((outstanding' = 1 \/ valid_reg') /\ Loads')
               /\ shift_pending' = shift_ready'
               /\ ~wb'.valid
    <3>1. /\ load_pending = ((outstanding = 1 \/ valid_reg) /\ Loads)
          /\ shift_pending = shift_ready /\ ~wb.valid
      BY <1>1, <2>2 DEF Pending
    <3>2. /\ load_pending' = IF taken THEN d.cmd = "load"
                             ELSE load_pending /\ ~ls_valid(ack)
          /\ shift_pending' = IF taken THEN d.cmd = "shift"
                              ELSE shift_pending /\ ~alu_valid
      BY <1>2, <2>2 DEF ExecuteClock
    <3>3. ls_valid(ack) = valid_reg /\ (shift_ready => alu_valid)
      BY <1>1, UnitOutputs DEF alu_valid
    <3>4. ~wb'.valid
      BY <2>2, <3>1, RegisterClock
    <3>5. CASE taken
      <4>1. Accesses <=> d.cmd \in {"load", "store"}
        BY <3>5 DEF Accesses
      <4>2. Accesses => (Loads' <=> d.cmd # "store")
        <5>1. Accesses => pipe'[0] = Operation
          BY <3>5, UnitsClock
        <5>2. Operation.store <=> d.cmd = "store"
          BY DEF Operation
        <5> QED
          BY <5>1, <5>2 DEF Loads
      <4>3. load_pending' <=> ((outstanding' = 1 \/ valid_reg') /\ Loads')
        <5>1. (outstanding' = 1 \/ valid_reg') <=> Accesses
          BY <3>5, UnitsClock
        <5>2. load_pending' <=> d.cmd = "load"
          BY <3>2, <3>5
        <5> QED
          BY <4>1, <4>2, <5>1, <5>2
      <4>4. shift_pending' <=> shift_ready'
        BY <3>2, <3>5, UnitsClock
      <4>5. load_pending' \in BOOLEAN /\ shift_pending' \in BOOLEAN
        BY <3>2, <3>5
      <4> QED
        BY <3>4, <4>3, <4>4, <4>5, UnitsClock, Zenon
    <3>6. CASE ~taken
      <4>1. Loads' <=> Loads
        BY <3>6, UnitsClock DEF Loads
      <4>2. load_pending' = (load_pending /\ ~valid_reg)
            /\ shift_pending' = (shift_pending /\ ~alu_valid)
        BY <3>2, <3>3, <3>6
      <4>3. /\ outstanding = 1 => ~valid_reg
            /\ outstanding' = 1 \/ valid_reg' <=> outstanding = 1
        BY <1>1, <3>6, UnitsClock DEF Underway
      <4>4. load_pending' <=> ((outstanding' = 1 \/ valid_reg') /\ Loads')
        BY <3>1, <4>1, <4>2, <4>3
      <4>5. shift_pending' <=> shift_ready'
        BY <3>1, <3>3, <3>6, <4>2, UnitsClock
      <4> QED
        BY <3>4, <4>2, <4>4, <4>5, UnitsClock, Zenon
    <3> QED
      BY <3>5, <3>6
  <2> QED
    BY <2>1, <2>2 DEF Pending
<1>7. PortsCurrent'
  BY RegisterClock
<1> QED
  BY <1>3, <1>4, <1>5, <1>6, <1>7 DEF PipelineInv

\* The invariant, in every state of every execution.
THEOREM Invariant == Spec => []PipelineInv
<1>1. PipelineInv /\ [Next]_vars => PipelineInv'
  <2> SUFFICES ASSUME PipelineInv, [Next]_vars
               PROVE  PipelineInv'
    OBVIOUS
  <2>1. CASE Next
    BY <2>1, ClockInv DEF Next
  <2>2. CASE UNCHANGED vars
    <3>1. /\ UNCHANGED <<config, d_valid, d, wb, rd_adr_reg, jump_busy, load_pending>>
          /\ UNCHANGED <<shift_pending, shift_ready, alu_busy, stage_reg, registers>>
          /\ UNCHANGED <<read_a, read_b, wdata_reg, collision_a, collision_b>>
          /\ UNCHANGED <<pipe, outstanding, en_r, bus_en, bus_op, valid_reg, result_o>>
          /\ UNCHANGED <<bus_error_o, invalid_op_o, misalign_o>>
      BY <2>2 DEF vars, rfVars, exVars, aluVars, LS!lsuVars
    <3>2. TypeOK'
      BY <3>1 DEF PipelineInv, TypeOK, RfTypeOK, LS!LsuTypeOK
    <3>3. Underway' /\ OwnWord' /\ Pending'
      BY <3>1 DEF PipelineInv, Underway, OwnWord, Pending, Loads, four_stage
    <3>4. PortsCurrent'
      BY <3>1 DEF PipelineInv, PortsCurrent, port_a, port_b
    <3> QED
      BY <3>2, <3>3, <3>4 DEF PipelineInv
  <2> QED
    BY <2>1, <2>2
<1> QED
  BY <1>1, InitInv, PTL DEF Spec

-----------------------------------------------------------------------------
(* What the program sees.                                                  *)

\* The registers as the program sees them, when one result at most is underway.
LEMMA ArchIs ==
  ASSUME PipelineInv
  PROVE  arch = IF shift_ready THEN Write(Written, rd_adr_reg, stage_reg)
                ELSE IF (outstanding = 1 \/ valid_reg) /\ Loads
                     THEN Write(Written, rd_adr_reg, pipe[0].rd.val)
                ELSE Written
<1>1. outstanding = 1 \/ valid_reg => pipe[0].rd.reg = rd_adr_reg
  BY DEF PipelineInv, Underway
<1>2. valid_reg => result_o.word = pipe[0].rd
  BY DEF PipelineInv, OwnWord
<1> QED
  BY <1>1, <1>2 DEF arch, Written, Loads

\* The operands of an instruction that execute takes: through the ports of the
\* register file, from write back, or execute waits for write back.
LEMMA Operands ==
  ASSUME PipelineInv, taken
  PROVE  /\ arch = Written
         /\ uses_rs1 => op1 = Written[d.rs1]
         /\ uses_rs2 => op2 = Written[d.rs2]
<1>1. /\ TypeOK /\ Pending /\ PortsCurrent /\ registers \in [Reg -> Values]
      /\ wb \in [valid : BOOLEAN, we : BOOLEAN, rd : Reg, data : Values]
  BY DEF PipelineInv, TypeOK, RfTypeOK
<1>2. arch = Written
  BY ArchIs, TakenIdle
<1>3. port_a = registers[d.rs1] /\ port_b = registers[d.rs2]
  BY <1>1, TakenIdle DEF PortsCurrent
<1>4. ASSUME NEW r \in Reg
      PROVE  Written[r] = IF wbHits(r) THEN wb.data ELSE registers[r]
  BY <1>1 DEF Written, Write, wbHits
<1>5. \/ config.writeback_bypass
      \/ /\ uses_rs1 => ~wbHits(d.rs1)
         /\ uses_rs2 => ~wbHits(d.rs2)
  BY <1>1, TakenIdle, ConfigType DEF hazard_i, Pending, wbHits, wb_we
<1>6. uses_rs1 => op1 = IF wbHits(d.rs1) THEN wb.data ELSE registers[d.rs1]
  BY <1>3, <1>5 DEF op1, op1_o, uses_rs1, Uses1, rs1_immediate
<1>7. uses_rs2 => op2 = IF wbHits(d.rs2) THEN wb.data ELSE registers[d.rs2]
  BY <1>3, <1>5 DEF op2, op2_o, uses_rs2, Uses2, rs2_immediate
<1> QED
  BY <1>1, <1>2, <1>4, <1>6, <1>7, InstrType

\* Every instruction reads the results of all instructions before it: rtl/regfile.py
\* (collision), the hazard and the forwarding of rtl/pipelined_backend.py and
\* rtl/execute.py.
THEOREM SpecOperandsCurrent == Spec => []OperandsCurrent
<1>1. PipelineInv => OperandsCurrent
  BY Operands DEF OperandsCurrent
<1> QED
  BY <1>1, Invariant, PTL

\* An empty pipeline leaves every result in the register file, where the debug
\* module reads it: pipeline_empty of rtl/simple_pipeline.py and
\* rtl/pipelined_backend.py.
THEOREM SpecEmptyIsSettled == Spec => []EmptyIsSettled
<1>1. PipelineInv => EmptyIsSettled
  <2> SUFFICES ASSUME PipelineInv, pipeline_empty(FALSE)
               PROVE  registers = arch
    BY DEF EmptyIsSettled
  <2>1. TypeOK /\ Underway /\ Pending /\ outstanding \in {0, 1}
    BY DEF PipelineInv, TypeOK, LS!LsuTypeOK
  <2>2. ~shift_ready /\ ~(outstanding = 1 \/ valid_reg)
    BY <2>1, UnitOutputs DEF pipeline_empty, busy, Underway
  <2>3. ~wb_we
    BY <2>1 DEF pipeline_empty, Pending, wb_we
  <2> QED
    BY <2>2, <2>3, ArchIs DEF Written
<1> QED
  BY <1>1, Invariant, PTL

\* One clock of the pipeline, as the program sees it.
LEMMA ClockIsSequential ==
  ASSUME PipelineInv, NEW offer \in Offers, NEW ack \in BOOLEAN, ack => outstanding = 1,
         Clock(offer, ack)
  PROVE  SequentialStep
<1>1. /\ TypeOK /\ Underway /\ outstanding \in {0, 1} /\ Values = {0, 1}
      /\ wb \in [valid : BOOLEAN, we : BOOLEAN, rd : Reg, data : Values]
  BY ConfigsAssumption DEF PipelineInv, TypeOK, LS!LsuTypeOK
<1>2. Written' = IF reg_we_o(ack) THEN Write(Written, rd_adr_o, result) ELSE Written
  BY RegisterClock
<1>3. PipelineInv'
  BY ClockInv
<1>4. arch' = IF shift_ready' THEN Write(Written', rd_adr_o, stage_reg')
              ELSE IF (outstanding' = 1 \/ valid_reg') /\ Loads'
                   THEN Write(Written', rd_adr_o, pipe'[0].rd.val)
              ELSE Written'
  <2>1. /\ outstanding' = 1 \/ valid_reg' => pipe'[0].rd.reg = rd_adr_reg'
        /\ valid_reg' => result_o'.word = pipe'[0].rd
        /\ rd_adr_reg' = rd_adr_o
    BY <1>3, UnitsClock DEF PipelineInv, Underway, OwnWord
  <2> QED
    BY <2>1 DEF arch, Written, Loads
<1>5. CASE taken
  <2>1. /\ ~shift_ready /\ ~valid_reg /\ rd_adr_o = d.rd
        /\ arch = Written
        /\ uses_rs1 => op1 = arch[d.rs1]
        /\ uses_rs2 => op2 = arch[d.rs2]
        /\ uses_rs1 <=> Uses1(d)
        /\ uses_rs2 <=> Uses2(d)
    BY <1>5, TakenIdle, Operands DEF rd_adr_o, uses_rs1, uses_rs2
  <2>2. /\ Written' = IF d.cmd \in {"alu", "alui", "lui", "jal", "jalr", "csr"}
                      THEN Write(arch, d.rd, result) ELSE arch
        /\ shift_ready' <=> d.cmd = "shift"
        /\ outstanding' = IF d.cmd \in {"load", "store"} THEN 1 ELSE 0
        /\ ~valid_reg'
    BY <1>2, <1>5, <2>1, Completes, UnitsClock DEF Accesses
  <2>3. d.cmd \in Cmds /\ d.val \in {0, 1}
    BY <1>1, InstrType
  <2>4. CASE d.cmd = "alu"
    <3>1. result = Alu(arch[d.rs1], arch[d.rs2])
      BY <1>5, <2>1, <2>4, Completes DEF Uses1, Uses2
    <3> QED
      BY <1>4, <1>5, <2>2, <2>4, <3>1 DEF SequentialStep, After
  <2>5. CASE d.cmd = "alui"
    <3>1. op1 = arch[d.rs1] /\ op2 = d.val
      BY <2>1, <2>5 DEF Uses1, op2, op2_o, uses_rs2, Uses2, rs2_immediate
    <3>2. result = Alu(arch[d.rs1], d.val)
      BY <1>5, <2>5, <3>1, Completes
    <3> QED
      BY <1>4, <1>5, <2>2, <2>5, <3>2 DEF SequentialStep, After
  <2>6. CASE d.cmd = "lui"
    <3>1. op1 = d.val /\ op2 = 0
      BY <2>6 DEF Uses1, Uses2, op1, op2, op1_o, op2_o, uses_rs1, uses_rs2,
                  rs1_immediate, rs2_immediate
    <3>2. result = d.val
      BY <1>5, <2>3, <2>6, <3>1, Completes DEF Alu
    <3> QED
      BY <1>4, <1>5, <2>2, <2>6, <3>2 DEF SequentialStep, After
  <2>7. CASE d.cmd \in {"jal", "jalr", "csr"}
    <3>1. result = d.val
      BY <1>5, <2>7, Completes
    <3> QED
      BY <1>4, <1>5, <2>2, <2>7, <3>1 DEF SequentialStep, After
  <2>8. CASE d.cmd = "shift"
    <3>1. stage_reg' = Shift(op1, op2)
      BY <1>5, <2>8 DEF Clock, AluClock, shift_en, alu_en, alu_cmd
    <3>2. op1 = arch[d.rs1] /\ op2 = arch[d.rs2]
      BY <2>1, <2>8 DEF Uses1, Uses2
    <3> QED
      BY <1>4, <1>5, <2>1, <2>2, <2>8, <3>1, <3>2 DEF SequentialStep, After
  <2>9. CASE d.cmd \in {"load", "store"}
    <3>1. pipe'[0] = Operation
      BY <1>5, <2>9, UnitsClock DEF Accesses
    <3>2. Operation.rd.val = d.val /\ (Operation.store <=> d.cmd = "store")
      BY DEF Operation
    <3>3. Loads' <=> d.cmd = "load"
      BY <2>9, <3>1, <3>2 DEF Loads
    <3> QED
      BY <1>4, <1>5, <2>1, <2>2, <2>9, <3>1, <3>2, <3>3 DEF SequentialStep, After
  <2>10. CASE d.cmd \in {"branch", "fence"}
    BY <1>4, <1>5, <2>2, <2>10 DEF SequentialStep, After
  <2> QED
    BY <2>3, <2>4, <2>5, <2>6, <2>7, <2>8, <2>9, <2>10 DEF Cmds
<1>6. CASE ~taken
  <2>1. /\ rd_adr_o = rd_adr_reg /\ ~shift_ready' /\ pipe'[0] = pipe[0]
        /\ outstanding' = IF ack THEN 0 ELSE outstanding
        /\ valid_reg' <=> ack
    BY <1>6, UnitsClock DEF rd_adr_o
  <2>2. (outstanding' = 1 \/ valid_reg') <=> outstanding = 1
    BY <1>1, <2>1
  <2>3. Loads' <=> Loads
    BY <2>1 DEF Loads
  <2>4. arch' = IF outstanding = 1 /\ Loads
                THEN Write(Written', rd_adr_reg, pipe[0].rd.val) ELSE Written'
    BY <1>4, <2>1, <2>2, <2>3
  <2>5. Written' = IF shift_ready THEN Write(Written, rd_adr_reg, stage_reg)
                   ELSE IF valid_reg /\ Loads THEN Write(Written, rd_adr_reg, pipe[0].rd.val)
                   ELSE Written
    BY <1>2, <1>6, <2>1, Completes
  <2>6. /\ shift_ready => outstanding # 1
        /\ outstanding = 1 => ~valid_reg
    BY <1>1 DEF Underway
  <2> QED
    BY <1>6, <2>4, <2>5, <2>6, ArchIs DEF SequentialStep
<1> QED
  BY <1>5, <1>6

\* The pipeline is a sequential machine: execute, the pending registers of
\* rtl/simple_pipeline.py and the write back registers of rtl/pipelined_backend.py
\* lose no result, write none twice and none to another register.
THEOREM SpecSequential == Spec => Sequential
<1>1. PipelineInv /\ [Next]_vars => [SequentialStep]_vars
  <2> SUFFICES ASSUME PipelineInv, Next
               PROVE  SequentialStep
    OBVIOUS
  <2> QED
    BY ClockIsSequential DEF Next
<1> QED
  BY <1>1, Invariant, PTL DEF Spec, Sequential
=============================================================================
