------------------------------ MODULE DebugCore ------------------------------
(***************************************************************************)
(* The core with its debug module: fetch (FetchUnit), decode and execute   *)
(* as in FrontEnd, and between them and the DMI the pipeline adapter, the  *)
(* hart control, the command sequencer and the DMI registers, wired as     *)
(* rtl/simple_pipeline.py and rtl/pipelined_backend.py wire them when      *)
(* config.enableDebugModule is set.                                        *)
(*                                                                         *)
(* What an instruction of the program does to control is a choice: it may  *)
(* jump to one of Targets, occupy a unit, write a CSR, or be an EBREAK.    *)
(* One of the Program Buffer may occupy a unit, raise an exception or write*)
(* dpc or dcsr; it does not jump.  The program does not write dpc or dcsr. *)
(* A step is a clock edge.                                                 *)
(***************************************************************************)
EXTENDS FetchUnit

CONSTANTS
    Configs,        \* the settings of rtl/config.py to be checked
    ProgbufSize,    \* config.progbuf_size
    Words,          \* words of the Program Buffer: "ebreak", "insn", "dpc", "dcsr"
    Programs,       \* the contents of the Program Buffer
    Targets,        \* where the program jumps to
    Dpcs,           \* what the debugger writes to dpc
    Accesses        \* what the debugger does through the DMI

ASSUME DebugAssumption ==
    /\ Configs \subseteq [jump_bypass : BOOLEAN, four_stage : BOOLEAN]
    /\ ProgbufSize \in {1, 2}
    /\ Words \subseteq {"ebreak", "insn", "dpc", "dcsr"}
    /\ Programs \subseteq [0 .. 1 -> Words]
    /\ Targets \subseteq Addr /\ Dpcs \subseteq Addr

VARIABLES
    config,         \* fixed when the core is elaborated
    valid_o, source, mepc_o,        \* decode: valid, whose instruction, from where
    jump_r, jump_dest_r, jump_busy, \* execute
    unit,           \* the multi-cycle unit: idle, at work, in its last clock
    bus_error_o,    \* the last access of the load/store unit failed
    wb_valid,       \* the write back stage of the four-stage pipeline
    active, active_progbuf, architectural_next_pc,      \* PipelineAdapter
    state, redirect_pc, req_ack, update, dpc, step, ebreakm,     \* HartDebug
    command_state, issued_last, abstract_command_result,    \* AbstractCommand
    dmactive, haltreq, resumereq, resumeack, ndmreset, havereset,
    abstract_command_new, cmderr, abstract_busy_error, command,
    auto, data_regs, progbuf,       \* DmiRegisters
    expected,       \* history: where the program goes on
    instead,        \* history: where it goes on contrary to that, or NoPc
    executed,       \* history: instructions of the program in this step, 2 for more
    failed_early    \* history: the word at work has been reported as failed already

NoPc == N           \* not an address
Data == {0}         \* the content of the data registers is left out

INSTANCE PipelineAdapter WITH Pcs <- Addr, ResetPc <- ResetAddress
INSTANCE HartDebug WITH Pcs <- Addr, ResetPc <- ResetAddress
INSTANCE AbstractCommand
INSTANCE DmiRegisters WITH Regs <- {0}

coreVars == <<pend, valid_o, source, mepc_o, jump_r, jump_dest_r, jump_busy, unit,
              bus_error_o, wb_valid>>
vars == <<config, fetchVars, coreVars, adapterVars, hartVars, commandVars, dmiVars,
          expected, instead, executed, failed_early>>

\* Whose the instruction in decode is: the program's, the one that writes a
\* general register for an abstract command, or a word of the Program Buffer.
Sources == {"fetch", "transfer"} \cup Words

-----------------------------------------------------------------------------
(* Decode and execute.  A choice c says what the instruction in execute    *)
(* does if it is taken (does, pc, step), and what the units do in this     *)
(* clock.                                                                  *)

exec_busy(c) == unit # "idle" \/ jump_busy \/ c.hazard
taken(c) == valid_o /\ ~exec_busy(c)
decode_busy(c) == valid_o /\ exec_busy(c)

jumps(c) == taken(c) /\ c.does = "jump"
jump_dest(c) == IF jumps(c) THEN c.pc ELSE 0
debug_ebreak(c) == taken(c) /\ c.does = "ebreak"

jump_o(c) == IF taken(c) /\ config.jump_bypass THEN jumps(c) ELSE jump_r /\ ~taken(c)
jump_dest_o(c) == IF taken(c) /\ config.jump_bypass THEN jump_dest(c) ELSE jump_dest_r

\* mutant: the unit at work is forgotten
pipeline_emptyEarly(c) == ~valid_o
pipeline_empty(c) == ~valid_o /\ ~exec_busy(c) /\ ~wb_valid

progbuf_exception(c) ==
    active /\ active_progbuf /\ ((taken(c) /\ c.does = "exception") \/ bus_error_o)

kill_i(c) ==
    \/ IF config.jump_bypass THEN jumps(c) ELSE jump_busy
    \/ flush(debug_ebreak(c), progbuf_exception(c))

csr_writes(c) ==
    IF taken(c) /\ c.does = "dpc" THEN {[csr |-> "dpc", pc |-> c.pc]}
    ELSE IF taken(c) /\ c.does = "dcsr"
    THEN {[csr |-> "dcsr", step |-> c.step, ebreakm |-> TRUE]}
    ELSE {[csr |-> "other"] : w \in {TRUE} \cap {taken(c) /\ c.does = "csr"}}

-----------------------------------------------------------------------------
(* The adapter chooses the next instruction.                               *)

progbuf_terminator == issue_valid /\ issue_word = "ebreak"
progbuf_source == issue_valid /\ ~progbuf_terminator
source_valid ==
    IF issue_valid THEN progbuf_source
    ELSE valid /\ allow_fetch /\ ~redirect_pending /\ ~redirect_valid
accepted(c) == source_valid /\ ~decode_busy(c)
complete(c) == active /\ pipeline_empty(c)

\* The inputs of fetch.
stall_i(c) == decode_busy(c) \/ ~allow_fetch \/ redirect_valid \/ issue_valid
out_jump_o(c) == jump_o(c) \/ redirect_valid
out_jump_dest_o(c) == IF redirect_valid THEN redirect_pc ELSE jump_dest_o(c)

events(c) == [instruction_accepted |-> accepted(c) /\ ~progbuf_source,
              instruction_complete |-> complete(c) /\ ~active_progbuf,
              pipeline_empty |-> pipeline_empty(c),
              next_pc |-> next_pc(jump_o(c), jump_dest_o(c)),
              ebreak |-> debug_ebreak(c),
              ebreak_pc |-> mepc_o]

completion(c) == [accepted |-> accepted(c) /\ progbuf_source,
                  complete |-> complete(c) /\ active_progbuf /\ ~progbuf_exception(c),
                  terminated |-> progbuf_terminator,
                  exception |-> progbuf_exception(c)]

-----------------------------------------------------------------------------
(* One clock edge. *)

DecodeClock(c) ==
    IF register_write THEN valid_o' = TRUE /\ source' = "transfer" /\ UNCHANGED mepc_o
    ELSE IF kill_i(c) THEN valid_o' = FALSE /\ UNCHANGED <<source, mepc_o>>
    ELSE IF decode_busy(c) THEN UNCHANGED <<valid_o, source, mepc_o>>
    ELSE IF ~source_valid THEN valid_o' = FALSE /\ UNCHANGED <<source, mepc_o>>
    ELSE /\ valid_o' = TRUE
         /\ source' = IF progbuf_source THEN issue_word ELSE "fetch"
         /\ mepc_o' = current_ip[0]

ExecuteClock(c) ==
    /\ jump_busy' = (jumps(c) /\ ~config.jump_bypass)
    /\ jump_r' = IF taken(c) THEN jumps(c) ELSE jump_r
    /\ jump_dest_r' = IF taken(c) THEN jump_dest(c) ELSE jump_dest_r
    /\ unit' = IF taken(c) \/ unit # "idle" THEN c.unit ELSE "idle"
    /\ bus_error_o' = IF unit = "access" /\ c.unit = "last" THEN c.error ELSE bus_error_o
    /\ wb_valid' = (c.wb /\ (taken(c) \/ unit = "last"))

\* Where the program goes on: behind the instruction it executes, at an EBREAK again,
\* and after a halt where dpc says.  The two exceptions:
\*   - An EBREAK executed in the clock in which a halt request is abandoned neither
\*     halts the hart nor is executed again (rtl/debug/hart_debug.py:53 comes before
\*     :56), although docs/debug/modules/DEBUG_MODULE_README.md:118 says that it
\*     enters Debug Mode.
\*   - When a halt stores a wrong dpc (see EntryPc), the program does not go on there
\*     unless an instruction of the debugger is executed before it does.
GoesOn == IF instead = NoPc THEN expected ELSE instead

Expect(c) ==
    /\ expected' = IF taken(c) /\ c.does = "dpc" THEN c.pc
                   ELSE IF update # NoUpdate THEN update.dpc
                   ELSE IF ~taken(c) \/ source # "fetch" THEN expected
                   ELSE IF c.does = "ebreak" THEN mepc_o
                   ELSE IF c.does = "jump" THEN c.pc ELSE Succ(mepc_o)
    /\ instead' = IF taken(c) THEN IF c.does = "ebreak" /\ Abandoned THEN Succ(mepc_o) ELSE NoPc
                  ELSE IF update # NoUpdate THEN IF update.dpc = GoesOn THEN NoPc ELSE GoesOn
                  ELSE instead

CountStep(c) ==
    executed' = IF state \notin {"step_issue", "step_wait"} THEN 0
                ELSE IF taken(c) /\ source = "fetch" /\ executed < 2 THEN executed + 1
                ELSE executed

NoteFailure(c) ==
    failed_early' = /\ valid_o' \/ unit' # "idle" \/ wb_valid'
                    /\ failed_early \/ progbuf_exception(c)

Release == Control(FALSE, FALSE, FALSE)

\* The debugger does not reset the core, and it writes nothing else to dmcontrol
\* when it releases the module.
ASSUME AccessAssumption ==
    Accesses \subseteq
        BufferReads \cup DataWrites \cup ProgbufWrites \cup CommandWrites
        \cup ErrorWrites \cup AutoWrites \cup {Release}
        \cup {w \in ControlWrites : w.dmactive /\ ~w.ndmreset}

\* A write of dmcontrol that changes nothing, or no more than another one: a module
\* at rest only becomes active.
Redundant(access) ==
    /\ access.op = "dmcontrol"
    /\ IF dmactive /\ access.dmactive
       THEN access.haltreq = haltreq /\ ~(access.resumereq /\ halted)
       ELSE ~dmactive /\ (access.haltreq \/ ~access.dmactive)

\* The DMI bridge takes several clocks between two accesses, so that a resume
\* request has been honoured before the next one.  Commands are for a halted hart,
\* an error is cleared before the hart resumes, and the module is released only
\* while a halt request is pending.
Offered ==
    {NoAccess} \cup
    {access \in Accesses : /\ ~resumereq /\ ~Redundant(access)
                           /\ access = Release => state = "halt_pending"
                           /\ access.op # "dmcontrol" => halted
                           /\ access.op = "dmcontrol" /\ access.resumereq => cmderr = None}

Clock(c, ack) ==
    LET en == en_o(stall_i(c), out_jump_o(c))
    IN  /\ BusClock(en, ack)
        /\ FetchClock(stall_i(c), out_jump_o(c), out_jump_dest_o(c),
                      bus_stall_i(en, ack), ack, pend)
        /\ DecodeClock(c)
        /\ ExecuteClock(c)
        /\ AdapterClock(accepted(c), progbuf_source, Succ(current_ip[0]), redirect_pc,
                        jump_o(c), jump_dest_o(c), pipeline_empty(c), progbuf_exception(c))
        /\ HartClock(events(c), csr_writes(c))
        /\ CommandClock(completion(c), 0)
        /\ Expect(c)
        /\ CountStep(c)
        /\ NoteFailure(c)
        /\ UNCHANGED config
        /\ \E access \in Offered : DmiClock(access, FALSE)

Init ==
    /\ config \in Configs
    /\ FetchInit
    /\ pend = NoRequest
    /\ valid_o = FALSE /\ source = "fetch" /\ mepc_o = 0
    /\ jump_r = FALSE /\ jump_dest_r = 0 /\ jump_busy = FALSE
    /\ unit = "idle" /\ bus_error_o = FALSE /\ wb_valid = FALSE
    /\ AdapterInit /\ HartInit /\ CommandInit /\ DmiInit
    /\ progbuf \in Programs
    /\ expected = ResetAddress /\ instead = NoPc
    /\ executed = 0 /\ failed_early = FALSE

-----------------------------------------------------------------------------
(* The choices. *)

Effect(does, pc, st, un) == [does |-> does, pc |-> pc, step |-> st, unit |-> un]
Plain == Effect("plain", 0, FALSE, "idle")

\* Single-cycle, at the load/store unit, or at the shifter.
Computes == {Effect("plain", 0, FALSE, un) : un \in {"idle", "access", "last"}}

Effects ==
    CASE source = "fetch" ->
            Computes \cup {Effect("jump", pc, FALSE, "idle") : pc \in Targets}
                     \cup {Effect("csr", 0, FALSE, "idle")}
                     \cup {Effect("ebreak", 0, FALSE, "idle") : e \in {TRUE} \cap {ebreakm}}
      [] source = "insn" -> Computes \cup {Effect("exception", 0, FALSE, "idle")}
      [] source = "dpc" -> {Effect("dpc", pc, FALSE, "idle") : pc \in Dpcs}
      [] source = "dcsr" -> {Effect("dcsr", 0, st, "idle") : st \in BOOLEAN}
      [] OTHER -> {Plain}

Choice(e, hazard, error, wb) ==
    [does |-> e.does, pc |-> e.pc, step |-> e.step, unit |-> e.unit,
     hazard |-> hazard, error |-> error, wb |-> wb]

WriteBack == IF config.four_stage THEN BOOLEAN ELSE {FALSE}

Choices ==
    IF unit = "access"
    THEN {Choice(Effect("none", 0, FALSE, "access"), FALSE, FALSE, FALSE)}
         \cup {Choice(Effect("none", 0, FALSE, "last"), FALSE, e, FALSE) : e \in {FALSE, active_progbuf}}
    ELSE IF ~valid_o \/ unit = "last" \/ jump_busy
    THEN {Choice(Plain, FALSE, FALSE, wb) : wb \in {w \in WriteBack : w => unit = "last"}}
    ELSE {Choice(p[1], FALSE, FALSE, p[2]) : p \in Effects \X WriteBack}
         \cup {Choice(Plain, h, FALSE, FALSE) : h \in {TRUE} \cap {wb_valid}}

Next == \E ack \in BOOLEAN :
            /\ MayAnswer(ack)
            /\ \E c \in Choices : Clock(c, ack)

Spec == Init /\ [][Next]_vars

-----------------------------------------------------------------------------
(* Properties. *)

TypeOK ==
    /\ config \in Configs
    /\ FetchTypeOK /\ AdapterTypeOK /\ HartTypeOK /\ CommandTypeOK /\ DmiTypeOK
    /\ pend \in Addr \cup {NoRequest}
    /\ valid_o \in BOOLEAN /\ source \in Sources /\ mepc_o \in Addr
    /\ jump_r \in BOOLEAN /\ jump_dest_r \in Addr /\ jump_busy \in BOOLEAN
    /\ unit \in {"idle", "access", "last"}
    /\ bus_error_o \in BOOLEAN /\ wb_valid \in BOOLEAN
    /\ expected \in Addr /\ instead \in Addr \cup {NoPc}
    /\ executed \in 0 .. 2 /\ failed_early \in BOOLEAN

\* The debugger is transparent: the instructions of the program are executed in
\* program order, after a halt from dpc on.  None is lost, repeated or executed on a
\* wrong path, over halt, EBREAK, step, Program Buffer and resume
\* (rtl/debug/hart_debug.py, rtl/debug/pipeline_adapter.py).  GoesOn names the
\* two exceptions.
Transparent ==
    valid_o /\ source = "fetch" /\ unit = "idle" /\ ~jump_busy => mepc_o = GoesOn

\* The hart enters Debug Mode with dpc at the instruction that comes next, and no
\* CSR write gets in the way of what the hart control stores there
\* (docs/debug/modules/DEBUG_MODULE_README.md:115-118, rtl/debug/debug_csrs.py:73-83).
\* A halt request right after a jump is the exception (see README.md).
EntryPc ==
    [][update # NoUpdate =>
          /\ dpc' = update.dpc
          /\ \/ update.dpc = GoesOn
             \/ update.cause = HaltRequest /\ jump_r]_vars

\* A step executes one instruction of the program
\* (rtl/debug/hart_debug.py, step_issue and step_wait).
StepsOne == update.cause = Stepped => executed = 1

\* An abstract command reads and writes the general registers when no instruction
\* has yet to write one (rtl/simple_pipeline.py:144-146, rtl/debug/hart_debug.py:70,91).
\* A word that has been reported as failed before its end is the exception.
Quiet == command_request /\ ~failed_early => ~valid_o /\ unit = "idle" /\ ~wb_valid

=============================================================================
