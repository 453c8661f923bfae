----------------------------- MODULE DebugModule -----------------------------
(***************************************************************************)
(* A debugger, the debug module and a hart: the calls of DebugApi over the *)
(* DMI registers, the command sequencer and the hart control, which are    *)
(* those of the modules DmiRegisters, AbstractCommand and HartDebug.  The  *)
(* pipeline is one instruction at a time that takes any number of clocks   *)
(* (DebugCore has the pipeline itself).  A step is a clock edge, with one  *)
(* access of the debugger or none.                                         *)
(***************************************************************************)
EXTENDS Naturals, Sequences

CONSTANTS
    Calls,          \* the calls the debugger makes: [op : ...] or [op : ..., value : ...]
    Nothing

VARIABLES
    call, todo, result, saved,      \* the debugger: its call and what is left of it
    gap,                            \* no access was made in the last clock
    held,                           \* history: x8, x9, ... when the call began
    valid, pc,                      \* fetch: the instruction at hand, where it is from
    at_work, from, word,            \* decode and execute: what is at work
    active, active_progbuf, architectural_next_pc,      \* PipelineAdapter
    x8, x9, mem,
    core_reset,                     \* dtm.ndmreset
    state, redirect_pc, req_ack, update, dpc, step, ebreakm,     \* HartDebug
    command_state, issued_last, abstract_command_result,    \* AbstractCommand
    dmactive, haltreq, resumereq, resumeack, ndmreset, havereset,
    abstract_command_new, cmderr, abstract_busy_error, command,
    auto, data_regs, progbuf        \* DmiRegisters

Values == {0, 1}
ResetPc == 0
NoPc == 2
Words == {"ebreak", "load", "store", "csrr dpc", "csrw dpc", "csrw dcsr"}

INSTANCE PipelineAdapter WITH Pcs <- Values
INSTANCE HartDebug WITH Pcs <- Values
INSTANCE AbstractCommand WITH Data <- Values, ProgbufSize <- 2
INSTANCE DmiRegisters WITH Data <- Values, Regs <- {8, 9}
INSTANCE DebugApi

apiVars == <<call, todo, result, saved, gap, held>>
machineVars == <<valid, pc, at_work, from, word,
                 active, active_progbuf, architectural_next_pc, x8, x9, mem, core_reset,
                 state, redirect_pc, req_ack, update, dpc, step, ebreakm,
                 command_state, issued_last, abstract_command_result,
                 dmactive, haltreq, resumereq, resumeack, ndmreset, havereset,
                 abstract_command_new, cmderr, abstract_busy_error, command,
                 auto, data_regs, progbuf>>
vars == <<apiVars, machineVars>>

NoCall == [op |-> "none"]
-----------------------------------------------------------------------------
(* The hart.  In a clock e, the instruction at work may end (finish), with  *)
(* a jump to an address or as an EBREAK of the debugger, and fetch may get  *)
(* its next instruction (fetched).                                          *)

Contents == [x8 |-> x8, x9 |-> x9, mem |-> mem, dpc |-> dpc, step |-> step]
Succ(a) == 1 - a

End(finish, jump, ebreak, fetched) ==
    [finish |-> finish, jump |-> jump, ebreak |-> ebreak, fetched |-> fetched]
Ends ==
    {End(FALSE, NoPc, FALSE, f) : f \in {FALSE, ~valid /\ allow_fetch}}
    \cup (IF ~at_work THEN {} ELSE {End(TRUE, NoPc, FALSE, FALSE)})
    \cup (IF ~at_work \/ active_progbuf THEN {}
          ELSE {End(TRUE, a, FALSE, FALSE) : a \in Values}
               \cup {End(TRUE, NoPc, TRUE, FALSE) : t \in {TRUE} \cap {ebreakm}})

progbuf_source == issue_valid /\ issue_word # "ebreak"
source_valid == IF issue_valid THEN progbuf_source
                ELSE valid /\ allow_fetch /\ ~redirect_valid
accepted == source_valid /\ ~at_work
pipeline_empty == ~at_work
complete == active /\ pipeline_empty

events(e) == [instruction_accepted |-> accepted /\ ~progbuf_source,
              instruction_complete |-> complete /\ ~active_progbuf,
              pipeline_empty |-> pipeline_empty,
              next_pc |-> next_pc(e.jump # NoPc, e.jump),
              ebreak |-> e.ebreak, ebreak_pc |-> from]
completion == [accepted |-> accepted /\ progbuf_source,
               complete |-> complete /\ active_progbuf,
               terminated |-> issue_valid /\ ~progbuf_source, exception |-> FALSE]
wordDone(e, w) == e.finish /\ active_progbuf /\ ~core_reset /\ word = w
csr_writes(e) ==
    IF wordDone(e, "csrw dpc") THEN {[csr |-> "dpc", pc |-> x8]}
    ELSE IF wordDone(e, "csrw dcsr") THEN {[csr |-> "dcsr", step |-> x8 = 1, ebreakm |-> x8 = 1]}
    ELSE {}

\* core_reset resets the stages and not the adapter.
PipelineClock(e) ==
    LET takes == accepted /\ ~progbuf_source
        moves == redirect_valid \/ e.jump # NoPc
    IN  /\ valid' = (~core_reset /\ ~moves /\ ~e.ebreak /\ ((valid /\ ~takes) \/ e.fetched))
        /\ pc' = CASE core_reset -> ResetPc
                   [] ~core_reset /\ redirect_valid -> redirect_pc
                   [] ~core_reset /\ ~redirect_valid /\ e.jump # NoPc -> e.jump
                   [] OTHER -> IF takes THEN Succ(pc) ELSE pc
        /\ at_work' = (~core_reset /\ (accepted \/ (at_work /\ ~e.finish)))
        /\ from' = IF ~at_work' THEN ResetPc ELSE IF takes THEN pc ELSE from
        /\ word' = IF ~at_work' THEN "load" ELSE IF accepted /\ progbuf_source THEN issue_word ELSE word
        /\ AdapterClock(accepted, progbuf_source, Succ(pc), redirect_pc, e.jump # NoPc, e.jump,
                        pipeline_empty, FALSE)

\* Register transfers of commands, and what the words of the Program Buffer do.
RegisterClock(e) ==
    LET written(r) == register_write /\ command.regno = r
    IN  /\ x8' = CASE written(8) -> data_regs
                   [] wordDone(e, "load") -> mem
                   [] wordDone(e, "csrr dpc") -> dpc
                   [] OTHER -> x8
        /\ x9' = IF written(9) THEN data_regs ELSE x9
        /\ mem' = IF wordDone(e, "store") THEN x9 ELSE mem

\* ndmreset resets the core; the hart control has no reset.
Reset == /\ dpc' = ResetPc /\ step' = FALSE /\ ebreakm' = FALSE

ResetOrHart(e) ==
    IF core_reset THEN StateClock(events(e)) /\ Reset
    ELSE HartClock(events(e), csr_writes(e))

Machine(e, access) ==
    /\ PipelineClock(e)
    /\ RegisterClock(e)
    /\ ResetOrHart(e)
    /\ CommandClock(completion, IF command.regno = 8 THEN x8 ELSE x9)
    /\ DmiClock(access, FALSE)        \* havereset is not read by the debugger
    /\ core_reset' = (dmactive /\ ndmreset)

-----------------------------------------------------------------------------
(* The debugger: a call begins, makes its accesses one after the other,    *)
(* with one or more clocks between them, and returns.                      *)

\* In Debug Mode, with its pc in dpc.
InDebugMode == halted /\ update = NoUpdate

\* Registers and memory are for a halted hart.
NeedsHalt(c) == c.op \notin {"halt", "request_resume", "ResetCore"}
atWork == call # NoCall /\ NeedsHalt(call)

Begin(c) ==
    /\ call = NoCall /\ (NeedsHalt(c) => InDebugMode) /\ (c.op # "halt" => dmactive)
    /\ call' = c /\ todo' = Steps(c) /\ result' = Nothing
    /\ held' = IF NeedsHalt(c) THEN Contents ELSE Nothing
    /\ UNCHANGED <<saved, gap, machineVars>>

\* What is left in result by another call than a read is not for the caller.
Return ==
    /\ call # NoCall /\ todo = <<>> /\ gap
    /\ call' = NoCall /\ held' = Nothing /\ saved' = Nothing
    /\ result' = IF call.op \in {"readGPR", "readCSR", "readMemory"} THEN result ELSE Nothing
    /\ UNCHANGED <<todo, gap, machineVars>>

\* What an access reads is what the registers hold in its clock.
Read(test) ==
    CASE test = "busy" -> /\ todo' = IF command_busy THEN todo ELSE Tail(todo)
                          /\ UNCHANGED <<result, saved>>
      [] test = "result" -> todo' = Tail(todo) /\ result' = data_regs /\ UNCHANGED saved
      [] test = "save" -> todo' = Tail(todo) /\ saved' = data_regs /\ UNCHANGED result
      [] test = "done if halted" -> /\ todo' = IF halted THEN <<>> ELSE Tail(todo)
                                    /\ UNCHANGED <<result, saved>>
      [] test = "done if running" -> /\ todo' = IF halted THEN Tail(todo) ELSE <<>>
                                     /\ UNCHANGED <<result, saved>>
      [] test = "until halted" -> /\ todo' = IF halted THEN Tail(todo) ELSE todo
                                  /\ UNCHANGED <<result, saved>>
      [] test = "until resumed" -> /\ todo' = IF resumeack THEN Tail(todo) ELSE todo
                                   /\ UNCHANGED <<result, saved>>

Access(e) ==
    /\ call # NoCall /\ todo # <<>> /\ gap /\ gap' = FALSE
    /\ LET now == Head(todo)
       IN  \/ /\ now.kind = "write"
              /\ todo' = Tail(todo) /\ UNCHANGED <<result, saved>>
              /\ Machine(e, now.access)
           \/ /\ now.kind = "restore"
              /\ todo' = Tail(todo) /\ UNCHANGED <<result, saved>>
              /\ Machine(e, [op |-> "write", adr |-> "data", value |-> saved])
           \/ /\ now.kind \notin {"write", "restore"}
              /\ Read(now.kind)
              /\ Machine(e, IF now.kind \in {"result", "save"}
                            THEN [op |-> "read", adr |-> "data"] ELSE NoAccess)
    /\ UNCHANGED <<call, held>>

\* A clock edge without an access.
Wait(e) == Machine(e, NoAccess) /\ gap' = TRUE /\ UNCHANGED <<call, todo, result, saved, held>>

Init ==
    /\ call = NoCall /\ todo = <<>> /\ result = Nothing /\ saved = Nothing /\ held = Nothing
    /\ gap = TRUE
    /\ valid = FALSE /\ pc = ResetPc /\ at_work = FALSE /\ from = ResetPc /\ word = "load"
    /\ AdapterInit
    /\ x8 = 0 /\ x9 = 0 /\ mem = 0
    /\ core_reset = FALSE
    /\ HartInit /\ CommandInit /\ DmiInit
    /\ abstract_command_result = 0 /\ data_regs = 0
    /\ progbuf \in [0 .. 1 -> {"ebreak"}]

Next ==
    \/ \E c \in Calls : Begin(c)
    \/ \E e \in Ends : Access(e) \/ Wait(e)
    \/ Return

\* Clocks go on; the debugger makes its next access some time, and an instruction ends.
Finishing == \E e \in {f \in Ends : f.finish} : Access(e) \/ Wait(e)
Fetching == ~valid /\ \E e \in {f \in Ends : f.fetched} : Access(e) \/ Wait(e)
Fairness ==
    /\ WF_vars(\E e \in Ends : Wait(e))
    /\ SF_vars(Return \/ \E e \in Ends : Access(e))
    /\ WF_vars(Finishing)
    /\ SF_vars(Fetching)

Spec == Init /\ [][Next]_vars /\ Fairness

-----------------------------------------------------------------------------
(* Properties. *)

Api == INSTANCE HartAccess WITH
    halted <- InDebugMode,
    x8 <- IF atWork THEN held.x8 ELSE x8,
    x9 <- IF atWork THEN held.x9 ELSE x9,
    mem <- IF atWork THEN held.mem ELSE mem,
    dpc <- IF atWork THEN held.dpc ELSE dpc,
    dcsr <- IF (IF atWork THEN held.step ELSE step) THEN 1 ELSE 0,
    result <- IF call = NoCall THEN result ELSE Nothing

\* Every call of the debug API does what it is for, and nothing else: what it uses on
\* the way is put back, and the hart moves by run control only
\* (tb/debug/debug_api.py:174-213).
ApiSpec == Api!Spec

\* No access of a call is refused: a call never meets a command that is still at work,
\* so that the assertions of its end hold (tb/debug/debug_api.py:120, 164).
NeverRefused == cmderr = None /\ ~abstract_busy_error

\* Every call returns (tb/debug/debug_api.py:52-79, 115-117).
Returns == call # NoCall ~> call = NoCall

=============================================================================
