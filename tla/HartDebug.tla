------------------------------ MODULE HartDebug ------------------------------
(***************************************************************************)
(* The hart's side of the debug module: the halt, resume, EBREAK and       *)
(* single-step control (rtl/debug/hart_debug.py) and the debug CSRs        *)
(* dpc and dcsr (rtl/debug/debug_csrs.py).  dcsr.cause, which nothing but  *)
(* the debugger reads, is the cause of the last update and not kept.       *)
(***************************************************************************)
EXTENDS Naturals

CONSTANTS
    Pcs,            \* program counters
    NoPc,           \* not a program counter
    ResetPc         \* one of Pcs, config.reset_address

VARIABLES
    dmactive, haltreq, resumereq,       \* inputs: the DMI registers
    state,          \* of the hart
    redirect_pc,    \* the resume redirect of this clock, NoPc for none
    req_ack,        \* a halt or resume request has been honoured
    update,         \* what the control writes to dpc and dcsr.cause
    dpc, step, ebreakm                  \* the debug CSRs

hartVars == <<state, redirect_pc, req_ack, update, dpc, step, ebreakm>>

States == {"running", "halt_pending", "halted", "step_issue", "step_wait"}
Ebreak == 1
HaltRequest == 3
Stepped == 4

NoUpdate == [dpc |-> NoPc, cause |-> 0]

HartTypeOK ==
    /\ state \in States
    /\ redirect_pc \in Pcs \cup {NoPc}
    /\ req_ack \in BOOLEAN
    /\ update \in [dpc : Pcs, cause : {Ebreak, HaltRequest, Stepped}] \cup {NoUpdate}
    /\ dpc \in Pcs
    /\ step \in BOOLEAN /\ ebreakm \in BOOLEAN

HartInit ==
    /\ state = "running"
    /\ redirect_pc = NoPc
    /\ req_ack = FALSE
    /\ update = NoUpdate
    /\ dpc = ResetPc /\ step = FALSE /\ ebreakm = FALSE

-----------------------------------------------------------------------------
(* Outputs. *)

redirect_valid == redirect_pc # NoPc
halted == state = "halted"
\* mutant: fetch goes on while the stepped instruction is at work
allow_fetchStepping == state \in {"step_issue", "step_wait"} \/ (state = "running" /\ ~haltreq)
allow_fetch == (state = "running" /\ ~haltreq) \/ state = "step_issue"
flush(ebreak, exception) == ebreak \/ exception \/ redirect_valid

-----------------------------------------------------------------------------
(* The state machine.  events: what the pipeline reports in this clock.    *)

Silent == req_ack' = FALSE /\ redirect_pc' = NoPc /\ update' = NoUpdate

Enter(pc, why, acknowledge) ==
    /\ state' = "halted"
    /\ update' = [dpc |-> pc, cause |-> why]
    /\ req_ack' = acknowledge
    /\ redirect_pc' = NoPc

Abandoned == ~dmactive /\ state = "halt_pending"
AtEbreak(events) == ~Abandoned /\ events.ebreak /\ state # "halted"

AbandonHalt == Abandoned /\ state' = "running" /\ Silent

EnterByEbreak(events) == AtEbreak(events) /\ Enter(events.ebreak_pc, Ebreak, FALSE)

RequestHalt ==
    /\ state = "running" /\ haltreq
    /\ state' = "halt_pending"
    /\ Silent

EnterByRequest(events) ==
    /\ state = "halt_pending" /\ events.pipeline_empty
    /\ Enter(events.next_pc, HaltRequest, TRUE)

\* mutant: the resumed hart goes on where fetch stands
ResumeInPlace ==
    /\ state = "halted" /\ resumereq
    /\ state' = IF step THEN "step_issue" ELSE "running"
    /\ req_ack' = TRUE
    /\ redirect_pc' = NoPc
    /\ update' = NoUpdate

\* mutant: the step waits for an instruction that is not fetched yet
ResumeWaiting ==
    /\ state = "halted" /\ resumereq
    /\ state' = IF step THEN "step_wait" ELSE "running"
    /\ req_ack' = TRUE
    /\ redirect_pc' = dpc
    /\ update' = NoUpdate

Resume ==
    /\ state = "halted" /\ resumereq
    /\ state' = IF step THEN "step_issue" ELSE "running"
    /\ req_ack' = TRUE
    /\ redirect_pc' = dpc
    /\ update' = NoUpdate

IssueStep(events) ==
    /\ state = "step_issue" /\ events.instruction_accepted
    /\ state' = "step_wait"
    /\ Silent

EnterByStep(events) ==
    /\ state = "step_wait" /\ events.instruction_complete
    /\ Enter(events.next_pc, Stepped, FALSE)

Stay(events) ==
    /\ \/ state = "running" /\ ~haltreq
       \/ state = "halt_pending" /\ ~events.pipeline_empty
       \/ halted /\ ~resumereq
       \/ state = "step_issue" /\ ~events.instruction_accepted
       \/ state = "step_wait" /\ ~events.instruction_complete
    /\ UNCHANGED state
    /\ Silent

\* Two events of a clock are decided in the order of the code.
StateClock(events) ==
    \/ AbandonHalt
    \/ EnterByEbreak(events)
    \/ /\ ~Abandoned /\ ~AtEbreak(events)
       /\ \/ RequestHalt
          \/ EnterByRequest(events)
          \/ Resume
          \/ IssueStep(events)
          \/ EnterByStep(events)
          \/ Stay(events)

\* writes: the CSR write of the instruction in execute, {} for none.  Any CSR
\* write, also one that is neither dpc nor dcsr, keeps the control from writing.
CsrClock(writes) ==
    /\ dpc' = IF writes = {} THEN (IF update = NoUpdate THEN dpc ELSE update.dpc)
              ELSE IF \E w \in writes : w.csr = "dpc"
                   THEN (CHOOSE w \in writes : TRUE).pc ELSE dpc
    /\ IF \E w \in writes : w.csr = "dcsr"
       THEN \E w \in writes : step' = w.step /\ ebreakm' = w.ebreakm
       ELSE UNCHANGED <<step, ebreakm>>

HartClock(events, writes) == StateClock(events) /\ CsrClock(writes)

=============================================================================
