--------------------------- MODULE PipelineAdapter ---------------------------
(***************************************************************************)
(* The debug boundary in front of decode, rtl/debug/pipeline_adapter.py:   *)
(* it chooses between fetch and the Program Buffer and keeps the           *)
(* architectural next program counter.                                     *)
(***************************************************************************)
CONSTANTS
    Pcs,            \* program counters
    ResetPc         \* config.reset_address

VARIABLES
    active,                 \* an accepted instruction is not complete
    active_progbuf,         \* it comes from the Program Buffer
    architectural_next_pc

adapterVars == <<active, active_progbuf, architectural_next_pc>>

AdapterTypeOK ==
    /\ active \in BOOLEAN /\ active_progbuf \in BOOLEAN
    /\ architectural_next_pc \in Pcs

AdapterInit ==
    /\ active = FALSE /\ active_progbuf = FALSE
    /\ architectural_next_pc = ResetPc

\* mutant: the target of a jump is not noted
next_pcSequential(jump_o, jump_dest_o) == architectural_next_pc

\* The program counter after the instructions of the pipeline.
next_pc(jump_o, jump_dest_o) ==
    IF active /\ ~active_progbuf /\ jump_o THEN jump_dest_o ELSE architectural_next_pc

\* accepted: fetch's (progbuf FALSE) or the Program Buffer's instruction enters
\* decode; redirect: the resume redirect of this clock.
NextPc(accepted, progbuf, next_ip, redirect, jump_o, jump_dest_o) ==
    architectural_next_pc' =
        CASE redirect \in Pcs -> redirect
          [] redirect \notin Pcs /\ accepted /\ ~progbuf -> next_ip
          [] OTHER -> next_pc(jump_o, jump_dest_o)

\* The end of the older instruction wins over the acceptance of a younger one.
TrackActive(accepted, progbuf, empty, exception) ==
    IF active /\ (empty \/ (active_progbuf /\ exception))
    THEN active' = FALSE /\ active_progbuf' = FALSE
    ELSE IF accepted
    THEN active' = TRUE /\ active_progbuf' = progbuf
    ELSE UNCHANGED <<active, active_progbuf>>

AdapterClock(accepted, progbuf, next_ip, redirect, jump_o, jump_dest_o, empty, exception) ==
    /\ NextPc(accepted, progbuf, next_ip, redirect, jump_o, jump_dest_o)
    /\ TrackActive(accepted, progbuf, empty, exception)

=============================================================================
