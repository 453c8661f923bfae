--------------------------- MODULE AbstractCommand ---------------------------
(***************************************************************************)
(* The sequencer of abstract commands, rtl/debug/abstract_command.py: the  *)
(* register transfer, then up to two words of the Program Buffer.          *)
(***************************************************************************)
CONSTANTS
    ProgbufSize,    \* config.progbuf_size, 1 or 2
    Data            \* what a register can hold

VARIABLES
    dmactive, abstract_command_new, command, progbuf,   \* inputs: DMI registers
    state,                      \* input: of the hart
    command_state, issued_last, abstract_command_result

commandVars == <<command_state, issued_last, abstract_command_result>>

CommandStates == {"none", "taken", "regvalid", "exec", "exec2", "wait_retire", "failed"}

CommandTypeOK ==
    /\ command_state \in CommandStates
    /\ issued_last \in BOOLEAN
    /\ abstract_command_result \in Data

CommandInit ==
    /\ command_state = "none"
    /\ issued_last = FALSE
    /\ abstract_command_result \in Data

-----------------------------------------------------------------------------
(* Outputs. *)

command_request == abstract_command_new /\ command_state = "none"
transfer_valid == command_request /\ command.transfer
register_write == transfer_valid /\ command.write

issue_valid == command_state \in {"exec", "exec2"}
issue_word == IF command_state = "exec2" THEN progbuf[1] ELSE progbuf[0]
issue_last == command_state = "exec2" \/ ProgbufSize = 1

-----------------------------------------------------------------------------
(* completion: what the pipeline reports of the Program Buffer's words;    *)
(* read_data: the register read.                                           *)

AfterTransfer == IF command.postexec THEN "exec" ELSE "none"

NextState(completion) ==
    CASE command_state = "none" ->
            IF command_request THEN "taken" ELSE "none"
      [] command_state = "taken" ->
            IF command.transfer /\ ~command.write THEN "regvalid" ELSE AfterTransfer
      [] command_state = "regvalid" -> AfterTransfer
      [] command_state \in {"exec", "exec2"} ->
            IF completion.terminated THEN "none"
            ELSE IF completion.accepted THEN "wait_retire" ELSE command_state
      [] command_state = "wait_retire" ->
            IF completion.exception THEN "failed"
            ELSE IF completion.complete THEN (IF issued_last THEN "none" ELSE "exec2")
            ELSE "wait_retire"
      [] command_state = "failed" -> "none"

CommandClock(completion, read_data) ==
    /\ command_state' = IF ~dmactive THEN "none"
                        ELSE IF state = "halted" THEN NextState(completion)
                        ELSE command_state
    /\ issued_last' = IF ~dmactive THEN FALSE
                      ELSE IF state = "halted" /\ issue_valid /\ ~completion.terminated
                              /\ completion.accepted
                           THEN issue_last ELSE issued_last
    /\ abstract_command_result' =
            IF dmactive /\ state = "halted" /\ command_state = "taken"
               /\ command.transfer /\ ~command.write
            THEN read_data ELSE abstract_command_result

=============================================================================
