------------------------------- MODULE JtagDTM ------------------------------
(***************************************************************************)
(* The two front ends of the debug transport: the JTAG DTM with its own    *)
(* TAP (rtl/debug/jtag_dtm.py), and the ECP5 client behind the JTAGG       *)
(* primitive (rtl/debug/ecp5_jtagg_client.py) with the TAP emulator that   *)
(* drives it in simulation (rtl/debug/ecp5_jtagg_tap.py).  A shift leaves  *)
(* any request in the register: bits are not modelled one by one.  The     *)
(* IDCODE and BYPASS registers hold nothing that matters here, so IDCODE   *)
(* stands for every instruction but DTMCS and DMI (ER2 and ER1).           *)
(***************************************************************************)
EXTENDS DmiCdcBridge

(* The TAP state machine that both front ends have (rtl/debug/tap_fsm.py): *)
(* for every state where TMS = 0 and TMS = 1 lead.                         *)

TapStates == {"test_logic_reset", "run_test_idle",
              "select_dr_scan", "capture_dr", "shift_dr", "exit1_dr",
              "pause_dr", "exit2_dr", "update_dr",
              "select_ir_scan", "capture_ir", "shift_ir", "exit1_ir",
              "pause_ir", "exit2_ir", "update_ir"}

\* The next state at a rising edge of TCK outside reset.
TapNext(state, tms) ==
    LET on == [test_logic_reset |-> <<"run_test_idle", "test_logic_reset">>,
               run_test_idle    |-> <<"run_test_idle", "select_dr_scan">>,
               select_dr_scan   |-> <<"capture_dr", "select_ir_scan">>,
               capture_dr       |-> <<"shift_dr", "exit1_dr">>,
               shift_dr         |-> <<"shift_dr", "exit1_dr">>,
               exit1_dr         |-> <<"pause_dr", "update_dr">>,
               pause_dr         |-> <<"pause_dr", "exit2_dr">>,
               exit2_dr         |-> <<"shift_dr", "update_dr">>,
               update_dr        |-> <<"run_test_idle", "select_dr_scan">>,
               select_ir_scan   |-> <<"capture_ir", "test_logic_reset">>,
               capture_ir       |-> <<"shift_ir", "exit1_ir">>,
               shift_ir         |-> <<"shift_ir", "exit1_ir">>,
               exit1_ir         |-> <<"pause_ir", "update_ir">>,
               pause_ir         |-> <<"pause_ir", "exit2_ir">>,
               exit2_ir         |-> <<"shift_ir", "update_ir">>,
               update_ir        |-> <<"run_test_idle", "select_dr_scan">>]
    IN  IF tms THEN on[state][2] ELSE on[state][1]

\* The state register, which reset and trstn clear at a clock edge.
TapState(state, tms, cleared) ==
    IF cleared THEN "test_logic_reset" ELSE TapNext(state, tms)

-----------------------------------------------------------------------------
(* The front ends. *)

CONSTANT Scanned        \* the requests a host shifts in

VARIABLES
    frontEnd,           \* "dtm" or "ecp5", fixed
    tck, tap_state, instruction,
    dmi_shift_reg,
    dtmcs_shift_reg,    \* its bit 17, which asks for dtmhardreset
    active_er1, active_er2, jshift_d    \* ECP5 client

tapVars == <<tap_state, instruction>>
shiftVars == <<dmi_shift_reg, dtmcs_shift_reg>>
clientVars == <<active_er1, active_er2, jshift_d>>

Instructions == {"IDCODE", "DTMCS", "DMI"}
Busy == [Zero EXCEPT !.op = BUSY]

(* What the capture and the shift of a DR scan do, in either front end. *)
CaptureDmi == dmi_shift_reg' = IF pending THEN Busy ELSE response_payload
CaptureDtmcs == dtmcs_shift_reg' = FALSE
ShiftDmi == dmi_shift_reg' \in Scanned
ShiftDtmcs == dtmcs_shift_reg' \in BOOLEAN
UpdateDmi == /\ request_payload' = dmi_shift_reg
             /\ request_toggle' = ~request_toggle
             /\ UNCHANGED dtmhardreset_toggle
UpdateDtmcs == /\ dtmhardreset_toggle' = (dtmcs_shift_reg # dtmhardreset_toggle)
               /\ UNCHANGED <<request_payload, request_toggle>>

FrontReset ==
    /\ dmi_shift_reg' = Zero /\ dtmcs_shift_reg' = FALSE
    /\ request_payload' = Zero /\ request_toggle' = FALSE
    /\ dtmhardreset_toggle' = FALSE

\* The instruction register of both TAPs.  The value that is shifted in is
\* chosen when it becomes the instruction.
InstructionReg(tms, cleared) ==
    IF cleared THEN instruction' = "IDCODE"
    ELSE CASE tap_state = "test_logic_reset" /\ tms -> instruction' = "IDCODE"
           [] tap_state = "update_ir" -> instruction' \in Instructions
           [] OTHER -> UNCHANGED instruction

-----------------------------------------------------------------------------
(* The JTAG DTM: everything happens at the rising edge of TCK. *)

DtmScan ==
    CASE tap_state = "capture_dr" /\ instruction = "DMI" ->
             CaptureDmi /\ UNCHANGED <<dtmcs_shift_reg, frontVars>>
      [] tap_state = "capture_dr" /\ instruction = "DTMCS" ->
             CaptureDtmcs /\ UNCHANGED <<dmi_shift_reg, frontVars>>
      [] tap_state = "shift_dr" /\ instruction = "DMI" ->
             ShiftDmi /\ UNCHANGED <<dtmcs_shift_reg, frontVars>>
      [] tap_state = "shift_dr" /\ instruction = "DTMCS" ->
             ShiftDtmcs /\ UNCHANGED <<dmi_shift_reg, frontVars>>
      [] tap_state = "update_dr" /\ instruction = "DMI" ->
             UpdateDmi /\ UNCHANGED shiftVars
      [] tap_state = "update_dr" /\ instruction = "DTMCS" ->
             UpdateDtmcs /\ UNCHANGED shiftVars
      [] OTHER -> UNCHANGED <<shiftVars, frontVars>>

DtmRise(tms, cleared) ==
    /\ tap_state' = TapState(tap_state, tms, cleared)
    /\ InstructionReg(tms, cleared)
    /\ IF cleared THEN FrontReset ELSE DtmScan
    /\ ScanSide(cleared)
    /\ UNCHANGED clientVars

-----------------------------------------------------------------------------
(* The ECP5 client: the TAP moves at the rising edge, the client follows    *)
(* the strobes of JTAGG at the falling edge.                               *)

jrstn == tap_state # "test_logic_reset"
jshift == tap_state = "shift_dr"
jupdate == tap_state = "update_dr"
ScanRegister == tap_state \in {"capture_dr", "shift_dr"}
jce1 == instruction = "DMI" /\ ScanRegister
jce2 == instruction = "DTMCS" /\ ScanRegister
jrt1 == instruction = "DMI" /\ tap_state = "run_test_idle"
jrt2 == instruction = "DTMCS" /\ tap_state = "run_test_idle"

Ecp5Rise(tms, cleared) ==
    /\ tap_state' = TapState(tap_state, tms, cleared)
    /\ InstructionReg(tms, cleared)
    /\ ScanSide(cleared \/ ~jrstn)
    /\ UNCHANGED <<shiftVars, frontVars, clientVars>>

Select(er1, er2) == active_er1' = er1 /\ active_er2' = er2

ClientShift ==
    /\ UNCHANGED <<frontVars, active_er1, active_er2>>
    /\ CASE active_er1 \/ jce1 -> ShiftDmi /\ UNCHANGED dtmcs_shift_reg
         [] ~(active_er1 \/ jce1) /\ (active_er2 \/ jce2) ->
                ShiftDtmcs /\ UNCHANGED dmi_shift_reg
         [] OTHER -> UNCHANGED shiftVars

ClientUpdate ==
    /\ UNCHANGED <<shiftVars, active_er1, active_er2>>
    /\ CASE active_er1 -> UpdateDmi
         [] ~active_er1 /\ active_er2 -> UpdateDtmcs
         [] OTHER -> UNCHANGED frontVars

Client ==
    CASE jce1 /\ ~jshift -> /\ Select(TRUE, FALSE) /\ CaptureDmi
                            /\ UNCHANGED <<dtmcs_shift_reg, frontVars>>
      [] jce2 /\ ~jshift -> /\ Select(FALSE, TRUE) /\ CaptureDtmcs
                            /\ UNCHANGED <<dmi_shift_reg, frontVars>>
      [] jshift \/ jshift_d -> ClientShift
      [] jupdate /\ ~jshift_d -> ClientUpdate
      [] jrt1 /\ ~jshift_d -> Select(TRUE, FALSE) /\ UNCHANGED <<shiftVars, frontVars>>
      [] jrt2 /\ ~jshift_d -> Select(FALSE, TRUE) /\ UNCHANGED <<shiftVars, frontVars>>
      [] OTHER -> UNCHANGED <<shiftVars, frontVars, active_er1, active_er2>>

Ecp5Fall(reset) ==
    /\ UNCHANGED <<tapVars, scanVars>>
    /\ IF reset \/ ~jrstn
       THEN FrontReset /\ Select(FALSE, FALSE) /\ jshift_d' = FALSE
       ELSE Client /\ jshift_d' = jshift

=============================================================================
