--------------------------- MODULE DebugTransport ---------------------------
(***************************************************************************)
(* The debug transport between a host that drives TCK, TMS, TDI and TRSTN  *)
(* and the registers of the debug module, with either front end.  The two  *)
(* clocks run freely: an edge of TCK, an edge of the core clock, or both   *)
(* at once.  Reset is held until all edges have come, so it is one step    *)
(* that clears both domains; the debug module itself has no reset.         *)
(***************************************************************************)
EXTENDS JtagDTM

CONSTANTS FrontEnds,    \* subset of {"dtm", "ecp5"}
          SettleEdges   \* core clocks the host leaves the core side after
                        \* dtmhardreset or a reset of the TAP

ASSUME SettleAssumption == SettleEdges \in Nat
ASSUME FrontEndsAssumption == FrontEnds \subseteq {"dtm", "ecp5"}
ASSUME DataAssumption == Data \subseteq Nat /\ 1 \in Data

VARIABLES
    settle, letGo,      \* letGo: the host waits because of a reset of the TAP
    regs, dbo,          \* the debug module: its registers and its data output
    answer              \* history: what the last request must be answered with

hostVars == <<settle, letGo>>
scanAll == <<frontVars, scanVars, frontEnd, tck, tapVars, shiftVars, clientVars>>
vars == <<scanAll, coreVars, hostVars, regs, dbo, answer>>

Any == [op |-> BUSY, adr |-> 0, data |-> 0]     \* no answer is specified
Requests == [op : {NOP, READ, WRITE, BUSY}, adr : Adr, data : Data]
ASSUME ScannedAssumption == Scanned \subseteq Requests

-----------------------------------------------------------------------------
(* The host. *)

\* The register that the next DR scan goes through: an ECP5 client stays with
\* ER1 while another instruction that it does not know is selected.
ThroughDmi == \/ instruction = "DMI"
              \/ frontEnd = "ecp5" /\ active_er1 /\ instruction # "DTMCS"

\* Every DMI scan ends with a request.  The host starts one when the previous
\* request has ended (it polls dmistat or waits), and when the core clock has
\* run long enough after a reset of the transport.  It scans without a pause
\* and always shifts.
HostMayStep(tms) ==
    /\ tap_state = "select_dr_scan" /\ ~tms /\ ThroughDmi => ~pending /\ settle = 0
    /\ tap_state \in {"capture_dr", "capture_ir"} => ~tms
    /\ tap_state \in {"exit1_dr", "exit1_ir"} => tms

-----------------------------------------------------------------------------
(* The edges of TCK.  The JTAG DTM changes only TDO at the falling edge. *)

Rise(tms, trstn) ==
    /\ ~tck /\ tck' = (frontEnd = "ecp5") /\ HostMayStep(tms)
    /\ IF frontEnd = "dtm" THEN DtmRise(tms, ~trstn)
                           ELSE Ecp5Rise(tms, ~trstn)
    /\ UNCHANGED frontEnd

Fall ==
    /\ tck /\ tck' = FALSE
    /\ Ecp5Fall(FALSE)
    /\ UNCHANGED frontEnd

Sent == request_toggle' # request_toggle
HardResetSent == dtmhardreset_toggle' # dtmhardreset_toggle

-----------------------------------------------------------------------------
(* The core clock: the bridge, and the registers it reaches. *)

\* Every access has an effect each time, like one that starts a command
\* (command, autoexec): a write adds its data to the register, a read adds one.
Stored(r, contents) ==
    CASE r.op = WRITE -> [contents EXCEPT ![r.adr] = (@ + r.data) % 2]
      [] r.op = READ -> [contents EXCEPT ![r.adr] = (@ + 1) % 2]
      [] OTHER -> contents
InAccess == [op |-> IF dtm.we THEN WRITE ELSE READ, adr |-> dtm.adr, data |-> dtm.dbi]
InitRegs == [a \in Adr |-> 0]

DebugModule ==
    /\ regs' = IF dtm.en THEN Stored(InAccess, regs) ELSE regs
    /\ dbo' = IF dtm.en /\ ~dtm.we THEN regs[dtm.adr] ELSE 0

Core == CoreSide(FALSE, dbo) /\ DebugModule

-----------------------------------------------------------------------------
(* Next: the edges, alone or together, and the bookkeeping of the host. *)

\* A reset of the scan side alone: by TRSTN, or where an ECP5 TAP is reset.
Cleared(trst) == trst \/ (frontEnd = "ecp5" /\ tap_state = "test_logic_reset")

ResponseUnderWay ==
    response_toggle # response_toggle_meta \/ response_toggle_meta # response_toggle_sync

\* The host waits again after a reset of the scan side or dtmhardreset.
Bookkeeping(scan, core, trst) ==
    LET cleared == scan /\ Cleared(trst)
        again == cleared \/ (scan /\ HardResetSent)
    IN  /\ settle' = IF again THEN SettleEdges
                     ELSE IF core /\ settle > 0 THEN settle - 1 ELSE settle
        /\ letGo' = (cleared \/ (letGo /\ (settle' # 0 \/ ResponseUnderWay')))
        /\ answer' =
               CASE cleared -> Any
                 [] ~cleared /\ scan /\ Sent ->
                      [op |-> SUCCESS, adr |-> dmi_shift_reg.adr,
                       data |-> IF dmi_shift_reg.op = READ THEN regs'[dmi_shift_reg.adr] ELSE 0]
                 [] ~cleared /\ ~(scan /\ Sent) /\ core /\ hardreset /\ answer # Any -> Zero
                 [] OTHER -> answer

TckRise(tms, trstn) ==
    Rise(tms, trstn) /\ UNCHANGED <<coreVars, regs, dbo>> /\ Bookkeeping(TRUE, FALSE, ~trstn)
TckFall == Fall /\ UNCHANGED <<coreVars, regs, dbo>> /\ Bookkeeping(TRUE, FALSE, FALSE)
CoreClock == Core /\ UNCHANGED scanAll /\ Bookkeeping(FALSE, TRUE, FALSE)
BothRise(tms, trstn) == Rise(tms, trstn) /\ Core /\ Bookkeeping(TRUE, TRUE, ~trstn)
FallAndCore == Fall /\ Core /\ Bookkeeping(TRUE, TRUE, FALSE)

Reset ==
    /\ CoreSide(TRUE, dbo) /\ FrontReset /\ ScanSide(TRUE)
    /\ tap_state' = TapState(tap_state, TRUE, TRUE) /\ InstructionReg(TRUE, TRUE)
    /\ Select(FALSE, FALSE) /\ jshift_d' = FALSE
    /\ DebugModule
    /\ settle' = 0 /\ letGo' = FALSE /\ answer' = Zero
    /\ UNCHANGED <<frontEnd, tck>>

Init ==
    /\ BridgeInit
    /\ frontEnd \in FrontEnds /\ tck = FALSE
    /\ tap_state = "test_logic_reset" /\ instruction = "IDCODE"
    /\ dmi_shift_reg = Zero /\ dtmcs_shift_reg = FALSE
    /\ active_er1 = FALSE /\ active_er2 = FALSE /\ jshift_d = FALSE
    /\ settle = 0 /\ letGo = FALSE
    /\ regs = InitRegs /\ dbo = 0 /\ answer = Zero

Next == \/ \E tms, trstn \in BOOLEAN : TckRise(tms, trstn) \/ BothRise(tms, trstn)
        \/ TckFall \/ FallAndCore \/ CoreClock \/ Reset

Spec == Init /\ [][Next]_vars

-----------------------------------------------------------------------------
(* Properties. *)

\* A scan that finds no request pending reads the answer to the last request.
AnswerIsOwn ==
    ThroughDmi /\ tap_state = "capture_dr" /\ ~pending /\ settle = 0 /\ answer # Any
        => response_payload = answer

\* No request gets lost: where all toggles have arrived and the core side does
\* nothing, none is pending, so that the host does not wait for ever.
Quiet ==
    /\ request_toggle = request_toggle_meta /\ request_toggle_meta = request_toggle_sync
    /\ ~newRequest /\ ~hardreset /\ ~request_active /\ ~read_capture
    /\ ~ResponseUnderWay
NothingLost == Quiet => ~pending

\* The transport is the channel of DmiChannel: each request takes effect once,
\* before the host sees its end, unless dtmhardreset gives it up, and nothing
\* else reaches the debug module.  The slot, seen from the toggles.
Slot == CASE ~pending -> "free"
          [] pending /\ (request_toggle # request_toggle_seen \/ dtm.en) -> "open"
          [] OTHER -> "done"

\* What the core side still does after a reset of the scan side.
Late == CASE letGo /\ dtm.en -> InAccess
          [] letGo /\ ~dtm.en /\ Slot = "free" /\ request_toggle # request_toggle_seen
             /\ request_payload.op # NOP -> request_payload
          [] OTHER -> Any

Channel == INSTANCE DmiChannel WITH
    Requests <- Requests, Write <- Stored, InitRegs <- InitRegs, Nothing <- Any,
    slot <- Slot, request <- request_payload, unsettled <- letGo,
    late <- Late

ChannelSpec == Channel!Spec

=============================================================================
