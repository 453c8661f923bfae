------------------------- MODULE DebugTransportProofs -------------------------
(***************************************************************************)
(* The debug transport loses no request and hands back no answer of an     *)
(* other one: for every set of registers and values, every requests of the *)
(* host, both front ends, and every interleaving of the two clocks.        *)
(***************************************************************************)
EXTENDS DebugTransport, TLAPS

\* The states that HostMayStep leaves to the TAP.
ScanStates == TapStates \ {"pause_dr", "exit2_dr"}

ScanType ==
    /\ request_toggle \in BOOLEAN /\ dtmhardreset_toggle \in BOOLEAN
    /\ response_toggle_meta \in BOOLEAN /\ response_toggle_sync \in BOOLEAN
    /\ frontEnd \in {"dtm", "ecp5"} /\ tck \in BOOLEAN /\ (tck => frontEnd = "ecp5")
    /\ tap_state \in ScanStates /\ instruction \in Instructions
    /\ dtmcs_shift_reg \in BOOLEAN /\ active_er1 \in BOOLEAN

CoreType ==
    /\ request_toggle_meta \in BOOLEAN /\ request_toggle_sync \in BOOLEAN
    /\ request_toggle_seen \in BOOLEAN /\ response_toggle \in BOOLEAN
    /\ dtmhardreset_toggle_meta \in BOOLEAN /\ dtmhardreset_toggle_sync \in BOOLEAN
    /\ dtmhardreset_toggle_seen \in BOOLEAN
    /\ request_active \in BOOLEAN /\ read_pending \in BOOLEAN /\ read_capture \in BOOLEAN
    /\ dtm.en \in BOOLEAN /\ DOMAIN dtm = {"en", "we", "adr", "dbi"}

TypeOK == ScanType /\ CoreType /\ settle \in 0 .. SettleEdges

\* The core side answers what it has taken, unless it still works on it.
Working ==
    /\ request_active \/ read_capture <=> response_toggle # request_toggle_seen
    /\ dtm.en <=> request_active
    /\ read_pending => request_active
    /\ ~(request_active /\ read_capture)

\* A DR scan of the ECP5 client through DTMCS has left the DMI register, and the
\* client remembers the shift until the next falling edge only.
ClientFollows ==
    /\ frontEnd = "ecp5" /\ active_er1
           /\ (tap_state \in {"shift_dr", "exit1_dr", "update_dr"}
                  \/ (tap_state = "capture_dr" /\ ~tck))
       => instruction # "DTMCS"
    /\ frontEnd = "ecp5" /\ jshift_d =>
           tap_state = "shift_dr" \/ (tck /\ tap_state \in {"exit1_dr", "test_logic_reset"})

\* The reset of the ECP5 TAP has cleared the front end.
ClientCleared ==
    frontEnd = "ecp5" /\ tap_state = "test_logic_reset" /\ ~tck
    => request_toggle = FALSE /\ request_payload = Zero

\* One core clock after the other the toggle of dtmhardreset arrives.
HardResetArrives ==
    /\ settle <= SettleEdges - 1 => dtmhardreset_toggle_meta = dtmhardreset_toggle
    /\ settle <= SettleEdges - 2 => dtmhardreset_toggle_sync = dtmhardreset_toggle
    /\ settle <= SettleEdges - 3 => dtmhardreset_toggle_seen = dtmhardreset_toggle

\* A scan that will send a request: nothing is under way any more.
WillSend ==
    /\ ThroughDmi
    /\ \/ tap_state \in {"capture_dr", "shift_dr", "exit1_dr"}
       \/ tap_state = "update_dr" /\ (frontEnd = "dtm" \/ tck)
Calm ==
    WillSend =>
        /\ settle = 0
        /\ request_toggle_meta = request_toggle /\ request_toggle_sync = request_toggle
        /\ request_toggle_seen = request_toggle /\ response_toggle = request_toggle
        /\ response_toggle_meta = request_toggle
        /\ tap_state # "capture_dr" => response_toggle_sync = request_toggle

\* After a reset of the scan side the core side follows, one clock after the other.
InReset == frontEnd = "ecp5" /\ tap_state = "test_logic_reset" /\ tck
Following ==
    /\ request_toggle = FALSE /\ request_payload = Zero
    /\ settle <= SettleEdges - 1 => request_toggle_meta = FALSE /\ ~request_active
    /\ settle <= SettleEdges - 2 => request_toggle_sync = FALSE /\ ~read_capture
    /\ settle <= SettleEdges - 3 => request_toggle_seen = FALSE

\* The toggle travels around, through seven registers, once for each request; that
\* of dtmhardreset never overtakes it.
Travelling ==
    /\ request_toggle_meta # request_toggle =>
           /\ request_toggle_sync = request_toggle_meta
           /\ dtmhardreset_toggle_meta = dtmhardreset_toggle_sync
    /\ request_toggle_sync # request_toggle =>
           /\ request_toggle_seen = request_toggle_sync
           /\ dtmhardreset_toggle_sync = dtmhardreset_toggle_seen
    /\ request_toggle_seen # request_toggle => response_toggle = request_toggle_seen
    /\ response_toggle # request_toggle => response_toggle_meta = response_toggle
    /\ response_toggle_meta # request_toggle => response_toggle_sync = response_toggle_meta

\* What will become the answer, in each stage of the work.
Expecting ==
    /\ request_toggle_seen # request_toggle \/ request_active =>
           answer = [op |-> SUCCESS, adr |-> request_payload.adr,
                     data |-> IF request_payload.op = READ THEN regs[request_payload.adr] ELSE 0]
    /\ request_active =>
           /\ dtm.we <=> request_payload.op # READ
           /\ read_pending <=> request_payload.op = READ
           /\ dtm.adr = request_payload.adr
    /\ request_active \/ read_capture =>
           response_payload = [op |-> SUCCESS, adr |-> request_payload.adr, data |-> 0]
    /\ read_capture =>
           answer = [op |-> SUCCESS, adr |-> request_payload.adr, data |-> dbo]
    /\ response_toggle = request_toggle /\ request_toggle_seen = request_toggle =>
           response_payload = answer

Answering ==
    IF answer = Any THEN InReset \/ Following ELSE Travelling /\ Expecting

TransportInv ==
    /\ TypeOK /\ Working /\ ClientFollows /\ ClientCleared
    /\ HardResetArrives /\ Calm /\ Answering

-----------------------------------------------------------------------------
(* The edges of TCK.                                                       *)

\* Where the TAP comes from (rtl/debug/tap_fsm.py).
LEMMA TapMoves ==
  ASSUME NEW s \in TapStates, NEW tms \in BOOLEAN
  PROVE  LET t == TapNext(s, tms)
         IN  /\ t \in TapStates
             /\ t = "capture_dr" => s = "select_dr_scan" /\ ~tms
             /\ t = "shift_dr" => s \in {"capture_dr", "shift_dr", "exit2_dr"}
             /\ t = "exit1_dr" => (s = "capture_dr" /\ tms) \/ s = "shift_dr"
             /\ t = "update_dr" => s \in {"exit1_dr", "exit2_dr"}
             /\ t = "pause_dr" => (s = "exit1_dr" /\ ~tms) \/ s = "pause_dr"
             /\ t = "exit2_dr" => s = "pause_dr"
             /\ s = "update_dr" => t \in {"run_test_idle", "select_dr_scan"}
<1>1. CASE s = "test_logic_reset" BY <1>1 DEF TapNext, TapStates
<1>2. CASE s = "run_test_idle" BY <1>2 DEF TapNext, TapStates
<1>3. CASE s = "select_dr_scan" BY <1>3 DEF TapNext, TapStates
<1>4. CASE s = "capture_dr" BY <1>4 DEF TapNext, TapStates
<1>5. CASE s = "shift_dr" BY <1>5 DEF TapNext, TapStates
<1>6. CASE s = "exit1_dr" BY <1>6 DEF TapNext, TapStates
<1>7. CASE s = "pause_dr" BY <1>7 DEF TapNext, TapStates
<1>8. CASE s = "exit2_dr" BY <1>8 DEF TapNext, TapStates
<1>9. CASE s = "update_dr" BY <1>9 DEF TapNext, TapStates
<1>10. CASE s = "select_ir_scan" BY <1>10 DEF TapNext, TapStates
<1>11. CASE s = "capture_ir" BY <1>11 DEF TapNext, TapStates
<1>12. CASE s = "shift_ir" BY <1>12 DEF TapNext, TapStates
<1>13. CASE s = "exit1_ir" BY <1>13 DEF TapNext, TapStates
<1>14. CASE s = "pause_ir" BY <1>14 DEF TapNext, TapStates
<1>15. CASE s = "exit2_ir" BY <1>15 DEF TapNext, TapStates
<1>16. CASE s = "update_ir" BY <1>16 DEF TapNext, TapStates
<1> QED
  BY <1>1, <1>2, <1>3, <1>4, <1>5, <1>6, <1>7, <1>8, <1>9, <1>10, <1>11, <1>12, <1>13, <1>14,
     <1>15, <1>16 DEF TapStates

\* The response toggle moves at a rising edge, the TAP then, too.
RisingSync == response_toggle_meta' = response_toggle /\ response_toggle_sync' = response_toggle_meta
FallingSync == UNCHANGED <<scanVars, tap_state>>

\* An edge that sends the request in the shift register.
Sends ==
    /\ WillSend /\ ~WillSend' /\ tap_state = "update_dr"
    /\ request_toggle' # request_toggle /\ request_payload' = dmi_shift_reg
    /\ UNCHANGED dtmhardreset_toggle
Silent == UNCHANGED <<request_toggle, request_payload>>

\* What an edge does that resets nothing, and what a reset of the scan side does.
Moves ==
    /\ ScanType' /\ ClientFollows' /\ ClientCleared'
    /\ RisingSync \/ FallingSync
    /\ Sends \/ Silent
    /\ WillSend' =>
           /\ UNCHANGED dtmhardreset_toggle
           /\ WillSend \/ (RisingSync /\ ~pending /\ settle = 0 /\ tap_state' = "capture_dr")
    /\ InReset => InReset' /\ UNCHANGED scanVars
Clears ==
    /\ ScanType' /\ ClientFollows' /\ ClientCleared' /\ ~WillSend'
    /\ \/ request_toggle' = FALSE /\ request_payload' = Zero
       \/ InReset' /\ ~InReset /\ Silent

\* A rising edge of TCK, in either front end.
LEMMA RiseMoves ==
  ASSUME ScanType, CoreType, ClientFollows, ClientCleared,
         NEW tms \in BOOLEAN, NEW trstn \in BOOLEAN, Rise(tms, trstn)
  PROVE  IF Cleared(~trstn) THEN Clears ELSE Moves
<1>1. /\ ~tck /\ tck' = (frontEnd = "ecp5") /\ HostMayStep(tms) /\ frontEnd' = frontEnd
      /\ frontEnd \in {"dtm", "ecp5"} /\ tap_state \in ScanStates /\ instruction \in Instructions
      /\ request_toggle \in BOOLEAN /\ dtmhardreset_toggle \in BOOLEAN
      /\ response_toggle \in BOOLEAN /\ response_toggle_meta \in BOOLEAN
      /\ response_toggle_sync \in BOOLEAN
      /\ dtmcs_shift_reg \in BOOLEAN /\ active_er1 \in BOOLEAN
  BY DEF ScanType, CoreType, Rise
<1>2. /\ tap_state = "capture_dr" => ~tms
      /\ tap_state = "exit1_dr" => tms
      /\ tap_state = "select_dr_scan" /\ ~tms /\ ThroughDmi => ~pending /\ settle = 0
  BY <1>1 DEF HostMayStep
<1>3. tap_state \in TapStates /\ tap_state \notin {"pause_dr", "exit2_dr"}
  BY <1>1 DEF ScanStates
<1>4. ~InReset /\ tck' \in BOOLEAN /\ (tck' <=> frontEnd = "ecp5")
  BY <1>1, Zenon DEF InReset
<1> DEFINE next == TapNext(tap_state, tms)
<1>5. /\ next \in ScanStates
      /\ next = "capture_dr" => tap_state = "select_dr_scan" /\ ~tms
      /\ next = "shift_dr" => tap_state \in {"capture_dr", "shift_dr"}
      /\ next = "exit1_dr" => tap_state = "shift_dr"
      /\ next = "update_dr" => tap_state = "exit1_dr"
      /\ tap_state = "update_dr" => next \in {"run_test_idle", "select_dr_scan"}
  <2>1. /\ next \in TapStates
        /\ next = "capture_dr" => tap_state = "select_dr_scan" /\ ~tms
        /\ next = "shift_dr" => tap_state \in {"capture_dr", "shift_dr", "exit2_dr"}
        /\ next = "exit1_dr" => (tap_state = "capture_dr" /\ tms) \/ tap_state = "shift_dr"
        /\ next = "update_dr" => tap_state \in {"exit1_dr", "exit2_dr"}
        /\ next = "pause_dr" => (tap_state = "exit1_dr" /\ ~tms) \/ tap_state = "pause_dr"
        /\ next = "exit2_dr" => tap_state = "pause_dr"
        /\ tap_state = "update_dr" => next \in {"run_test_idle", "select_dr_scan"}
    BY <1>3, TapMoves
  <2> HIDE DEF next
  <2> QED BY <1>2, <1>3, <2>1 DEF ScanStates
<1> HIDE DEF next
<1>6. ASSUME NEW cleared \in BOOLEAN, InstructionReg(tms, cleared)
      PROVE  /\ instruction' \in Instructions
             /\ ~cleared /\ tap_state \notin {"test_logic_reset", "update_ir"} =>
                    instruction' = instruction
  BY <1>1, <1>6 DEF InstructionReg, Instructions
<1>7. CASE frontEnd = "dtm"
  <2>1. DtmRise(tms, ~trstn) /\ (Cleared(~trstn) <=> ~trstn) /\ ~tck'
    BY <1>1, <1>4, <1>7 DEF Rise, Cleared
  <2>2. instruction' \in Instructions /\ active_er1' = active_er1
    BY <1>6, <2>1 DEF DtmRise, clientVars
  <2>3. ClientFollows' /\ ClientCleared'
    BY <1>1, <1>7 DEF ClientFollows, ClientCleared
  <2>4. CASE ~trstn
    <3>1. tap_state' = "test_logic_reset" /\ FrontReset /\ ScanSide(TRUE)
      BY <2>1, <2>4 DEF DtmRise, TapState
    <3>2. request_toggle' = FALSE /\ request_payload' = Zero /\ dtmhardreset_toggle' = FALSE
          /\ dtmcs_shift_reg' = FALSE /\ response_toggle_meta' = FALSE /\ response_toggle_sync' = FALSE
      BY <3>1 DEF FrontReset, ScanSide
    <3>3. ScanType'
      BY <1>1, <1>4, <1>7, <2>1, <2>2, <3>1, <3>2 DEF ScanType, ScanStates, TapStates
    <3>4. ~WillSend'
      BY <3>1 DEF WillSend
    <3> QED BY <2>1, <2>3, <2>4, <3>2, <3>3, <3>4 DEF Clears
  <2>5. CASE trstn
    <3>1. /\ tap_state' = next /\ DtmScan /\ RisingSync
          /\ tap_state \notin {"test_logic_reset", "update_ir"} => instruction' = instruction
      BY <1>6, <2>1, <2>5 DEF DtmRise, TapState, ScanSide, RisingSync, next
    <3>2. WillSend <=> /\ instruction = "DMI"
                       /\ tap_state \in {"capture_dr", "shift_dr", "exit1_dr", "update_dr"}
      BY <1>7 DEF WillSend, ThroughDmi
    <3>3. WillSend' <=> /\ instruction' = "DMI"
                        /\ tap_state' \in {"capture_dr", "shift_dr", "exit1_dr", "update_dr"}
      BY <1>1, <1>7 DEF WillSend, ThroughDmi
    <3>4. ThroughDmi <=> instruction = "DMI"
      BY <1>7 DEF ThroughDmi
    <3>5. WillSend' => WillSend \/ (~pending /\ settle = 0 /\ tap_state' = "capture_dr")
      BY <1>2, <1>5, <3>1, <3>2, <3>3, <3>4
    <3>6. /\ dtmcs_shift_reg' \in BOOLEAN
          /\ \/ UNCHANGED frontVars
             \/ tap_state = "update_dr" /\ instruction = "DMI" /\ UpdateDmi
             \/ tap_state = "update_dr" /\ instruction # "DMI" /\ UpdateDtmcs
      BY <1>1, <3>1, Zenon DEF DtmScan, CaptureDtmcs, ShiftDtmcs, shiftVars
    <3>7. tap_state = "update_dr" => ~WillSend'
      BY <1>5, <3>1, <3>3
    <3>8. /\ Sends \/ Silent
          /\ WillSend' => UNCHANGED dtmhardreset_toggle
          /\ request_toggle' \in BOOLEAN /\ dtmhardreset_toggle' \in BOOLEAN
      <4>1. CASE UNCHANGED frontVars
        BY <1>1, <4>1 DEF frontVars, Silent
      <4>2. CASE tap_state = "update_dr" /\ instruction = "DMI" /\ UpdateDmi
        BY <1>1, <3>2, <3>7, <4>2 DEF UpdateDmi, Sends
      <4>3. CASE tap_state = "update_dr" /\ instruction # "DMI" /\ UpdateDtmcs
        <5>1. dtmhardreset_toggle' \in BOOLEAN
          BY <4>3, Zenon DEF UpdateDtmcs
        <5> QED BY <1>1, <3>7, <4>3, <5>1 DEF UpdateDtmcs, Silent
      <4> QED BY <3>6, <4>1, <4>2, <4>3
    <3>9. ScanType'
      BY <1>1, <1>4, <1>5, <1>7, <2>1, <2>2, <3>1, <3>6, <3>8 DEF ScanType, RisingSync
    <3> QED BY <1>4, <2>1, <2>3, <2>5, <3>1, <3>5, <3>8, <3>9 DEF Moves
  <2> QED BY <2>4, <2>5
<1>8. CASE frontEnd = "ecp5"
  <2>1. Ecp5Rise(tms, ~trstn) /\ (Cleared(~trstn) <=> ~trstn \/ ~jrstn) /\ tck'
    BY <1>1, <1>4, <1>8 DEF Rise, Cleared, jrstn
  <2>2. /\ instruction' \in Instructions
        /\ UNCHANGED <<frontVars, shiftVars, clientVars>>
        /\ ScanSide(~trstn \/ ~jrstn)
    BY <1>6, <2>1 DEF Ecp5Rise
  <2>3. response_toggle_meta' \in BOOLEAN /\ response_toggle_sync' \in BOOLEAN
    BY <1>1, <2>2 DEF ScanSide
  <2>4. tap_state' = IF trstn THEN next ELSE "test_logic_reset"
    BY <2>1 DEF Ecp5Rise, TapState, next
  <2>5. ScanType'
    BY <1>1, <1>4, <1>5, <1>8, <2>1, <2>2, <2>3, <2>4
       DEF ScanType, ScanStates, TapStates, frontVars, shiftVars, clientVars
  <2>6. ClientCleared'
    BY <2>1 DEF ClientCleared
  <2>7. trstn /\ tap_state \notin {"test_logic_reset", "update_ir"} => instruction' = instruction
    BY <1>6, <2>1 DEF Ecp5Rise
  <2>8. ClientFollows'
    <3>4. jshift_d' => tap_state' = "shift_dr" \/ tap_state' \in {"exit1_dr", "test_logic_reset"}
      <4>1. jshift_d' => tap_state = "shift_dr"
        BY <1>1, <1>8, <2>2 DEF ClientFollows, clientVars
      <4>2. tap_state = "shift_dr" => next \in {"shift_dr", "exit1_dr"}
        BY DEF next, TapNext
      <4> QED BY <2>4, <4>1, <4>2
    <3>1. SUFFICES ASSUME active_er1, tap_state' \in {"shift_dr", "exit1_dr", "update_dr"}
                   PROVE  instruction' # "DTMCS"
      BY <2>1, <2>2, <3>4 DEF ClientFollows, clientVars
    <3>2. tap_state \in {"capture_dr", "shift_dr", "exit1_dr"} /\ trstn
      BY <1>5, <2>4, <3>1
    <3>3. instruction # "DTMCS" /\ instruction' = instruction
      BY <1>1, <1>8, <2>7, <3>1, <3>2 DEF ClientFollows
    <3> QED BY <3>3
  <2>9. CASE ~trstn \/ ~jrstn
    <3>1. ~WillSend'
      BY <1>5, <2>4, <2>9 DEF WillSend, jrstn
    <3>2. \/ request_toggle' = FALSE /\ request_payload' = Zero
          \/ InReset' /\ ~InReset /\ Silent
      <4>1. CASE ~trstn
        BY <1>1, <1>4, <1>8, <2>1, <2>2, <2>4, <4>1 DEF InReset, Silent, frontVars
      <4>2. CASE ~jrstn
        BY <1>1, <1>8, <2>2, <4>2 DEF ClientCleared, jrstn, frontVars
      <4> QED BY <2>9, <4>1, <4>2
    <3> QED BY <2>1, <2>5, <2>6, <2>8, <2>9, <3>1, <3>2 DEF Clears
  <2>10. CASE trstn /\ jrstn
    <3>1. RisingSync /\ tap_state' = next /\ Silent /\ UNCHANGED dtmhardreset_toggle
      BY <2>2, <2>4, <2>10 DEF ScanSide, RisingSync, Silent, frontVars
    <3>2. WillSend' => WillSend \/ (~pending /\ settle = 0 /\ tap_state' = "capture_dr")
      <4>1. SUFFICES ASSUME WillSend'
                     PROVE  WillSend \/ (~pending /\ settle = 0 /\ tap_state' = "capture_dr")
        OBVIOUS
      <4>2. /\ ThroughDmi' 
            /\ tap_state' \in {"capture_dr", "shift_dr", "exit1_dr", "update_dr"}
        BY <4>1 DEF WillSend
      <4>3. /\ tap_state \in {"select_dr_scan", "capture_dr", "shift_dr", "exit1_dr"}
            /\ tap_state = "select_dr_scan" => ~tms /\ tap_state' = "capture_dr"
        BY <1>5, <3>1, <4>2
      <4>4. ThroughDmi
        BY <1>1, <2>2, <2>7, <2>10, <4>2, <4>3 DEF ThroughDmi, clientVars
      <4> QED BY <1>2, <4>3, <4>4 DEF WillSend
    <3> QED BY <1>4, <2>1, <2>5, <2>6, <2>8, <2>10, <3>1, <3>2 DEF Moves
  <2> QED BY <2>1, <2>9, <2>10
<1> QED BY <1>1, <1>7, <1>8

\* A falling edge: only the ECP5 client acts.
LEMMA FallMoves ==
  ASSUME ScanType, CoreType, ClientFollows, ClientCleared, Fall
  PROVE  IF Cleared(FALSE) THEN Clears ELSE Moves
<1>1. /\ tck /\ frontEnd = "ecp5" /\ ~tck' /\ tck' \in BOOLEAN /\ frontEnd' = frontEnd
      /\ tap_state \in ScanStates /\ instruction \in Instructions
      /\ request_toggle \in BOOLEAN /\ dtmhardreset_toggle \in BOOLEAN
      /\ response_toggle_meta \in BOOLEAN /\ response_toggle_sync \in BOOLEAN
      /\ dtmcs_shift_reg \in BOOLEAN /\ active_er1 \in BOOLEAN
      /\ UNCHANGED <<tapVars, scanVars>>
  BY DEF ScanType, Fall, Ecp5Fall
<1>2. /\ Cleared(FALSE) <=> ~jrstn
      /\ tap_state' = tap_state /\ instruction' = instruction
      /\ response_toggle_meta' \in BOOLEAN /\ response_toggle_sync' \in BOOLEAN
  BY <1>1 DEF Cleared, jrstn, tapVars, scanVars
<1>3. CASE ~jrstn
  <2>1. FrontReset /\ active_er1' = FALSE
    BY <1>3 DEF Fall, Ecp5Fall, Select
  <2>2. /\ request_toggle' = FALSE /\ request_payload' = Zero /\ dtmhardreset_toggle' = FALSE
        /\ dtmcs_shift_reg' = FALSE
    BY <2>1 DEF FrontReset
  <2>3. ScanType' /\ ClientFollows' /\ ClientCleared' /\ ~WillSend'
    BY <1>1, <1>2, <1>3, <2>1, <2>2 DEF ScanType, Fall, Ecp5Fall, ClientFollows, ClientCleared, WillSend, jrstn
  <2> QED BY <1>2, <1>3, <2>2, <2>3 DEF Clears
<1>4. CASE jrstn
  <2>1. /\ Client /\ tap_state # "test_logic_reset" /\ jshift_d' = jshift
        /\ jshift_d => tap_state \in {"shift_dr", "exit1_dr"}
    BY <1>1, <1>4 DEF Fall, Ecp5Fall, jrstn, ClientFollows
  <2>2. /\ active_er1' \in BOOLEAN /\ dtmcs_shift_reg' \in BOOLEAN
        /\ active_er1' /\ ~active_er1 => instruction = "DMI"
        /\ active_er1' /\ tap_state = "capture_dr" => instruction # "DTMCS"
        /\ \/ UNCHANGED frontVars
           \/ tap_state = "update_dr" /\ active_er1' = active_er1 /\ active_er1 /\ UpdateDmi
           \/ tap_state = "update_dr" /\ active_er1' = active_er1 /\ ~active_er1 /\ UpdateDtmcs
    <3>1. \/ jce1 /\ ~jshift /\ Select(TRUE, FALSE) /\ UNCHANGED <<dtmcs_shift_reg, frontVars>>
          \/ jce2 /\ ~jshift /\ Select(FALSE, TRUE) /\ CaptureDtmcs /\ UNCHANGED frontVars
          \/ (jshift \/ jshift_d) /\ ClientShift
          \/ jupdate /\ ~jshift_d /\ ClientUpdate
          \/ jrt1 /\ Select(TRUE, FALSE) /\ UNCHANGED <<shiftVars, frontVars>>
          \/ jrt2 /\ Select(FALSE, TRUE) /\ UNCHANGED <<shiftVars, frontVars>>
          \/ /\ UNCHANGED <<shiftVars, frontVars, active_er1>>
             /\ ~jce1 \/ jshift
             /\ ~jce2 \/ jshift
      BY <2>1, Zenon DEF Client
    <3>2. CASE jce1 /\ Select(TRUE, FALSE) /\ UNCHANGED <<dtmcs_shift_reg, frontVars>>
      BY <1>1, <3>2 DEF Select, jce1
    <3>3. CASE Select(FALSE, TRUE) /\ CaptureDtmcs /\ UNCHANGED frontVars
      BY <1>1, <3>3 DEF Select, CaptureDtmcs
    <3>4. CASE (jshift \/ jshift_d) /\ ClientShift
      <4>1. UNCHANGED <<frontVars, active_er1>> /\ dtmcs_shift_reg' \in BOOLEAN
        BY <1>1, <3>4, Zenon DEF ClientShift, ShiftDtmcs, shiftVars
      <4>2. tap_state # "capture_dr"
        BY <2>1, <3>4 DEF jshift
      <4> QED BY <1>1, <4>1, <4>2
    <3>5. CASE jupdate /\ ClientUpdate
      <4>1. /\ UNCHANGED <<dtmcs_shift_reg, active_er1>>
            /\ (active_er1 /\ UpdateDmi) \/ (~active_er1 /\ UpdateDtmcs) \/ UNCHANGED frontVars
        BY <3>5, Zenon DEF ClientUpdate, shiftVars
      <4> QED BY <1>1, <3>5, <4>1 DEF jupdate
    <3>6. CASE jrt1 /\ Select(TRUE, FALSE) /\ UNCHANGED <<shiftVars, frontVars>>
      BY <1>1, <3>6 DEF Select, jrt1, shiftVars
    <3>7. CASE Select(FALSE, TRUE) /\ UNCHANGED <<shiftVars, frontVars>>
      BY <1>1, <3>7 DEF Select, shiftVars
    <3>8. CASE UNCHANGED <<shiftVars, frontVars, active_er1>> /\ (~jce2 \/ jshift)
      BY <1>1, <3>8 DEF shiftVars, jce2, jshift, ScanRegister
    <3> QED BY <3>1, <3>2, <3>3, <3>4, <3>5, <3>6, <3>7, <3>8
  <2>3. ClientCleared'
    BY <1>2, <2>1 DEF ClientCleared
  <2>4. ClientFollows'
    BY <1>1, <1>2, <2>1, <2>2 DEF ClientFollows, jshift
  <2>5. WillSend' => WillSend /\ tap_state # "update_dr"
    BY <1>1, <1>2, <2>2 DEF WillSend, ThroughDmi
  <2>6. /\ Sends \/ Silent
        /\ WillSend' => UNCHANGED dtmhardreset_toggle
        /\ request_toggle' \in BOOLEAN /\ dtmhardreset_toggle' \in BOOLEAN
    <3>1. CASE UNCHANGED frontVars
      BY <1>1, <3>1 DEF frontVars, Silent
    <3>2. CASE tap_state = "update_dr" /\ active_er1 /\ UpdateDmi
      <4>1. WillSend
        BY <1>1, <3>2 DEF WillSend, ThroughDmi, ClientFollows
      <4> QED BY <1>1, <2>5, <3>2, <4>1 DEF UpdateDmi, Sends
    <3>3. CASE tap_state = "update_dr" /\ ~active_er1 /\ UpdateDtmcs
      <4>1. dtmhardreset_toggle' \in BOOLEAN
        BY <3>3, Zenon DEF UpdateDtmcs
      <4> QED BY <1>1, <2>5, <3>3, <4>1 DEF UpdateDtmcs, Silent
    <3> QED BY <2>2, <3>1, <3>2, <3>3
  <2>7. ScanType'
    BY <1>1, <1>2, <2>2, <2>6 DEF ScanType
  <2>8. FallingSync /\ ~InReset
    BY <1>1, <1>2, <2>1 DEF FallingSync, InReset
  <2> QED BY <1>2, <1>4, <2>3, <2>4, <2>5, <2>6, <2>7, <2>8 DEF Moves
<1> QED BY <1>3, <1>4

-----------------------------------------------------------------------------
(* The core clock.                                                         *)

\* The bridge, one case after the other.
Aborts == hardreset /\ HardReset
Ends == ~hardreset /\ request_active /\ EndAccess
Captures == ~hardreset /\ ~request_active /\ read_capture /\ CaptureRead(dbo)
Takes == ~hardreset /\ ~request_active /\ ~read_capture /\ newRequest /\ TakeRequest
Rests == /\ ~hardreset /\ ~request_active /\ ~read_capture /\ ~newRequest
         /\ UNCHANGED <<request_toggle_seen, dtmhardreset_toggle_seen, workVars,
                        response_payload, response_toggle, dtm>>

\* A clock of the core side keeps what concerns it alone.
LEMMA CoreMoves ==
  ASSUME ScanType, CoreType, Working, Core
  PROVE  CoreType' /\ Working' /\ Synchronize /\ (Aborts \/ Ends \/ Captures \/ Takes \/ Rests)
<1>1. Synchronize /\ (Aborts \/ Ends \/ Captures \/ Takes \/ Rests)
  BY DEF Core, CoreSide, Aborts, Ends, Captures, Takes, Rests
<1>2. /\ request_toggle_meta' \in BOOLEAN /\ request_toggle_sync' \in BOOLEAN
      /\ dtmhardreset_toggle_meta' \in BOOLEAN /\ dtmhardreset_toggle_sync' \in BOOLEAN
  BY <1>1 DEF Synchronize, ScanType, CoreType
<1> DEFINE CoreKept ==
             /\ request_toggle_seen' \in BOOLEAN /\ response_toggle' \in BOOLEAN
             /\ dtmhardreset_toggle_seen' \in BOOLEAN
             /\ request_active' \in BOOLEAN /\ read_pending' \in BOOLEAN /\ read_capture' \in BOOLEAN
             /\ dtm'.en \in BOOLEAN /\ DOMAIN dtm' = {"en", "we", "adr", "dbi"}
             /\ Working'
<1>3. ASSUME Aborts PROVE CoreKept
  BY <1>3 DEF Aborts, HardReset, CoreType, Working
<1>4. ASSUME Ends PROVE CoreKept
  BY <1>4 DEF Ends, EndAccess, CoreType, Working
<1>5. ASSUME Captures PROVE CoreKept
  BY <1>5 DEF Captures, CaptureRead, CoreType, Working
<1>6. ASSUME Takes PROVE CoreKept
  BY <1>6 DEF Takes, TakeRequest, CoreType, Working, newRequest
<1>7. ASSUME Rests PROVE CoreKept
  BY <1>7 DEF Rests, CoreType, Working, workVars
<1> QED BY <1>1, <1>2, <1>3, <1>4, <1>5, <1>6, <1>7 DEF CoreType

-----------------------------------------------------------------------------
(* One step: an edge of TCK, of the core clock, or of both.                *)

Step(scan, core, trst) ==
    /\ scan => IF Cleared(trst) THEN Clears ELSE Moves
    /\ ~scan => UNCHANGED scanAll
    /\ core => Core
    /\ ~core => UNCHANGED <<coreVars, regs, dbo>>
    /\ Bookkeeping(scan, core, trst)

\* Where the scan side rests, it moves nothing.
LEMMA ScanRests ==
  ASSUME TransportInv, UNCHANGED scanAll
  PROVE  Moves /\ Silent /\ UNCHANGED dtmhardreset_toggle
<1>1. UNCHANGED <<frontVars, scanVars, frontEnd, tck, tap_state, instruction, dtmcs_shift_reg,
                  active_er1, jshift_d>>
  BY DEF scanAll, tapVars, shiftVars, clientVars
<1>2. ScanType' /\ ClientFollows' /\ ClientCleared'
  BY <1>1 DEF TransportInv, TypeOK, ScanType, ClientFollows, ClientCleared, frontVars, scanVars
<1>3. (WillSend' <=> WillSend) /\ (InReset => InReset' /\ UNCHANGED scanVars)
  BY <1>1 DEF WillSend, ThroughDmi, InReset
<1> QED BY <1>1, <1>2, <1>3 DEF Moves, FallingSync, Silent, frontVars

\* The counter of the host, and the toggle of dtmhardreset behind it.
LEMMA Counting ==
  ASSUME SettleEdges >= 3, TransportInv, NEW scan \in BOOLEAN, NEW core \in BOOLEAN,
         NEW trst \in BOOLEAN, Step(scan, core, trst)
  PROVE  /\ settle' \in 0 .. SettleEdges
         /\ scan /\ Cleared(trst) => settle' = SettleEdges
         /\ UNCHANGED dtmhardreset_toggle /\ ~(scan /\ Cleared(trst)) =>
                settle' = IF core /\ settle > 0 THEN settle - 1 ELSE settle
         /\ settle' = SettleEdges
            \/ /\ UNCHANGED dtmhardreset_toggle
               /\ settle' = IF core /\ settle > 0 THEN settle - 1 ELSE settle
         /\ core => dtmhardreset_toggle_seen' = dtmhardreset_toggle_sync
         /\ HardResetArrives'
<1>1. SettleEdges \in Nat /\ settle \in 0 .. SettleEdges
  BY SettleAssumption DEF TransportInv, TypeOK
<1>2. settle' = IF (scan /\ Cleared(trst)) \/ (scan /\ HardResetSent) THEN SettleEdges
                ELSE IF core /\ settle > 0 THEN settle - 1 ELSE settle
  BY DEF Step, Bookkeeping
<1>3. settle' \in 0 .. SettleEdges
  BY <1>1, <1>2
<1>4. ~scan => UNCHANGED dtmhardreset_toggle
  BY DEF Step, scanAll, frontVars
<1>5. HardResetSent <=> ~UNCHANGED dtmhardreset_toggle
  BY DEF HardResetSent
<1>6. settle' = SettleEdges
      \/ /\ UNCHANGED dtmhardreset_toggle
         /\ settle' = IF core /\ settle > 0 THEN settle - 1 ELSE settle
  BY <1>2, <1>4, <1>5
<1>7. core => Synchronize /\ dtmhardreset_toggle_seen' = dtmhardreset_toggle_sync
  <2>1. SUFFICES ASSUME core PROVE Synchronize /\ dtmhardreset_toggle_seen' = dtmhardreset_toggle_sync
    OBVIOUS
  <2>2. Synchronize /\ (Aborts \/ Ends \/ Captures \/ Takes \/ Rests)
    BY <2>1, CoreMoves DEF Step, TransportInv, TypeOK
  <2> QED
    BY <2>2 DEF Aborts, HardReset, Ends, EndAccess, Captures, CaptureRead, Takes, TakeRequest, Rests,
       hardreset
<1>8. ~core => UNCHANGED <<dtmhardreset_toggle_meta, dtmhardreset_toggle_sync,
                           dtmhardreset_toggle_seen>>
  BY DEF Step, coreVars, syncVars
<1>9. HardResetArrives'
  BY <1>1, <1>3, <1>6, <1>7, <1>8 DEF TransportInv, HardResetArrives, Synchronize
<1> QED BY <1>2, <1>3, <1>5, <1>6, <1>7, <1>9

\* While a scan is on its way to send a request, the core side rests.
LEMMA CoreRests ==
  ASSUME SettleEdges >= 3, TransportInv, settle = 0,
         request_toggle_meta = request_toggle, request_toggle_sync = request_toggle,
         request_toggle_seen = request_toggle, response_toggle = request_toggle,
         NEW core \in BOOLEAN, core => Core, ~core => UNCHANGED <<coreVars, regs, dbo>>
  PROVE  /\ request_toggle_meta' = request_toggle /\ request_toggle_sync' = request_toggle
         /\ request_toggle_seen' = request_toggle /\ response_toggle' = request_toggle
         /\ UNCHANGED <<request_active, read_capture, regs>> /\ ~request_active /\ ~read_capture
         /\ dtmhardreset_toggle_meta' = dtmhardreset_toggle
         /\ dtmhardreset_toggle_sync' = dtmhardreset_toggle
         /\ dtmhardreset_toggle_seen' = dtmhardreset_toggle
<1>1. SettleEdges \in Nat
  BY SettleAssumption
<1>2. /\ dtmhardreset_toggle_meta = dtmhardreset_toggle /\ dtmhardreset_toggle_sync = dtmhardreset_toggle
      /\ dtmhardreset_toggle_seen = dtmhardreset_toggle
  BY <1>1 DEF TransportInv, HardResetArrives
<1>3. ~request_active /\ ~read_capture /\ ~dtm.en
  BY DEF TransportInv, Working
<1>4. CASE core
  <2>1. Synchronize /\ (Aborts \/ Ends \/ Captures \/ Takes \/ Rests)
    BY <1>4, CoreMoves DEF TransportInv, TypeOK
  <2>2. Rests
    BY <1>2, <1>3, <2>1 DEF Aborts, Ends, Captures, Takes, hardreset, newRequest
  <2>3. regs' = regs
    BY <1>3, <1>4 DEF Core, DebugModule
  <2> QED BY <1>2, <1>3, <2>1, <2>2, <2>3 DEF Rests, Synchronize, workVars
<1>5. CASE ~core
  BY <1>2, <1>3, <1>5 DEF coreVars, syncVars, workVars
<1> QED BY <1>4, <1>5

\* A scan that will send a request finds everything at rest, and leaves it so.
LEMMA CalmKept ==
  ASSUME SettleEdges >= 3, TransportInv, NEW scan \in BOOLEAN, NEW core \in BOOLEAN,
         NEW trst \in BOOLEAN, Step(scan, core, trst)
  PROVE  Calm'
<1>1. SUFFICES ASSUME WillSend' PROVE Calm'
  BY DEF Calm
<1>2. ~(scan /\ Cleared(trst)) /\ Moves
  BY <1>1, ScanRests DEF Step, Clears
<1>3. /\ UNCHANGED dtmhardreset_toggle /\ Silent
      /\ RisingSync \/ FallingSync
      /\ WillSend \/ (RisingSync /\ ~pending /\ settle = 0 /\ tap_state' = "capture_dr")
      /\ ~InReset
  BY <1>1, <1>2 DEF Moves, Sends, InReset, WillSend
<1>4. /\ settle = 0
      /\ request_toggle_meta = request_toggle /\ request_toggle_sync = request_toggle
      /\ request_toggle_seen = request_toggle /\ response_toggle = request_toggle
      /\ RisingSync \/ response_toggle_meta = request_toggle
      /\ tap_state' = "capture_dr" \/ response_toggle_meta = request_toggle
  <2>1. CASE WillSend
    BY <2>1 DEF TransportInv, Calm
  <2>2. CASE RisingSync /\ ~pending /\ settle = 0 /\ tap_state' = "capture_dr"
    <3>1. CASE answer = Any
      <4>1. Following
        BY <1>3, <3>1 DEF TransportInv, Answering
      <4>2. SettleEdges \in Nat
        BY SettleAssumption
      <4>3. /\ request_toggle = FALSE /\ request_toggle_meta = FALSE /\ request_toggle_sync = FALSE
            /\ request_toggle_seen = FALSE /\ ~request_active /\ ~read_capture
        BY <2>2, <4>1, <4>2 DEF Following
      <4>4. response_toggle = request_toggle_seen
        BY <4>3 DEF TransportInv, Working
      <4> QED BY <2>2, <4>3, <4>4
    <3>2. CASE answer # Any
      <4>1. Travelling
        BY <3>2 DEF TransportInv, Answering
      <4>2. TypeOK
        BY DEF TransportInv
      <4> QED BY <2>2, <4>1, <4>2 DEF Travelling, pending, TypeOK, ScanType, CoreType
    <3> QED BY <3>1, <3>2
  <2> QED BY <1>3, <2>1, <2>2
<1>5. /\ request_toggle_meta' = request_toggle /\ request_toggle_sync' = request_toggle
      /\ request_toggle_seen' = request_toggle /\ response_toggle' = request_toggle
  BY <1>4, CoreRests DEF Step
<1>6. settle' = 0
  BY <1>2, <1>3, <1>4, Counting
<1>7. /\ response_toggle_meta' = request_toggle
      /\ tap_state' # "capture_dr" => response_toggle_sync' = request_toggle
  <2>1. CASE RisingSync
    BY <1>4, <2>1 DEF RisingSync
  <2>2. CASE FallingSync
    <3>1. response_toggle_meta = request_toggle
      BY <1>3, <1>4, <2>2 DEF TransportInv, Calm, RisingSync, FallingSync, scanVars
    <3>2. tap_state # "capture_dr" /\ WillSend => response_toggle_sync = request_toggle
      BY DEF TransportInv, Calm
    <3> QED BY <1>3, <2>2, <3>1, <3>2 DEF FallingSync, scanVars
  <2> QED BY <1>3, <2>1, <2>2
<1> QED BY <1>3, <1>5, <1>6, <1>7 DEF Calm, Silent

\* The core side follows after a reset of the scan side.
LEMMA FollowingKept ==
  ASSUME SettleEdges >= 3, TransportInv, NEW scan \in BOOLEAN, NEW core \in BOOLEAN,
         NEW trst \in BOOLEAN, Step(scan, core, trst), Following, Silent
  PROVE  Following'
<1>1. /\ SettleEdges \in Nat /\ settle \in 0 .. SettleEdges /\ settle' \in 0 .. SettleEdges
      /\ settle' = SettleEdges \/ settle' = IF core /\ settle > 0 THEN settle - 1 ELSE settle
  BY SettleAssumption, Counting DEF TransportInv, TypeOK
<1>2. /\ request_toggle = FALSE /\ request_payload = Zero
      /\ settle <= SettleEdges - 1 => request_toggle_meta = FALSE /\ ~request_active
      /\ settle <= SettleEdges - 2 => request_toggle_sync = FALSE /\ ~read_capture
      /\ settle <= SettleEdges - 3 => request_toggle_seen = FALSE
  BY DEF Following
<1>3. request_toggle' = FALSE /\ request_payload' = Zero
  BY <1>2 DEF Silent
<1>4. CASE ~core
  <2>1. UNCHANGED <<request_toggle_meta, request_toggle_sync, request_toggle_seen,
                    request_active, read_capture>>
    BY <1>4 DEF Step, coreVars, syncVars, workVars
  <2> QED BY <1>1, <1>2, <1>3, <1>4, <2>1 DEF Following
<1>5. CASE core
  <2>1. Synchronize /\ (Aborts \/ Ends \/ Captures \/ Takes \/ Rests)
    BY <1>5, CoreMoves DEF Step, TransportInv, TypeOK
  <2>2. request_toggle_meta' = FALSE /\ request_toggle_sync' = request_toggle_meta
    BY <1>2, <2>1 DEF Synchronize
  <2>3. /\ ~request_active'
        /\ ~request_active => ~read_capture'
        /\ ~request_active /\ ~read_capture => request_toggle_seen' = request_toggle_sync
    <3>1. CASE Aborts BY <3>1 DEF Aborts, HardReset
    <3>2. CASE Ends BY <3>2 DEF Ends, EndAccess
    <3>3. CASE Captures BY <3>3 DEF Captures, CaptureRead
    <3>4. CASE Takes
      <4>1. request_payload.op \notin {READ, WRITE}
        BY <1>2 DEF Zero, READ, WRITE
      <4> QED BY <3>4, <4>1 DEF Takes, TakeRequest
    <3>5. CASE Rests BY <3>5 DEF Rests, newRequest, workVars
    <3> QED BY <2>1, <3>1, <3>2, <3>3, <3>4, <3>5
  <2> QED BY <1>1, <1>2, <1>3, <1>5, <2>2, <2>3 DEF Following
<1> QED BY <1>4, <1>5

\* An edge that sends a request: its toggle is the only one that has changed.
LEMMA RequestSent ==
  ASSUME SettleEdges >= 3, TransportInv, NEW scan \in BOOLEAN, NEW core \in BOOLEAN,
         NEW trst \in BOOLEAN, Step(scan, core, trst), scan, ~Cleared(trst), Sends
  PROVE  Answering'
<1>1. /\ settle = 0
      /\ request_toggle_meta = request_toggle /\ request_toggle_sync = request_toggle
      /\ request_toggle_seen = request_toggle /\ response_toggle = request_toggle
      /\ response_toggle_meta = request_toggle /\ response_toggle_sync = request_toggle
  BY DEF TransportInv, Calm, Sends
<1>2. /\ request_toggle_meta' = request_toggle /\ request_toggle_sync' = request_toggle
      /\ request_toggle_seen' = request_toggle /\ response_toggle' = request_toggle
      /\ ~request_active' /\ ~read_capture'
      /\ dtmhardreset_toggle_meta' = dtmhardreset_toggle
      /\ dtmhardreset_toggle_sync' = dtmhardreset_toggle
      /\ dtmhardreset_toggle_seen' = dtmhardreset_toggle
  BY <1>1, CoreRests DEF Step
<1>3. response_toggle_meta' = request_toggle /\ response_toggle_sync' = request_toggle
  BY <1>1 DEF Step, Moves, RisingSync, FallingSync, scanVars
<1>4. request_toggle' # request_toggle /\ request_payload' = dmi_shift_reg
  BY DEF Sends
<1>5. answer' = [op |-> SUCCESS, adr |-> dmi_shift_reg.adr,
                 data |-> IF dmi_shift_reg.op = READ THEN regs'[dmi_shift_reg.adr] ELSE 0]
  <2>1. Sent
    BY <1>4 DEF Sent
  <2> QED BY <2>1, Zenon DEF Step, Bookkeeping
<1>6. answer' # Any
  <2>1. answer'.op = 0 /\ Any.op = 3
    BY <1>5 DEF SUCCESS, NOP, Any, BUSY
  <2> QED BY <2>1
<1>7. Travelling'
  BY <1>2, <1>3, <1>4 DEF Travelling
<1>8. Expecting'
  BY <1>2, <1>4, <1>5 DEF Expecting
<1> QED BY <1>6, <1>7, <1>8 DEF Answering

\* dtmhardreset gives the request up; it has arrived by then, and gets an answer.
LEMMA RequestAborted ==
  ASSUME SettleEdges >= 3, TransportInv, Aborts, Synchronize, Moves, Silent,
         answer # Any, answer' = Zero
  PROVE  Answering'
<1>1. TypeOK /\ Travelling
  BY DEF TransportInv, Answering
<1>2. request_toggle_meta = request_toggle /\ request_toggle_sync = request_toggle
  BY <1>1 DEF Travelling, Aborts, hardreset
<1>3. /\ request_toggle_meta' = request_toggle /\ request_toggle_sync' = request_toggle
      /\ request_toggle_seen' = request_toggle /\ response_toggle' = request_toggle
      /\ ~request_active' /\ ~read_capture' /\ response_payload' = Zero
      /\ request_toggle' = request_toggle
  BY <1>2 DEF Aborts, HardReset, Synchronize, Silent
<1>4. response_toggle_meta' # request_toggle => response_toggle_sync' = response_toggle_meta'
  <2>1. CASE RisingSync
    BY <1>1, <2>1 DEF RisingSync, Travelling, TypeOK, ScanType, CoreType
  <2>2. CASE FallingSync
    BY <1>1, <2>2 DEF FallingSync, Travelling, scanVars
  <2> QED BY <2>1, <2>2 DEF Moves
<1>5. Travelling' /\ Expecting'
  BY <1>3, <1>4 DEF Travelling, Expecting
<1>6. Zero # Any
  <2>1. Zero.op = 0 /\ Any.op = 3
    BY DEF Zero, Any, BUSY
  <2> QED BY <2>1
<1> QED BY <1>5, <1>6 DEF Answering

\* The toggle travels on.
LEMMA TravellingKept ==
  ASSUME TransportInv, Travelling, Moves, Silent, NEW core \in BOOLEAN,
         core => Core, ~core => UNCHANGED <<coreVars, regs, dbo>>, core => ~hardreset
  PROVE  Travelling'
<1>1. TypeOK /\ Working /\ request_toggle' = request_toggle /\ (RisingSync \/ FallingSync)
  BY DEF TransportInv, Moves, Silent
<1>2. CASE ~core
  <2>1. UNCHANGED <<request_toggle_meta, request_toggle_sync, request_toggle_seen, response_toggle,
                    dtmhardreset_toggle_meta, dtmhardreset_toggle_sync, dtmhardreset_toggle_seen>>
    BY <1>2 DEF coreVars, syncVars
  <2>2. CASE RisingSync
    BY <1>1, <2>1, <2>2 DEF RisingSync, Travelling, TypeOK, ScanType, CoreType
  <2>3. CASE FallingSync
    BY <1>1, <2>1, <2>3 DEF FallingSync, Travelling, scanVars
  <2> QED BY <1>1, <2>2, <2>3
<1>3. CASE core
  <2>1. Synchronize /\ (Ends \/ Captures \/ Takes \/ Rests)
    BY <1>3, CoreMoves DEF TransportInv, TypeOK, Aborts
  <2>2. dtmhardreset_toggle_seen' = dtmhardreset_toggle_sync
    BY <1>3, <2>1 DEF Ends, EndAccess, Captures, CaptureRead, Takes, TakeRequest, Rests, hardreset
  <2>3. /\ request_toggle_seen' \in {request_toggle_seen, request_toggle_sync}
        /\ response_toggle' \in {response_toggle, request_toggle_seen'}
        /\ request_toggle_seen' # request_toggle_sync => response_toggle # request_toggle_seen
        /\ response_toggle' # response_toggle => request_toggle_seen' = request_toggle_sync
    <3>1. CASE Ends
      <4>1. response_toggle # request_toggle_seen
        BY <1>1, <3>1 DEF Ends, Working
      <4>2. request_toggle_seen = request_toggle_sync
        BY <1>1, <4>1 DEF Travelling, TypeOK, ScanType, CoreType
      <4> QED BY <3>1, <4>1, <4>2 DEF Ends, EndAccess
    <3>2. CASE Captures
      <4>1. response_toggle # request_toggle_seen
        BY <1>1, <3>2 DEF Captures, Working
      <4>2. request_toggle_seen = request_toggle_sync
        BY <1>1, <4>1 DEF Travelling, TypeOK, ScanType, CoreType
      <4> QED BY <3>2, <4>1, <4>2 DEF Captures, CaptureRead
    <3>3. CASE Takes
      BY <3>3 DEF Takes, TakeRequest
    <3>4. CASE Rests
      BY <3>4 DEF Rests, newRequest
    <3> QED BY <2>1, <3>1, <3>2, <3>3, <3>4
  <2>4. /\ request_toggle_meta' = request_toggle /\ request_toggle_sync' = request_toggle_meta
        /\ dtmhardreset_toggle_sync' = dtmhardreset_toggle_meta
    BY <2>1 DEF Synchronize
  <2>5. response_toggle_meta' # request_toggle => response_toggle_sync' = response_toggle_meta'
    <3>1. CASE RisingSync
      BY <1>1, <3>1 DEF RisingSync, Travelling, TypeOK, ScanType, CoreType
    <3>2. CASE FallingSync
      BY <1>1, <3>2 DEF FallingSync, Travelling, scanVars
    <3> QED BY <1>1, <3>1, <3>2
  <2>6. response_toggle' # request_toggle => response_toggle_meta' = response_toggle'
    <3>1. SUFFICES ASSUME response_toggle' # request_toggle
                   PROVE  response_toggle_meta' = response_toggle'
      OBVIOUS
    <3>2. response_toggle' = response_toggle
      BY <1>1, <2>3, <3>1 DEF Travelling, TypeOK, ScanType, CoreType
    <3>3. CASE RisingSync
      BY <3>2, <3>3 DEF RisingSync
    <3>4. CASE FallingSync
      BY <3>1, <3>2, <3>4 DEF FallingSync, Travelling, scanVars
    <3> QED BY <1>1, <3>3, <3>4
  <2>7. request_toggle_seen' # request_toggle => response_toggle' = request_toggle_seen'
    BY <1>1, <2>3 DEF Travelling, TypeOK, ScanType, CoreType
  <2>8. request_toggle_sync' # request_toggle =>
            /\ request_toggle_seen' = request_toggle_sync'
            /\ dtmhardreset_toggle_sync' = dtmhardreset_toggle_seen'
    BY <1>1, <2>2, <2>3, <2>4 DEF Travelling, TypeOK, ScanType, CoreType
  <2> QED BY <1>1, <2>4, <2>5, <2>6, <2>7, <2>8 DEF Travelling
<1> QED BY <1>2, <1>3

\* The answer stays the one of the request, from its way to the core side until the
\* host fetches it.
LEMMA ExpectingKept ==
  ASSUME TransportInv, Travelling, Expecting, Silent, NEW core \in BOOLEAN,
         core => Core, ~core => UNCHANGED <<coreVars, regs, dbo>>, core => ~hardreset,
         UNCHANGED answer
  PROVE  Expecting'
<1>1. /\ TypeOK /\ Working /\ request_toggle' = request_toggle
      /\ request_payload' = request_payload
  BY DEF TransportInv, Silent
<1>2. CASE ~core
  BY <1>1, <1>2 DEF coreVars, workVars, Expecting
<1>3. CASE core
  <2>1. (Ends \/ Captures \/ Takes \/ Rests) /\ DebugModule
    BY <1>3, CoreMoves DEF TransportInv, TypeOK, Aborts, Core
  <2>2. /\ ~dtm.en => regs' = regs
        /\ dbo' = IF dtm.en /\ ~dtm.we THEN regs[dtm.adr] ELSE 0
        /\ dtm.en <=> request_active
    BY <1>1, <2>1 DEF DebugModule, Working
  <2>3. CASE Ends
    <3>1. /\ ~request_active' /\ (read_capture' <=> read_pending) /\ dtm.en
          /\ UNCHANGED <<request_toggle_seen, response_payload>>
      BY <1>1, <2>2, <2>3 DEF Ends, EndAccess, Working
    <3>2. request_toggle_seen = request_toggle
      BY <1>1, <2>3 DEF Ends, Travelling, Working
    <3>3. /\ answer = [op |-> SUCCESS, adr |-> request_payload.adr,
                       data |-> IF request_payload.op = READ THEN regs[request_payload.adr] ELSE 0]
          /\ dtm.we <=> request_payload.op # READ
          /\ read_pending <=> request_payload.op = READ
          /\ dtm.adr = request_payload.adr
          /\ response_payload = [op |-> SUCCESS, adr |-> request_payload.adr, data |-> 0]
      BY <2>3 DEF Ends, Expecting
    <3>4. read_pending => dbo' = regs[request_payload.adr]
      BY <2>2, <3>1, <3>3
    <3>5. read_capture' => response_toggle' # request_toggle
      BY <1>1, <2>3, <3>1, <3>2 DEF Ends, EndAccess, Working
    <3> QED BY <1>1, <3>1, <3>2, <3>3, <3>4, <3>5 DEF Expecting
  <2>4. CASE Captures
    <3>1. /\ ~request_active' /\ ~read_capture' /\ UNCHANGED request_toggle_seen
          /\ response_payload' = [response_payload EXCEPT !.op = SUCCESS, !.data = dbo]
      BY <2>4 DEF Captures, CaptureRead
    <3>2. request_toggle_seen = request_toggle
      BY <1>1, <2>4 DEF Captures, Travelling, Working
    <3>3. /\ response_payload = [op |-> SUCCESS, adr |-> request_payload.adr, data |-> 0]
          /\ answer = [op |-> SUCCESS, adr |-> request_payload.adr, data |-> dbo]
      BY <2>4 DEF Captures, Expecting
    <3>4. response_payload' = [op |-> SUCCESS, adr |-> request_payload.adr, data |-> dbo]
      BY <3>1, <3>3
    <3>5. response_payload' = answer'
      BY <3>3, <3>4
    <3> QED BY <1>1, <3>1, <3>2, <3>5 DEF Expecting
  <2>5. CASE Takes
    <3> DEFINE r == request_payload
    <3> DEFINE access == r.op \in {READ, WRITE}
    <3>1. /\ request_toggle_seen' = request_toggle_sync /\ dtm' = [en |-> access, we |-> r.op = WRITE,
                                                                   adr |-> r.adr, dbi |-> r.data]
          /\ response_payload' = [op |-> SUCCESS, adr |-> r.adr, data |-> 0]
          /\ request_active' = access /\ read_pending' = (r.op = READ \/ read_pending)
          /\ ~read_capture' /\ ~request_active /\ request_toggle_sync # request_toggle_seen
      BY <2>5 DEF Takes, TakeRequest, newRequest
    <3>2. ~read_pending /\ ~dtm.en /\ regs' = regs
      BY <1>1, <2>2, <3>1 DEF Working
    <3>3. request_toggle_sync = request_toggle /\ request_toggle_seen # request_toggle
      BY <1>1, <3>1 DEF Travelling, TypeOK, ScanType, CoreType
    <3>4. answer = [op |-> SUCCESS, adr |-> r.adr,
                    data |-> IF r.op = READ THEN regs[r.adr] ELSE 0]
      BY <3>3 DEF Expecting
    <3>5. /\ request_active' <=> access
          /\ read_pending' <=> r.op = READ
          /\ dtm'.we <=> r.op = WRITE
          /\ dtm'.adr = r.adr /\ READ # WRITE
      <4>1. (request_active' <=> access) /\ (read_pending' <=> r.op = READ)
        BY <3>1, <3>2, Zenon
      <4>2. dtm'.we = (r.op = WRITE) /\ dtm'.adr = r.adr
        BY <3>1
      <4>3. dtm'.we <=> r.op = WRITE
        BY <4>2, Zenon
      <4> QED BY <4>1, <4>2, <4>3 DEF READ, WRITE
    <3>6. access => response_toggle' # request_toggle_seen'
      BY <1>1, <2>5, <3>1, <3>3 DEF Takes, TakeRequest, Working
    <3> QED BY <1>1, <3>1, <3>2, <3>3, <3>4, <3>5, <3>6 DEF Expecting
  <2>6. CASE Rests
    <3>1. /\ ~request_active' /\ ~read_capture' /\ regs' = regs
          /\ UNCHANGED <<request_toggle_seen, response_toggle, response_payload>>
      BY <2>2, <2>6 DEF Rests, workVars
    <3> QED BY <1>1, <3>1 DEF Expecting
  <2> QED BY <2>1, <2>3, <2>4, <2>5, <2>6
<1> QED BY <1>2, <1>3

-----------------------------------------------------------------------------
(* The invariants.                                                         *)

\* What holds of the bridge whatever the host does.
BridgeInv == ScanType /\ CoreType /\ Working /\ ClientFollows /\ ClientCleared

\* Every edge is a step.
LEMMA EdgeIsStep ==
  ASSUME BridgeInv, Next, ~Reset
  PROVE  \E scan, core, trst \in BOOLEAN : Step(scan, core, trst)
<1>1. ScanType /\ CoreType /\ ClientFollows /\ ClientCleared
  BY DEF BridgeInv
<1>2. ASSUME NEW tms \in BOOLEAN, NEW trstn \in BOOLEAN, TckRise(tms, trstn)
      PROVE  Step(TRUE, FALSE, ~trstn)
  BY <1>1, <1>2, RiseMoves DEF TckRise, Step
<1>3. ASSUME NEW tms \in BOOLEAN, NEW trstn \in BOOLEAN, BothRise(tms, trstn)
      PROVE  Step(TRUE, TRUE, ~trstn)
  BY <1>1, <1>3, RiseMoves DEF BothRise, Step
<1>4. TckFall => Step(TRUE, FALSE, FALSE)
  BY <1>1, FallMoves DEF TckFall, Step
<1>5. FallAndCore => Step(TRUE, TRUE, FALSE)
  BY <1>1, FallMoves DEF FallAndCore, Step
<1>6. CoreClock => Step(FALSE, TRUE, FALSE)
  BY DEF CoreClock, Step
<1>7. \A trstn \in BOOLEAN : (~trstn) \in BOOLEAN
  BY Zenon
<1>8. /\ TRUE \in BOOLEAN /\ FALSE \in BOOLEAN
  BY Zenon
<1>9. CASE \E tms, trstn \in BOOLEAN : TckRise(tms, trstn) \/ BothRise(tms, trstn)
  <2>1. PICK tms \in BOOLEAN, trstn \in BOOLEAN : TckRise(tms, trstn) \/ BothRise(tms, trstn)
    BY <1>9
  <2>2. Step(TRUE, FALSE, ~trstn) \/ Step(TRUE, TRUE, ~trstn)
    BY <1>2, <1>3, <2>1
  <2> QED BY <1>7, <1>8, <2>2, Zenon
<1>10. CASE TckFall \/ FallAndCore \/ CoreClock
  BY <1>4, <1>5, <1>6, <1>8, <1>10, Zenon
<1> QED BY <1>9, <1>10 DEF Next

\* Reset clears both sides of the bridge and the TAP.
LEMMA ResetClears ==
  ASSUME ScanType, Reset
  PROVE  /\ request_toggle' = FALSE /\ dtmhardreset_toggle' = FALSE
         /\ response_toggle_meta' = FALSE /\ response_toggle_sync' = FALSE
         /\ request_toggle_meta' = FALSE /\ request_toggle_sync' = FALSE
         /\ request_toggle_seen' = FALSE /\ response_toggle' = FALSE
         /\ dtmhardreset_toggle_meta' = FALSE /\ dtmhardreset_toggle_sync' = FALSE
         /\ dtmhardreset_toggle_seen' = FALSE
         /\ tap_state' = "test_logic_reset" /\ request_payload' = Zero /\ response_payload' = Zero
         /\ request_active' = FALSE /\ read_capture' = FALSE
         /\ settle' = 0 /\ answer' = Zero
         /\ BridgeInv'
<1>1. /\ request_toggle' = FALSE /\ dtmhardreset_toggle' = FALSE
      /\ response_toggle_meta' = FALSE /\ response_toggle_sync' = FALSE
      /\ request_toggle_meta' = FALSE /\ request_toggle_sync' = FALSE
      /\ request_toggle_seen' = FALSE /\ response_toggle' = FALSE
      /\ dtmhardreset_toggle_meta' = FALSE /\ dtmhardreset_toggle_sync' = FALSE
      /\ dtmhardreset_toggle_seen' = FALSE
      /\ tap_state' = "test_logic_reset" /\ instruction' = "IDCODE"
      /\ request_payload' = Zero /\ response_payload' = Zero
      /\ request_active' = FALSE /\ read_pending' = FALSE /\ read_capture' = FALSE
      /\ settle' = 0 /\ answer' = Zero
      /\ dtmcs_shift_reg' = FALSE /\ active_er1' = FALSE /\ jshift_d' = FALSE
      /\ dtm' = [en |-> FALSE, we |-> FALSE, adr |-> 0, dbi |-> 0]
      /\ UNCHANGED <<frontEnd, tck>>
  BY DEF Reset, CoreSide, CoreReset, FrontReset, ScanSide, TapState, InstructionReg, Select
<1>2. ScanType'
  BY <1>1 DEF ScanType, ScanStates, TapStates, Instructions
<1>3. CoreType' /\ Working' /\ ClientFollows' /\ ClientCleared'
  BY <1>1 DEF CoreType, Working, ClientFollows, ClientCleared
<1> QED BY <1>1, <1>2, <1>3 DEF BridgeInv

\* Initially as after a reset.
LEMMA BridgeStarts ==
  ASSUME Init
  PROVE  BridgeInv
<1>1. frontEnd \in {"dtm", "ecp5"}
  BY FrontEndsAssumption DEF Init
<1> QED
  BY <1>1 DEF Init, BridgeInit, BridgeInv, ScanType, CoreType, Working, ClientFollows, ClientCleared,
     ScanStates, TapStates, Instructions

\* Every step of the transport keeps the invariant of the bridge.
LEMMA BridgeKept ==
  ASSUME BridgeInv, [Next]_vars
  PROVE  BridgeInv'
<1>1. CASE Next /\ ~Reset
  <2>1. PICK scan \in BOOLEAN, core \in BOOLEAN, trst \in BOOLEAN : Step(scan, core, trst)
    BY <1>1, EdgeIsStep
  <2>2. ScanType' /\ ClientFollows' /\ ClientCleared'
    <3>1. CASE scan
      BY <2>1, <3>1 DEF Step, Moves, Clears
    <3>2. CASE ~scan
      <4>1. UNCHANGED <<frontVars, scanVars, frontEnd, tck, tap_state, instruction, dtmcs_shift_reg,
                        active_er1, jshift_d>>
        BY <2>1, <3>2 DEF Step, scanAll, tapVars, shiftVars, clientVars
      <4> QED
        BY <4>1 DEF BridgeInv, ScanType, ClientFollows, ClientCleared, frontVars, scanVars
    <3> QED BY <3>1, <3>2
  <2>3. CoreType' /\ Working'
    <3>1. CASE core
      BY <2>1, <3>1, CoreMoves DEF Step, BridgeInv
    <3>2. CASE ~core
      BY <2>1, <3>2 DEF Step, BridgeInv, CoreType, Working, coreVars, syncVars, workVars
    <3> QED BY <3>1, <3>2
  <2> QED BY <2>2, <2>3 DEF BridgeInv
<1>2. CASE Reset
  BY <1>2, ResetClears DEF BridgeInv
<1>3. CASE UNCHANGED vars
  BY <1>3 DEF vars, scanAll, coreVars, frontVars, scanVars, syncVars, workVars, tapVars, shiftVars,
     clientVars, BridgeInv, ScanType, CoreType, Working, ClientFollows, ClientCleared
<1> QED BY <1>1, <1>2, <1>3

\* Every step of the transport keeps the invariant of requests and answers.
LEMMA TransportKept ==
  ASSUME SettleEdges >= 3, TransportInv, [Next]_vars
  PROVE  TransportInv'
<1>1. BridgeInv
  BY DEF TransportInv, TypeOK, BridgeInv
<1>2. BridgeInv'
  BY <1>1, BridgeKept
<1>3. CASE Next /\ ~Reset
  <2>1. PICK scan \in BOOLEAN, core \in BOOLEAN, trst \in BOOLEAN : Step(scan, core, trst)
    BY <1>1, <1>3, EdgeIsStep
  <2>2. settle' \in 0 .. SettleEdges /\ HardResetArrives' /\ Calm'
    BY <2>1, Counting, CalmKept
  <2>3. Answering'
    <3> DEFINE cleared == scan /\ Cleared(trst)
    <3>1. answer' =
               CASE cleared -> Any
                 [] ~cleared /\ scan /\ Sent ->
                      [op |-> SUCCESS, adr |-> dmi_shift_reg.adr,
                       data |-> IF dmi_shift_reg.op = READ THEN regs'[dmi_shift_reg.adr] ELSE 0]
                 [] ~cleared /\ ~(scan /\ Sent) /\ core /\ hardreset /\ answer # Any -> Zero
                 [] OTHER -> answer
      BY <2>1 DEF Step, Bookkeeping
    <3>2. CASE cleared
      <4>1. answer' = Any
        BY <3>1, <3>2, Zenon
      <4>2. settle' = SettleEdges /\ SettleEdges \in Nat
        BY <2>1, <3>2, Counting, SettleAssumption
      <4>3. InReset' \/ (request_toggle' = FALSE /\ request_payload' = Zero)
        BY <2>1, <3>2 DEF Step, Clears
      <4> QED BY <4>1, <4>2, <4>3 DEF Answering, Following
    <3>3. CASE ~cleared /\ scan /\ Sent
      <4>1. Sends
        BY <2>1, <3>3 DEF Step, Moves, Silent, Sent
      <4> QED BY <2>1, <3>3, <4>1, RequestSent
    <3>4. CASE ~cleared /\ ~(scan /\ Sent)
      <4>1. Moves /\ Silent
        <5>1. CASE scan
          BY <2>1, <3>4, <5>1 DEF Step, Moves, Sends, Sent
        <5>2. CASE ~scan
          BY <2>1, <5>2, ScanRests DEF Step
        <5> QED BY <5>1, <5>2
      <4>2. answer' = IF core /\ hardreset /\ answer # Any THEN Zero ELSE answer
        BY <3>1, <3>4, Zenon
      <4>3. CASE answer = Any
        <5>1. InReset => InReset'
          BY <4>1 DEF Moves
        <5>2. Following => Following'
          BY <2>1, <4>1, FollowingKept
        <5> QED BY <4>2, <4>3, <5>1, <5>2 DEF TransportInv, Answering
      <4>4. CASE answer # Any /\ core /\ hardreset
        <5>1. Synchronize /\ (Aborts \/ Ends \/ Captures \/ Takes \/ Rests)
          BY <2>1, <4>4, CoreMoves DEF Step, TransportInv, TypeOK
        <5>2. Aborts
          BY <4>4, <5>1 DEF Ends, Captures, Takes, Rests
        <5> QED BY <4>1, <4>2, <4>4, <5>1, <5>2, RequestAborted
      <4>5. CASE answer # Any /\ ~(core /\ hardreset)
        <5>1. /\ Travelling /\ Expecting /\ UNCHANGED answer
              /\ core => Core
              /\ ~core => UNCHANGED <<coreVars, regs, dbo>>
          BY <2>1, <4>2, <4>5 DEF TransportInv, Answering, Step
        <5>2. Travelling' /\ Expecting'
          BY <4>1, <4>5, <5>1, TravellingKept, ExpectingKept
        <5> QED BY <4>5, <5>1, <5>2 DEF Answering
      <4> QED BY <4>3, <4>4, <4>5
    <3> QED BY <3>2, <3>3, <3>4
  <2> QED BY <1>2, <2>2, <2>3 DEF TransportInv, TypeOK, BridgeInv
<1>4. CASE Reset
  <2>1. SettleEdges \in Nat
    BY SettleAssumption
  <2>2. /\ settle' = 0 /\ answer' = Zero /\ response_payload' = Zero
        /\ request_toggle' = FALSE /\ dtmhardreset_toggle' = FALSE
        /\ response_toggle_meta' = FALSE /\ response_toggle_sync' = FALSE
        /\ request_toggle_meta' = FALSE /\ request_toggle_sync' = FALSE
        /\ request_toggle_seen' = FALSE /\ response_toggle' = FALSE
        /\ dtmhardreset_toggle_meta' = FALSE /\ dtmhardreset_toggle_sync' = FALSE
        /\ dtmhardreset_toggle_seen' = FALSE /\ tap_state' = "test_logic_reset"
        /\ request_active' = FALSE /\ read_capture' = FALSE
    BY <1>1, <1>4, ResetClears DEF BridgeInv
  <2>3. HardResetArrives' /\ Calm' /\ Travelling' /\ Expecting'
    BY <2>2 DEF HardResetArrives, Calm, WillSend, Travelling, Expecting
  <2>4. Zero # Any
    <3>1. Zero.op = 0 /\ Any.op = 3
      BY DEF Zero, Any, BUSY
    <3> QED BY <3>1
  <2> QED BY <1>2, <2>1, <2>2, <2>3, <2>4 DEF TransportInv, TypeOK, BridgeInv, Answering
<1>5. CASE UNCHANGED vars
  <2>1. UNCHANGED <<frontVars, scanVars, frontEnd, tck, tap_state, instruction, active_er1,
                    coreVars, settle, regs, dbo, answer>>
    BY <1>5 DEF vars, scanAll, tapVars, clientVars, hostVars
  <2>2. HardResetArrives' /\ Calm'
    BY <2>1 DEF TransportInv, HardResetArrives, Calm, WillSend, ThroughDmi, frontVars, scanVars,
       coreVars, syncVars
  <2>3. Answering'
    BY <2>1 DEF TransportInv, Answering, InReset, Following, Travelling, Expecting, frontVars,
       scanVars, coreVars, syncVars, workVars
  <2> QED BY <1>2, <2>1, <2>2, <2>3 DEF TransportInv, TypeOK, BridgeInv
<1> QED BY <1>3, <1>4, <1>5

\* The invariant holds at the start.
LEMMA TransportStarts ==
  ASSUME Init
  PROVE  TransportInv
<1>1. BridgeInv /\ SettleEdges \in Nat
  BY BridgeStarts, SettleAssumption
<1>2. Zero # Any
  <2>1. Zero.op = 0 /\ Any.op = 3
    BY DEF Zero, Any, BUSY
  <2> QED BY <2>1
<1>3. HardResetArrives /\ Calm /\ Travelling /\ Expecting
  BY DEF Init, BridgeInit, HardResetArrives, Calm, WillSend, Travelling, Expecting
<1> QED
  BY <1>1, <1>2, <1>3 DEF Init, TransportInv, TypeOK, BridgeInv, Answering

\* The answer of the last request is there when no request is pending.
LEMMA AnswerIsThere ==
  ASSUME TransportInv
  PROVE  AnswerIsOwn
<1>1. SUFFICES ASSUME ~pending, answer # Any PROVE response_payload = answer
  BY DEF AnswerIsOwn
<1>2. Travelling /\ Expecting /\ TypeOK
  BY <1>1 DEF TransportInv, Answering
<1>3. response_toggle = request_toggle /\ request_toggle_seen = request_toggle
  BY <1>1, <1>2 DEF Travelling, pending, TypeOK, ScanType, CoreType
<1> QED BY <1>2, <1>3 DEF Expecting

\* A request that has arrived and is not at work has been answered.
LEMMA QuietIsAnswered ==
  ASSUME BridgeInv
  PROVE  NothingLost
BY DEF BridgeInv, Working, NothingLost, Quiet, newRequest, ResponseUnderWay, pending

-----------------------------------------------------------------------------
(* What the channel needs besides.                                         *)

\* The registers hold requests and values of the DMI.
PayloadType ==
    /\ request_payload \in Requests /\ dmi_shift_reg \in Requests
    /\ response_payload \in Requests
    /\ dtm.we \in BOOLEAN /\ dtm.adr \in Adr /\ dtm.dbi \in Data
    /\ regs \in [Adr -> {0, 1}] /\ dbo \in {0, 1}

\* The part of the way of a request that no reset of the scan side stops.
Arriving ==
    /\ request_toggle_meta # request_toggle => request_toggle_sync = request_toggle_meta
    /\ request_toggle_sync # request_toggle => request_toggle_seen = request_toggle_sync
    /\ request_toggle_seen # request_toggle => response_toggle = request_toggle_seen

\* The ECP5 client keeps its request until the falling edge of the reset; by then
\* the core side may have carried it out.
Overtaken ==
    /\ Arriving
    /\ settle <= SettleEdges - 1 => request_toggle_meta = request_toggle
    /\ settle <= SettleEdges - 2 => request_toggle_sync = request_toggle
    /\ settle <= SettleEdges - 3 => request_toggle_seen = request_toggle
    /\ settle <= SettleEdges - 4 => ~request_active

\* The core side has settled, and nothing is on its way back.
Settled ==
    /\ request_toggle_meta = request_toggle /\ request_toggle_sync = request_toggle
    /\ request_toggle_seen = request_toggle /\ ~request_active
    /\ InReset \/ /\ response_toggle = request_toggle
                  /\ response_toggle_meta = request_toggle
                  /\ response_toggle_sync = request_toggle

LettingGo ==
    /\ letGo \in BOOLEAN
    /\ letGo => answer = Any /\ (settle # 0 \/ ResponseUnderWay)
    /\ answer = Any => Following \/ (InReset /\ Overtaken)
    /\ answer = Any /\ ~letGo => Settled
    /\ answer # Any /\ request_active => InAccess = request_payload

ChannelInv == TransportInv /\ PayloadType /\ LettingGo

-----------------------------------------------------------------------------
(* The registers and the requests.                                         *)

\* What an access does (rtl/debug/debug_module.py, as far as the transport goes).
LEMMA StoredOf ==
  ASSUME NEW r, NEW contents
  PROVE  /\ r.op = WRITE => Stored(r, contents) = [contents EXCEPT ![r.adr] = (@ + r.data) % 2]
         /\ r.op = READ => Stored(r, contents) = [contents EXCEPT ![r.adr] = (@ + 1) % 2]
         /\ r.op \notin {READ, WRITE} => Stored(r, contents) = contents
<1>1. READ # WRITE
  BY DEF READ, WRITE
<1>2. CASE r.op = WRITE
  BY <1>1, <1>2, Zenon DEF Stored
<1>3. CASE r.op = READ
  BY <1>1, <1>3, Zenon DEF Stored
<1>4. CASE r.op \notin {READ, WRITE}
  BY <1>4, Zenon DEF Stored
<1> QED BY <1>1, <1>2, <1>3, <1>4

\* A register keeps one bit.
LEMMA StoredType ==
  ASSUME NEW r \in Requests, NEW contents \in [Adr -> {0, 1}]
  PROVE  Stored(r, contents) \in [Adr -> {0, 1}]
<1>1. r.adr \in Adr /\ r.data \in Nat
  BY DataAssumption DEF Requests
<1>2. CASE r.op = WRITE
  <2>1. contents[r.adr] + r.data \in Nat
    BY <1>1
  <2>2. (contents[r.adr] + r.data) % 2 \in {0, 1}
    BY <2>1
  <2> QED BY <1>1, <1>2, <2>2, StoredOf
<1>3. CASE r.op = READ
  <2>1. (contents[r.adr] + 1) % 2 \in {0, 1}
    BY <1>1
  <2> QED BY <1>1, <1>3, <2>1, StoredOf
<1>4. CASE r.op \notin {READ, WRITE}
  BY <1>4, StoredOf
<1> QED BY <1>2, <1>3, <1>4

\* An edge of TCK takes the payloads from where they belong.
LEMMA ScanPayload ==
  ASSUME NEW tms \in BOOLEAN, NEW trstn \in BOOLEAN, Rise(tms, trstn) \/ Fall
  PROVE  /\ request_payload' \in {request_payload, Zero, dmi_shift_reg}
         /\ dmi_shift_reg' \in {dmi_shift_reg, Zero, Busy, response_payload} \cup Scanned
<1> DEFINE Goal == /\ request_payload' \in {request_payload, Zero, dmi_shift_reg}
                   /\ dmi_shift_reg' \in {dmi_shift_reg, Zero, Busy, response_payload} \cup Scanned
<1>1. ASSUME FrontReset PROVE Goal
  BY <1>1 DEF FrontReset
<1>2. ASSUME CaptureDmi, UNCHANGED frontVars PROVE Goal
  BY <1>2 DEF CaptureDmi, frontVars
<1>3. ASSUME ShiftDmi, UNCHANGED frontVars PROVE Goal
  BY <1>3 DEF ShiftDmi, frontVars
<1>4. ASSUME UNCHANGED frontVars, UNCHANGED dmi_shift_reg PROVE Goal
  BY <1>4 DEF frontVars
<1>5. ASSUME UpdateDmi \/ UpdateDtmcs, UNCHANGED shiftVars PROVE Goal
  BY <1>5 DEF UpdateDmi, UpdateDtmcs, shiftVars
<1>6. ASSUME UNCHANGED <<frontVars, shiftVars>> PROVE Goal
  BY <1>6 DEF frontVars, shiftVars
<1>7. ASSUME DtmRise(tms, ~trstn) PROVE Goal
  <2>1. CASE FrontReset BY <1>1, <2>1
  <2>2. CASE DtmScan
    <3>1. \/ CaptureDmi /\ UNCHANGED <<dtmcs_shift_reg, frontVars>>
          \/ CaptureDtmcs /\ UNCHANGED <<dmi_shift_reg, frontVars>>
          \/ ShiftDmi /\ UNCHANGED <<dtmcs_shift_reg, frontVars>>
          \/ ShiftDtmcs /\ UNCHANGED <<dmi_shift_reg, frontVars>>
          \/ (UpdateDmi \/ UpdateDtmcs) /\ UNCHANGED shiftVars
          \/ UNCHANGED <<shiftVars, frontVars>>
      BY <2>2, Zenon DEF DtmScan
    <3> HIDE DEF Goal
    <3> QED BY <1>2, <1>3, <1>4, <1>5, <1>6, <3>1
  <2> QED BY <1>7, <2>1, <2>2 DEF DtmRise
<1>8. ASSUME Ecp5Fall(FALSE) PROVE Goal
  <2>1. FrontReset \/ Client
    BY <1>8 DEF Ecp5Fall
  <2>2. CASE Client
    <3>1. \/ CaptureDmi /\ UNCHANGED <<dtmcs_shift_reg, frontVars>>
          \/ CaptureDtmcs /\ UNCHANGED frontVars /\ jce2 /\ ~jshift /\ Select(FALSE, TRUE)
                /\ UNCHANGED <<dmi_shift_reg, frontVars>>
          \/ ClientShift
          \/ ClientUpdate
          \/ UNCHANGED <<shiftVars, frontVars>>
      BY <2>2, Zenon DEF Client
    <3>2. ASSUME ClientShift PROVE Goal
      <4>1. /\ UNCHANGED frontVars
            /\ \/ ShiftDmi
               \/ ShiftDtmcs /\ UNCHANGED dmi_shift_reg
               \/ UNCHANGED shiftVars
        BY <3>2, Zenon DEF ClientShift
      <4>2. UNCHANGED shiftVars => UNCHANGED dmi_shift_reg
        BY DEF shiftVars
      <4> HIDE DEF Goal
      <4> QED BY <1>3, <1>4, <4>1, <4>2
    <3>3. ASSUME ClientUpdate PROVE Goal
      <4>1. /\ UNCHANGED shiftVars
            /\ UpdateDmi \/ UpdateDtmcs \/ UNCHANGED frontVars
        BY <3>3, Zenon DEF ClientUpdate
      <4> HIDE DEF Goal
      <4> QED BY <1>5, <1>6, <4>1
    <3> HIDE DEF Goal
    <3> QED BY <1>2, <1>4, <1>6, <3>1, <3>2, <3>3
  <2> QED BY <1>1, <2>1, <2>2
<1>9. CASE Fall
  BY <1>8, <1>9 DEF Fall
<1>10. CASE Rise(tms, trstn)
  <2>1. DtmRise(tms, ~trstn) \/ Ecp5Rise(tms, ~trstn)
    BY <1>10 DEF Rise
  <2>2. Ecp5Rise(tms, ~trstn) => Goal
    BY <1>6 DEF Ecp5Rise
  <2> QED BY <1>7, <2>1, <2>2
<1> QED BY <1>9, <1>10

\* So do the bridge and the debug module.
LEMMA CorePayload ==
  ASSUME PayloadType, NEW reset \in BOOLEAN, CoreSide(reset, dbo), DebugModule
  PROVE  /\ response_payload' \in Requests
         /\ dtm'.we \in BOOLEAN /\ dtm'.adr \in Adr /\ dtm'.dbi \in Data
         /\ regs' \in [Adr -> {0, 1}] /\ dbo' \in {0, 1}
<1> DEFINE Goal == /\ response_payload' \in Requests
                   /\ dtm'.we \in BOOLEAN /\ dtm'.adr \in Adr /\ dtm'.dbi \in Data
<1>1. /\ 0 \in Adr /\ 0 \in Data /\ 1 \in Data
      /\ Zero \in Requests
  BY ZeroAssumption, DataAssumption DEF Zero, Requests, NOP
<1>2. /\ request_payload \in Requests /\ response_payload \in Requests
      /\ dtm.we \in BOOLEAN /\ dtm.adr \in Adr /\ dtm.dbi \in Data
      /\ regs \in [Adr -> {0, 1}] /\ dbo \in {0, 1}
  BY DEF PayloadType
<1>3. ASSUME reset PROVE Goal
  <2>1. response_payload' = Zero /\ dtm' = [en |-> FALSE, we |-> FALSE, adr |-> 0, dbi |-> 0]
    BY <1>3 DEF CoreSide, CoreReset
  <2>2. dtm'.we = FALSE /\ dtm'.adr = 0 /\ dtm'.dbi = 0
    BY <2>1
  <2> QED BY <1>1, <2>1, <2>2
<1>4. ASSUME HardReset PROVE Goal
  BY <1>1, <1>2, <1>4 DEF HardReset
<1>5. ASSUME EndAccess PROVE Goal
  BY <1>2, <1>5 DEF EndAccess
<1>6. ASSUME CaptureRead(dbo) PROVE Goal
  <2>1. response_payload' = [response_payload EXCEPT !.op = SUCCESS, !.data = dbo]
        /\ dtm' = dtm
    BY <1>6 DEF CaptureRead
  <2>2. response_payload' \in Requests
    BY <1>1, <1>2, <2>1 DEF Requests, SUCCESS
  <2> QED BY <1>2, <2>1, <2>2
<1>7. ASSUME TakeRequest PROVE Goal
  <2>1. /\ response_payload' = [op |-> SUCCESS, adr |-> request_payload.adr, data |-> 0]
        /\ dtm' = [en |-> request_payload.op \in {READ, WRITE}, we |-> request_payload.op = WRITE,
                   adr |-> request_payload.adr, dbi |-> request_payload.data]
    BY <1>7 DEF TakeRequest
  <2>2. request_payload.adr \in Adr /\ request_payload.data \in Data
    BY <1>2 DEF Requests
  <2>3. dtm'.we = (request_payload.op = WRITE)
    BY <2>1
  <2>4. dtm'.we \in BOOLEAN
    BY <2>3, Zenon
  <2>5. response_payload' \in Requests
    BY <1>1, <2>1, <2>2 DEF Requests, SUCCESS
  <2> QED BY <2>1, <2>2, <2>4, <2>5
<1>8. ASSUME ~reset PROVE Goal
  <2>1. HardReset \/ EndAccess \/ CaptureRead(dbo) \/ TakeRequest \/ UNCHANGED <<response_payload, dtm>>
    BY <1>8 DEF CoreSide
  <2> QED BY <1>2, <1>4, <1>5, <1>6, <1>7, <2>1
<1>9. InAccess \in Requests
  BY <1>2 DEF InAccess, Requests
<1>10. regs' \in [Adr -> {0, 1}] /\ dbo' \in {0, 1}
  BY <1>2, <1>9, StoredType DEF DebugModule
<1> QED BY <1>3, <1>8, <1>10

\* Every step of the transport keeps the types of the payloads.
LEMMA PayloadKept ==
  ASSUME PayloadType, [Next]_vars
  PROVE  PayloadType'
<1>1. Zero \in Requests /\ Busy \in Requests
  BY ZeroAssumption DEF Zero, Busy, Requests, NOP, BUSY
<1>2. request_payload \in Requests /\ dmi_shift_reg \in Requests /\ response_payload \in Requests
  BY DEF PayloadType
<1> DEFINE Scanning == request_payload' \in Requests /\ dmi_shift_reg' \in Requests
<1> DEFINE Serving == /\ response_payload' \in Requests
                       /\ dtm'.we \in BOOLEAN /\ dtm'.adr \in Adr /\ dtm'.dbi \in Data
                       /\ regs' \in [Adr -> {0, 1}] /\ dbo' \in {0, 1}
<1>3. ASSUME NEW tms \in BOOLEAN, NEW trstn \in BOOLEAN, Rise(tms, trstn) \/ Fall
      PROVE  Scanning
  BY <1>1, <1>2, <1>3, ScanPayload, ScannedAssumption
<1>4. ASSUME UNCHANGED scanAll PROVE Scanning
  BY <1>2, <1>4 DEF scanAll, frontVars, shiftVars
<1>5. ASSUME Core PROVE Serving
  BY <1>5, CorePayload DEF Core
<1>6. ASSUME UNCHANGED <<coreVars, regs, dbo>> PROVE Serving
  BY <1>6 DEF coreVars, PayloadType
<1>7. CASE Next /\ ~Reset
  <2>1. Scanning /\ Serving
    <3>1. \/ \E tms, trstn \in BOOLEAN : Rise(tms, trstn) \/ Fall
          \/ UNCHANGED scanAll
      BY <1>7, Zenon DEF Next, TckRise, BothRise, TckFall, FallAndCore, CoreClock
    <3>2. Core \/ UNCHANGED <<coreVars, regs, dbo>>
      BY <1>7, Zenon DEF Next, TckRise, BothRise, TckFall, FallAndCore, CoreClock
    <3> HIDE DEF Scanning, Serving
    <3> QED BY <1>3, <1>4, <1>5, <1>6, <3>1, <3>2, Zenon
  <2> QED BY <2>1 DEF PayloadType
<1>8. CASE Reset
  <2>1. Serving
    BY <1>8, CorePayload DEF Reset
  <2>2. Scanning
    BY <1>1, <1>8 DEF Reset, FrontReset
  <2> QED BY <2>1, <2>2 DEF PayloadType
<1>9. CASE UNCHANGED vars
  BY <1>9 DEF vars, scanAll, coreVars, frontVars, shiftVars, PayloadType
<1> QED BY <1>7, <1>8, <1>9

-----------------------------------------------------------------------------
(* The invariant of the channel.                                           *)

\* On the way to the core side a request is not stopped by dtmhardreset either.
LEMMA ArrivingKept ==
  ASSUME ScanType, CoreType, Working, Arriving, request_toggle' = request_toggle,
         NEW core \in BOOLEAN, core => Core, ~core => UNCHANGED <<coreVars, regs, dbo>>
  PROVE  Arriving'
<1>1. CASE ~core
  BY <1>1 DEF coreVars, syncVars, Arriving
<1>2. CASE core
  <2>1. Synchronize /\ (Aborts \/ Ends \/ Captures \/ Takes \/ Rests)
    BY <1>2, CoreMoves
  <2>2. /\ request_toggle_seen' \in {request_toggle_seen, request_toggle_sync}
        /\ response_toggle' \in {response_toggle, request_toggle_seen'}
        /\ request_toggle_seen' # request_toggle_sync => response_toggle # request_toggle_seen
        /\ response_toggle' # response_toggle => response_toggle' = request_toggle_seen'
    BY <2>1 DEF Aborts, HardReset, Ends, EndAccess, Captures, CaptureRead, Takes, TakeRequest,
       Rests, Working, newRequest, workVars
  <2>3. request_toggle_meta' = request_toggle /\ request_toggle_sync' = request_toggle_meta
    BY <2>1 DEF Synchronize
  <2>4. request_toggle_sync' # request_toggle => request_toggle_seen' = request_toggle_sync'
    BY <2>2, <2>3 DEF Arriving
  <2>5. request_toggle_seen' # request_toggle => response_toggle' = request_toggle_seen'
    BY <2>2 DEF Arriving, ScanType, CoreType
  <2> QED BY <2>3, <2>4, <2>5 DEF Arriving
<1> QED BY <1>1, <1>2

\* The core side follows while the TAP of the ECP5 is reset, too.
LEMMA OvertakenKept ==
  ASSUME SettleEdges >= 5, TransportInv, NEW scan \in BOOLEAN, NEW core \in BOOLEAN,
         NEW trst \in BOOLEAN, Step(scan, core, trst), Overtaken, Silent
  PROVE  Overtaken'
<1>1. /\ SettleEdges \in Nat /\ settle \in 0 .. SettleEdges /\ settle' \in 0 .. SettleEdges
      /\ settle' = SettleEdges \/ settle' = IF core /\ settle > 0 THEN settle - 1 ELSE settle
  BY SettleAssumption, Counting DEF TransportInv, TypeOK
<1>2. request_toggle' = request_toggle
  BY DEF Silent
<1>3. Arriving'
  BY <1>2, ArrivingKept DEF Step, Overtaken, TransportInv, TypeOK
<1>4. CASE ~core
  <2>1. UNCHANGED <<request_toggle_meta, request_toggle_sync, request_toggle_seen, request_active>>
    BY <1>4 DEF Step, coreVars, syncVars, workVars
  <2> QED BY <1>1, <1>2, <1>3, <1>4, <2>1 DEF Overtaken
<1>5. CASE core
  <2>1. Synchronize /\ (Aborts \/ Ends \/ Captures \/ Takes \/ Rests)
    BY <1>5, CoreMoves DEF Step, TransportInv, TypeOK
  <2>2. request_toggle_meta' = request_toggle /\ request_toggle_sync' = request_toggle_meta
    BY <2>1 DEF Synchronize
  <2>3. request_toggle_sync = request_toggle => request_toggle_seen' = request_toggle
    <3>1. SUFFICES ASSUME request_toggle_sync = request_toggle, request_toggle_seen # request_toggle
                   PROVE  request_toggle_seen' = request_toggle
      BY <2>1 DEF Aborts, HardReset, Ends, EndAccess, Captures, CaptureRead, Takes, TakeRequest, Rests
    <3>2. ~request_active /\ ~read_capture
      BY <3>1 DEF Overtaken, Arriving, TransportInv, Working
    <3> QED
      BY <2>1, <3>1, <3>2 DEF Aborts, HardReset, Ends, Captures, Takes, TakeRequest, Rests, newRequest
  <2>4. request_toggle_sync = request_toggle /\ request_toggle_seen = request_toggle => ~request_active'
    BY <2>1 DEF Aborts, HardReset, Ends, EndAccess, Captures, CaptureRead, Takes, newRequest, Rests,
       workVars
  <2> QED BY <1>1, <1>2, <1>3, <1>5, <2>2, <2>3, <2>4 DEF Overtaken
<1> QED BY <1>4, <1>5

\* Once the core side has settled, only a request can start it again.
LEMMA SettledKept ==
  ASSUME TransportInv, Settled, Moves, Silent, NEW core \in BOOLEAN,
         core => Core, ~core => UNCHANGED <<coreVars, regs, dbo>>
  PROVE  Settled'
<1>1. /\ request_toggle' = request_toggle /\ (RisingSync \/ FallingSync) /\ (InReset => InReset')
      /\ Working
  BY DEF Moves, Silent, TransportInv
<1>2. /\ request_toggle_meta' = request_toggle /\ request_toggle_sync' = request_toggle
      /\ request_toggle_seen' = request_toggle /\ ~request_active'
      /\ response_toggle = request_toggle => response_toggle' = request_toggle
  <2>1. CASE ~core
    BY <2>1 DEF coreVars, syncVars, workVars, Settled
  <2>2. CASE core
    <3>1. Synchronize /\ (Aborts \/ Captures \/ Rests)
      BY <2>2, CoreMoves DEF TransportInv, TypeOK, Settled, Ends, Takes, newRequest
    <3> QED
      BY <3>1 DEF Synchronize, Aborts, HardReset, Captures, CaptureRead, Rests, workVars, Settled
  <2> QED BY <2>1, <2>2
<1>3. /\ response_toggle = request_toggle /\ response_toggle_meta = request_toggle
      /\ response_toggle_sync = request_toggle
      => response_toggle_meta' = request_toggle /\ response_toggle_sync' = request_toggle
  BY <1>1 DEF RisingSync, FallingSync, scanVars
<1> QED BY <1>1, <1>2, <1>3 DEF Settled


\* An access is the request that the front end holds.
LEMMA AccessIsRequest ==
  ASSUME PayloadType, TakeRequest, request_active'
  PROVE  /\ InAccess' = request_payload /\ dtm'.en
         /\ request_payload.op \in {READ, WRITE}
<1>1. /\ request_payload.op \in {READ, WRITE}
      /\ dtm' = [en |-> request_payload.op \in {READ, WRITE}, we |-> request_payload.op = WRITE,
                 adr |-> request_payload.adr, dbi |-> request_payload.data]
  BY DEF TakeRequest
<1>2. dtm'.en = (request_payload.op \in {READ, WRITE}) /\ dtm'.we = (request_payload.op = WRITE)
      /\ dtm'.adr = request_payload.adr /\ dtm'.dbi = request_payload.data
  BY <1>1
<1>3. dtm'.en /\ (dtm'.we <=> request_payload.op = WRITE)
  BY <1>1, <1>2, Zenon
<1>4. (IF dtm'.we THEN WRITE ELSE READ) = request_payload.op
  BY <1>1, <1>3 DEF READ, WRITE
<1>5. request_payload = [op |-> request_payload.op, adr |-> request_payload.adr,
                         data |-> request_payload.data]
  BY DEF PayloadType, Requests
<1> QED BY <1>1, <1>2, <1>3, <1>4, <1>5 DEF InAccess

\* Every step of the transport keeps what is known of a request let go.
LEMMA LettingGoKept ==
  ASSUME SettleEdges >= 5, TransportInv, PayloadType, LettingGo, [Next]_vars
  PROVE  LettingGo'
<1>1. BridgeInv /\ TypeOK /\ Working
  BY DEF TransportInv, TypeOK, BridgeInv
<1>2. TransportInv' /\ SettleEdges \in Nat /\ SettleEdges >= 3
  <2>1. SettleEdges \in Nat /\ SettleEdges >= 3
    BY SettleAssumption
  <2> QED BY <2>1, TransportKept
<1>3. CASE Next /\ ~Reset
  <2>1. PICK scan \in BOOLEAN, core \in BOOLEAN, trst \in BOOLEAN : Step(scan, core, trst)
    BY <1>1, <1>3, EdgeIsStep
  <2> DEFINE cleared == scan /\ Cleared(trst)
  <2>2. /\ letGo' = (cleared \/ (letGo /\ (settle' # 0 \/ ResponseUnderWay')))
        /\ answer' =
               CASE cleared -> Any
                 [] ~cleared /\ scan /\ Sent ->
                      [op |-> SUCCESS, adr |-> dmi_shift_reg.adr,
                       data |-> IF dmi_shift_reg.op = READ THEN regs'[dmi_shift_reg.adr] ELSE 0]
                 [] ~cleared /\ ~(scan /\ Sent) /\ core /\ hardreset /\ answer # Any -> Zero
                 [] OTHER -> answer
    BY <2>1 DEF Step, Bookkeeping
  <2>3. letGo' \in BOOLEAN
    BY <2>2, Zenon
  <2>4. CASE cleared
    <3>1. letGo' /\ answer' = Any
      BY <2>2, <2>4, Zenon
    <3>2. settle' = SettleEdges /\ settle' # 0
      <4>1. settle' = SettleEdges
        BY <2>1, <2>4, Zenon DEF Step, Bookkeeping
      <4> QED BY <1>2, <4>1
    <3>3. Clears
      BY <2>1, <2>4 DEF Step
    <3>4. Following' \/ (InReset' /\ Overtaken')
      <4>1. CASE request_toggle' = FALSE /\ request_payload' = Zero
        BY <1>2, <3>2, <4>1 DEF Following
      <4>2. CASE InReset' /\ ~InReset /\ Silent /\ answer = Any
        <5>1. request_toggle' = FALSE /\ request_payload' = Zero
          BY <4>2 DEF LettingGo, Following, Silent
        <5> QED BY <1>2, <3>2, <5>1 DEF Following
      <4>3. CASE InReset' /\ ~InReset /\ Silent /\ answer # Any
        <5>1. Travelling
          BY <4>3 DEF TransportInv, Answering
        <5>2. Arriving
          BY <5>1 DEF Travelling, Arriving
        <5>3. Arriving'
          BY <1>1, <2>1, <4>3, <5>2, ArrivingKept DEF Step, BridgeInv, Silent
        <5> QED BY <1>2, <3>2, <4>3, <5>3 DEF Overtaken
      <4> QED BY <3>3, <4>1, <4>2, <4>3 DEF Clears
    <3> QED BY <3>1, <3>2, <3>4 DEF LettingGo
  <2>5. CASE ~cleared /\ scan /\ Sent
    <3>1. Sends
      BY <2>1, <2>5 DEF Step, Moves, Silent, Sent
    <3>2. /\ settle = 0
          /\ request_toggle_meta = request_toggle /\ request_toggle_sync = request_toggle
          /\ request_toggle_seen = request_toggle /\ response_toggle = request_toggle
          /\ response_toggle_meta = request_toggle /\ response_toggle_sync = request_toggle
      BY <3>1 DEF TransportInv, Calm, Sends
    <3>3. ~letGo
      BY <3>2 DEF LettingGo, ResponseUnderWay
    <3>4. ~letGo'
      BY <2>2, <2>5, <3>3, Zenon
    <3>5. answer' # Any
      <4>1. answer' = [op |-> SUCCESS, adr |-> dmi_shift_reg.adr,
                       data |-> IF dmi_shift_reg.op = READ THEN regs'[dmi_shift_reg.adr] ELSE 0]
        BY <2>2, <2>5, Zenon
      <4>2. answer'.op = 0 /\ Any.op = 3
        BY <4>1 DEF SUCCESS, NOP, Any, BUSY
      <4> QED BY <4>2
    <3>6. ~request_active'
      BY <1>2, <2>1, <3>2, CoreRests DEF Step
    <3> QED BY <2>3, <3>4, <3>5, <3>6 DEF LettingGo
  <2>6. CASE ~cleared /\ ~(scan /\ Sent)
    <3>1. Moves /\ Silent
      <4>1. CASE scan
        BY <2>1, <2>6, <4>1 DEF Step, Moves, Sends, Sent
      <4>2. CASE ~scan
        BY <2>1, <4>2, ScanRests DEF Step
      <4> QED BY <4>1, <4>2
    <3>2. answer' = IF core /\ hardreset /\ answer # Any THEN Zero ELSE answer
      BY <2>2, <2>6, Zenon
    <3>3. letGo' <=> letGo /\ (settle' # 0 \/ ResponseUnderWay')
      BY <2>2, <2>6, Zenon
    <3>4. /\ core => Core
          /\ ~core => UNCHANGED <<coreVars, regs, dbo>>
      BY <2>1 DEF Step
    <3>5. Zero # Any
      <4>1. Zero.op = 0 /\ Any.op = 3
        BY DEF Zero, Any, BUSY
      <4> QED BY <4>1
    <3>6. CASE answer = Any
      <4>1. answer' = Any
        BY <3>2, <3>6
      <4>2. Following' \/ (InReset' /\ Overtaken')
        BY <1>2, <2>1, <3>1, <3>6, FollowingKept, OvertakenKept DEF LettingGo, Moves
      <4>3. ~letGo' => Settled'
        <5>1. CASE letGo /\ ~letGo'
          <6>1. settle' = 0 /\ ~ResponseUnderWay'
            BY <3>3, <5>1
          <6>2. ASSUME Following' PROVE Settled'
            <7>1. /\ request_toggle' = FALSE /\ request_toggle_meta' = FALSE
                  /\ request_toggle_sync' = FALSE
                  /\ request_toggle_seen' = FALSE /\ ~request_active' /\ ~read_capture'
              BY <1>2, <6>1, <6>2 DEF Following
            <7>2. response_toggle' = request_toggle_seen'
              BY <1>2, <7>1 DEF TransportInv, Working
            <7> QED BY <6>1, <7>1, <7>2 DEF Settled, ResponseUnderWay
          <6>3. ASSUME InReset', Overtaken' PROVE Settled'
            BY <1>2, <6>1, <6>3 DEF Overtaken, Settled
          <6> QED BY <4>2, <6>2, <6>3
        <5>2. CASE ~letGo
          BY <3>1, <3>4, <3>6, <5>2, SettledKept DEF LettingGo
        <5> QED BY <5>1, <5>2
      <4> QED BY <2>3, <3>3, <4>1, <4>2, <4>3 DEF LettingGo
    <3>7. CASE answer # Any
      <4>1. answer' # Any /\ ~letGo'
        BY <3>2, <3>3, <3>5, <3>7 DEF LettingGo
      <4>2. request_active' => InAccess' = request_payload'
        <5>1. CASE ~core
          BY <3>1, <3>4, <3>7, <5>1 DEF LettingGo, coreVars, workVars, InAccess, Silent
        <5>2. CASE core
          <6>1. Aborts \/ Ends \/ Captures \/ Takes \/ Rests
            BY <1>1, <3>4, <5>2, CoreMoves DEF BridgeInv
          <6>2. request_active' => Takes
            BY <6>1 DEF Aborts, HardReset, Ends, EndAccess, Captures, CaptureRead, Rests, workVars
          <6> QED BY <3>1, <6>2, AccessIsRequest DEF Takes, Silent
        <5> QED BY <5>1, <5>2
      <4> QED BY <2>3, <4>1, <4>2 DEF LettingGo
    <3> QED BY <3>6, <3>7
  <2> QED BY <2>4, <2>5, <2>6
<1>4. CASE Reset
  <2>1. letGo' = FALSE /\ answer' = Zero /\ ~request_active'
    BY <1>1, <1>4, ResetClears DEF Reset, BridgeInv
  <2>2. Zero # Any
    <3>1. Zero.op = 0 /\ Any.op = 3
      BY DEF Zero, Any, BUSY
    <3> QED BY <3>1
  <2> QED BY <2>1, <2>2 DEF LettingGo
<1>5. CASE UNCHANGED vars
  <2>1. UNCHANGED <<frontVars, scanVars, frontEnd, tck, tap_state, coreVars, settle, letGo, answer>>
    BY <1>5 DEF vars, scanAll, tapVars, hostVars
  <2> QED
    BY <2>1 DEF LettingGo, ResponseUnderWay, Following, Overtaken, Arriving, Settled, InReset,
       InAccess, frontVars, scanVars, coreVars, syncVars, workVars
<1> QED BY <1>3, <1>4, <1>5

-----------------------------------------------------------------------------
(* The transport as a channel.                                             *)

\* The slot and the request let go, case by case.
LEMMA SlotOf ==
  /\ ~pending => Slot = "free"
  /\ pending /\ (request_toggle # request_toggle_seen \/ dtm.en) => Slot = "open"
  /\ pending /\ ~(request_toggle # request_toggle_seen \/ dtm.en) => Slot = "done"
BY Zenon DEF Slot

\* The slot after the step.
LEMMA SlotOfNext ==
  /\ ~pending' => Slot' = "free"
  /\ pending' /\ (request_toggle' # request_toggle_seen' \/ dtm'.en) => Slot' = "open"
  /\ pending' /\ ~(request_toggle' # request_toggle_seen' \/ dtm'.en) => Slot' = "done"
BY Zenon DEF Slot

\* What a request that was let go may still do.
LEMMA LateOf ==
  /\ letGo /\ dtm.en => Late = InAccess
  /\ letGo /\ ~dtm.en /\ Slot = "free" /\ request_toggle # request_toggle_seen
        /\ request_payload.op # NOP => Late = request_payload
  /\ ~letGo \/ (~dtm.en /\ ~(/\ Slot = "free" /\ request_toggle # request_toggle_seen
                             /\ request_payload.op # NOP)) => Late = Any
BY Zenon DEF Late

\* The same after the step.
LEMMA LateOfNext ==
  /\ letGo' /\ dtm'.en => Late' = InAccess'
  /\ letGo' /\ ~dtm'.en /\ Slot' = "free" /\ request_toggle' # request_toggle_seen'
        /\ request_payload'.op # NOP => Late' = request_payload'
  /\ ~letGo' \/ (~dtm'.en /\ ~(/\ Slot' = "free" /\ request_toggle' # request_toggle_seen'
                               /\ request_payload'.op # NOP)) => Late' = Any
BY Zenon DEF Late

\* Where the invariant leaves the request.
LEMMA Whereabouts ==
  ASSUME ChannelInv
  PROVE  /\ request_payload = Zero \/ Arriving
         /\ ~letGo /\ (dtm.en \/ request_toggle # request_toggle_seen) =>
                /\ Slot = "open" /\ Arriving
                /\ response_toggle_meta # request_toggle /\ response_toggle_sync # request_toggle
         /\ ~letGo /\ dtm.en => InAccess = request_payload
         /\ Arriving /\ dtm.en =>
                request_toggle_seen = request_toggle /\ request_toggle_sync = request_toggle
         /\ Arriving /\ request_toggle_sync # request_toggle_seen =>
                request_toggle # request_toggle_seen
<1>1. TypeOK /\ Working
  BY DEF ChannelInv, TransportInv
<1>2. Arriving /\ dtm.en =>
          request_toggle_seen = request_toggle /\ request_toggle_sync = request_toggle
  BY <1>1 DEF Arriving, Working, TypeOK, ScanType, CoreType
<1>3. Arriving /\ request_toggle_sync # request_toggle_seen => request_toggle # request_toggle_seen
  BY <1>1 DEF Arriving
<1>4. CASE answer = Any
  <2>1. request_payload = Zero \/ Arriving
    BY <1>4 DEF ChannelInv, LettingGo, Following, Overtaken
  <2>2. ~letGo => ~dtm.en /\ request_toggle = request_toggle_seen
    BY <1>1, <1>4 DEF ChannelInv, LettingGo, Settled, Working
  <2> QED BY <1>2, <1>3, <2>1, <2>2
<1>5. CASE answer # Any
  <2>1. Travelling
    BY <1>5 DEF ChannelInv, TransportInv, Answering
  <2>2. Arriving
    BY <2>1 DEF Travelling, Arriving
  <2>3. dtm.en \/ request_toggle # request_toggle_seen =>
            response_toggle_meta # request_toggle /\ response_toggle_sync # request_toggle
    BY <1>1, <1>2, <2>1, <2>2 DEF Travelling, Working, TypeOK, ScanType, CoreType
  <2>4. dtm.en \/ request_toggle # request_toggle_seen => Slot = "open"
    BY <2>3, SlotOf DEF pending
  <2>5. dtm.en => InAccess = request_payload
    BY <1>1, <1>5 DEF ChannelInv, LettingGo, Working
  <2> QED BY <1>2, <1>3, <2>2, <2>3, <2>4, <2>5
<1> QED BY <1>4, <1>5

\* What the core side does to the registers and to the toggle it has seen.
LEMMA CoreEffect ==
  ASSUME ChannelInv, NEW core \in BOOLEAN,
         core => Core, ~core => UNCHANGED <<coreVars, regs, dbo>>
  PROVE  /\ core /\ dtm.en => regs' = Stored(InAccess, regs) /\ ~dtm'.en
         /\ ~core \/ ~dtm.en => regs' = regs
         /\ ~core => dtm' = dtm /\ InAccess' = InAccess /\ request_toggle_seen' = request_toggle_seen
         /\ ~dtm.en /\ dtm'.en =>
                /\ InAccess' = request_payload /\ request_payload.op \in {READ, WRITE}
                /\ request_toggle_sync # request_toggle_seen
         /\ request_toggle_seen' \in {request_toggle_seen, request_toggle_sync}
<1>1. TypeOK /\ Working /\ PayloadType
  BY DEF ChannelInv, TransportInv
<1>2. CASE ~core
  BY <1>2 DEF coreVars, InAccess
<1>3. CASE core
  <2>1. Aborts \/ Ends \/ Captures \/ Takes \/ Rests
    BY <1>1, <1>3, CoreMoves DEF TypeOK
  <2>2. regs' = IF dtm.en THEN Stored(InAccess, regs) ELSE regs
    BY <1>3 DEF Core, DebugModule
  <2>3. Working'
    BY <1>1, <1>3, CoreMoves DEF TypeOK
  <2>4. dtm.en => ~dtm'.en
    BY <1>1, <2>1, <2>3 DEF Working, Aborts, HardReset, Ends, EndAccess, Captures, Takes, Rests
  <2>5. request_toggle_seen' \in {request_toggle_seen, request_toggle_sync}
    BY <2>1 DEF Aborts, HardReset, Ends, EndAccess, Captures, CaptureRead, Takes, TakeRequest, Rests
  <2>6. ~dtm.en /\ dtm'.en => Takes
    BY <1>1, <2>1, <2>3 DEF Working, Aborts, HardReset, Ends, EndAccess, Captures, CaptureRead, Rests,
       workVars
  <2>7. ~dtm.en /\ dtm'.en =>
            /\ InAccess' = request_payload /\ request_payload.op \in {READ, WRITE}
            /\ request_toggle_sync # request_toggle_seen
    BY <1>1, <2>3, <2>6, AccessIsRequest DEF Takes, newRequest, Working
  <2> QED BY <1>3, <2>2, <2>4, <2>5, <2>7
<1> QED BY <1>2, <1>3

\* A step after which the host waits because of a reset of the TAP.
LEMMA LetGoMaps ==
  ASSUME ChannelInv, PayloadType', NEW core \in BOOLEAN,
         core => Core, ~core => UNCHANGED <<coreVars, regs, dbo>>, letGo' = TRUE,
         \/ request_payload' = Zero
         \/ Silent /\ Arriving /\ (letGo => UNCHANGED response_toggle_sync)
  PROVE  Channel!LetGo
<1> DEFINE open == request_toggle # request_toggle_seen \/ dtm.en
<1>1. /\ request_payload' \in Requests /\ request_payload \in Requests
      /\ letGo \in BOOLEAN
  BY DEF PayloadType, ChannelInv, LettingGo
<1>2. InAccess # Any /\ Zero.op = NOP /\ NOP \notin {READ, WRITE}
  <2>1. InAccess.op \in {READ, WRITE} /\ Any.op = 3
    BY DEF InAccess, Any, BUSY
  <2> QED BY <2>1 DEF READ, WRITE, NOP, Zero
<1>3. pending \in BOOLEAN /\ pending' \in BOOLEAN
  BY Zenon DEF pending
<1>4. Slot' \in {"free", "open", "done"}
  BY <1>3, SlotOfNext
\* an access that starts now
<1>5. ASSUME ~dtm.en, dtm'.en
      PROVE  /\ Late' = request_payload /\ regs' = regs
             /\ Slot = "open" \/ (letGo /\ Late = request_payload)
  <2>1. /\ InAccess' = request_payload /\ request_payload.op \in {READ, WRITE}
        /\ request_toggle_sync # request_toggle_seen /\ regs' = regs
    BY <1>5, CoreEffect
  <2>2. request_payload.op # NOP
    BY <1>2, <2>1
  <2>3. request_toggle # request_toggle_seen
    BY <1>2, <2>1, <2>2, Whereabouts
  <2>4. letGo => Slot = "open" \/ Late = request_payload
    BY <1>3, <1>5, <2>2, <2>3, SlotOf, LateOf
  <2>5. ~letGo => Slot = "open"
    BY <2>3, Whereabouts
  <2> QED BY <1>1, <1>5, <2>1, <2>4, <2>5, LateOfNext
\* an access that is carried out now
<1>6. ASSUME core, dtm.en
      PROVE  /\ regs' = Stored(InAccess, regs) /\ Late' = Any
             /\ \/ letGo /\ Late = InAccess
                \/ Slot = "open" /\ InAccess = request_payload
  <2>1. regs' = Stored(InAccess, regs) /\ ~dtm'.en
    BY <1>6, CoreEffect
  <2>2. request_payload' = Zero \/ request_toggle_seen' = request_toggle'
    <3>1. Silent /\ Arriving => request_toggle_seen' = request_toggle
      BY <1>6, CoreEffect, Whereabouts
    <3> QED BY <3>1 DEF Silent
  <2>3. Late' = Any
    BY <1>2, <2>1, <2>2, LateOfNext
  <2>4. letGo => Late = InAccess
    BY <1>6, LateOf
  <2> QED BY <1>1, <1>6, <2>1, <2>3, <2>4, Whereabouts
\* an access that waits for the core clock
<1>7. ASSUME ~core, dtm.en
      PROVE  /\ regs' = regs /\ Late' = InAccess
             /\ \/ letGo /\ Late = InAccess
                \/ Slot = "open" /\ InAccess = request_payload
  <2>1. dtm'.en /\ InAccess' = InAccess /\ regs' = regs
    BY <1>7, CoreEffect
  <2> QED BY <1>1, <1>7, <2>1, LateOf, LateOfNext, Whereabouts
\* no access
<1>8. ASSUME ~dtm.en, ~dtm'.en
      PROVE  /\ regs' = regs
             /\ \/ Late' = Any
                \/ /\ Late' = request_payload
                   /\ Slot = "open" \/ (letGo /\ Late = request_payload)
  <2>1. regs' = regs
    BY <1>8, CoreEffect
  <2>2. CASE Late' # Any
    <3>1. /\ request_toggle' # request_toggle_seen' /\ request_payload'.op # NOP
          /\ Late' = request_payload'
      BY <1>8, <2>2, LateOfNext
    <3>2. request_payload' = request_payload /\ request_toggle' = request_toggle /\ Arriving
      BY <1>2, <3>1 DEF Silent
    <3>3. request_toggle # request_toggle_seen
      BY <3>1, <3>2, CoreEffect DEF Arriving
    <3>4. letGo => Slot = "open" \/ Late = request_payload
      BY <1>3, <1>8, <3>1, <3>2, <3>3, SlotOf, LateOf
    <3>5. ~letGo => Slot = "open"
      BY <3>3, Whereabouts
    <3> QED BY <1>1, <2>1, <3>1, <3>2, <3>4, <3>5
  <2> QED BY <2>1, <2>2
<1>9. \/ Late' \in {Late, Any} /\ UNCHANGED regs
      \/ Slot = "open" /\ Late' = request_payload /\ UNCHANGED regs
      \/ Slot = "open" /\ Late' = Any /\ regs' = Stored(request_payload, regs)
      \/ Late # Any /\ Late' = Any /\ regs' = Stored(Late, regs)
  <2>1. CASE ~dtm.en /\ dtm'.en
    BY <1>5, <2>1
  <2>2. CASE core /\ dtm.en
    BY <1>2, <1>6, <2>2
  <2>3. CASE ~core /\ dtm.en
    BY <1>7, <2>3
  <2>4. CASE ~dtm.en /\ ~dtm'.en
    BY <1>8, <2>4
  <2> QED BY <2>1, <2>2, <2>3, <2>4
<1>10. Slot' = "open" => \/ Slot = "open" /\ request_payload' = request_payload
                         \/ Stored(request_payload', regs) = regs
  <2>1. CASE request_payload' = Zero
    <3>1. Zero.op \notin {READ, WRITE}
      BY <1>2
    <3> QED BY <2>1, <3>1, StoredOf
  <2>2. CASE Silent /\ Arriving /\ (letGo => UNCHANGED response_toggle_sync)
    <3>1. SUFFICES ASSUME Slot' = "open" PROVE Slot = "open"
      BY <2>2 DEF Silent
    <3>2. pending' /\ (request_toggle' # request_toggle_seen' \/ dtm'.en)
      BY <3>1, SlotOfNext
    <3>3. open
      <4>1. CASE request_toggle' # request_toggle_seen'
        BY <2>2, <4>1, CoreEffect DEF Silent, Arriving
      <4>2. CASE dtm'.en
        BY <2>2, <4>2, CoreEffect, Whereabouts
      <4> QED BY <3>2, <4>1, <4>2
    <3>4. CASE letGo
      <4>1. pending
        BY <2>2, <3>2, <3>4 DEF pending, Silent
      <4> QED BY <3>3, <4>1, SlotOf
    <3>5. CASE ~letGo
      BY <3>3, <3>5, Whereabouts
    <3> QED BY <3>4, <3>5
  <2> QED BY <2>1, <2>2
<1> QED BY <1>1, <1>4, <1>9, <1>10 DEF Channel!LetGo

\* The step with which the core side has settled.
LEMMA SettleMaps ==
  ASSUME SettleEdges >= 5, ChannelInv, ChannelInv', NEW scan \in BOOLEAN, NEW core \in BOOLEAN,
         NEW trst \in BOOLEAN, Step(scan, core, trst),
         core => Core, ~core => UNCHANGED <<coreVars, regs, dbo>>, Moves, Silent,
         letGo, letGo' = FALSE, settle <= 1, settle' = 0, ~ResponseUnderWay'
  PROVE  Channel!Settle
<1>1. /\ TypeOK /\ Working /\ TransportInv' /\ Working' /\ SettleEdges \in Nat
      /\ request_toggle' = request_toggle /\ request_payload' = request_payload
      /\ InReset => InReset' /\ UNCHANGED scanVars
      /\ settle \in 0 .. SettleEdges
  BY SettleAssumption DEF ChannelInv, TransportInv, Moves, Silent, TypeOK
<1>2. answer = Any
  BY DEF ChannelInv, LettingGo
<1>3. /\ request_toggle_sync = request_toggle /\ request_toggle_seen = request_toggle
      /\ ~request_active
      /\ Following \/ InReset
  <2>1. settle <= SettleEdges - 1 /\ settle <= SettleEdges - 2 /\ settle <= SettleEdges - 3
        /\ settle <= SettleEdges - 4
    BY <1>1
  <2>2. Following => /\ request_toggle_sync = request_toggle /\ request_toggle_seen = request_toggle
                     /\ ~request_active
    BY <2>1 DEF Following
  <2>3. Overtaken => /\ request_toggle_sync = request_toggle /\ request_toggle_seen = request_toggle
                     /\ ~request_active
    BY <2>1 DEF Overtaken
  <2> QED BY <1>2, <2>2, <2>3 DEF ChannelInv, LettingGo
<1>4. ~dtm.en /\ Slot # "open" /\ Late = Any
  BY <1>1, <1>3, SlotOf, LateOf DEF Working
<1>5. Late' = Any /\ regs' = regs
  BY <1>4, LateOfNext, CoreEffect
<1>6. ~dtm'.en /\ request_toggle_seen' = request_toggle
  BY <1>3, <1>4, CoreEffect
<1>7. Slot' \in {Slot, "free"}
  <2>1. CASE InReset
    <3>1. pending' <=> pending
      BY <1>1, <2>1 DEF pending, scanVars
    <3> QED BY <1>1, <1>3, <1>4, <1>6, <3>1, SlotOf, SlotOfNext
  <2>2. CASE Following
    <3>1. Following'
      <4>1. SettleEdges >= 3
        BY <1>1
      <4> QED BY <2>2, <4>1, FollowingKept DEF ChannelInv
    <3>2. ~request_active' /\ ~read_capture' /\ request_toggle_seen' = request_toggle'
      <4>1. /\ settle' <= SettleEdges - 1 /\ settle' <= SettleEdges - 2
            /\ settle' <= SettleEdges - 3
        BY <1>1
      <4> QED BY <3>1, <4>1 DEF Following
    <3>3. response_toggle' = request_toggle'
      BY <1>1, <3>2 DEF Working
    <3>4. ~pending'
      BY <3>3 DEF ResponseUnderWay, pending
    <3> QED BY <3>4, SlotOfNext
  <2> QED BY <1>3, <2>1, <2>2
<1> QED BY <1>1, <1>4, <1>5, <1>7 DEF Channel!Settle

\* After that nothing moves until the next request.
LEMMA RestMaps ==
  ASSUME ChannelInv, ChannelInv', NEW core \in BOOLEAN,
         core => Core, ~core => UNCHANGED <<coreVars, regs, dbo>>, Moves, Silent,
         answer = Any, ~letGo, letGo' = FALSE
  PROVE  UNCHANGED Channel!channel
<1>1. /\ Settled /\ Working /\ letGo \in BOOLEAN
      /\ request_toggle' = request_toggle /\ request_payload' = request_payload
      /\ InReset => InReset' /\ UNCHANGED scanVars
      /\ RisingSync \/ FallingSync
  BY DEF ChannelInv, TransportInv, LettingGo, Moves, Silent
<1>2. ~dtm.en /\ request_toggle_sync = request_toggle /\ request_toggle_seen = request_toggle
  BY <1>1 DEF Settled, Working
<1>3. regs' = regs /\ ~dtm'.en /\ request_toggle_seen' = request_toggle
  BY <1>2, CoreEffect
<1>4. pending' <=> pending
  <2>1. CASE InReset
    BY <1>1, <2>1 DEF pending, scanVars
  <2>2. CASE ~InReset
    BY <1>1, <2>2 DEF Settled, pending, RisingSync, FallingSync, scanVars
  <2> QED BY <2>1, <2>2
<1>5. Slot' = Slot /\ Late' = Late
  BY <1>1, <1>2, <1>3, <1>4, SlotOf, SlotOfNext, LateOf, LateOfNext
<1> QED BY <1>1, <1>3, <1>5 DEF Channel!channel

\* A request on its way: it is carried out or given up, and then its slot is free.
LEMMA RequestMaps ==
  ASSUME ChannelInv, ChannelInv', NEW core \in BOOLEAN,
         core => Core, ~core => UNCHANGED <<coreVars, regs, dbo>>, Moves, Silent,
         answer # Any, letGo' = FALSE
  PROVE  Channel!Perform \/ Channel!Abort \/ Channel!Free \/ UNCHANGED Channel!channel
<1> DEFINE open == request_toggle # request_toggle_seen \/ dtm.en
<1>1. /\ Travelling /\ TypeOK /\ Working /\ letGo = FALSE
      /\ request_toggle' = request_toggle /\ request_payload' = request_payload
      /\ RisingSync \/ FallingSync
  BY DEF ChannelInv, TransportInv, Answering, LettingGo, Moves, Silent
<1>2. Arriving
  BY <1>1 DEF Travelling, Arriving
<1>3. open => Slot = "open" /\ pending'
  BY <1>1, Whereabouts DEF pending, RisingSync, FallingSync, scanVars
<1>4. letGo' = letGo /\ Late' = Late
  BY <1>1, LateOf, LateOfNext
<1>5. open' => open
  BY <1>1, <1>2, CoreEffect, Whereabouts DEF Arriving
<1>6. CASE open /\ open'
  <2>1. ~(core /\ dtm.en)
    BY <1>1, <1>2, <1>6, CoreEffect, Whereabouts
  <2>2. regs' = regs
    BY <2>1, CoreEffect
  <2>3. Slot' = Slot
    BY <1>3, <1>6, SlotOfNext
  <2> QED BY <1>1, <1>4, <2>2, <2>3 DEF Channel!channel
<1>7. CASE open /\ ~open'
  <2>1. Slot = "open" /\ Slot' = "done"
    BY <1>3, <1>7, SlotOfNext
  <2>2. CASE dtm.en
    <3>1. core
      BY <1>7, <2>2, CoreEffect
    <3>2. regs' = Stored(request_payload, regs)
      BY <1>1, <2>2, <3>1, CoreEffect, Whereabouts
    <3> QED BY <1>1, <1>4, <2>1, <3>2 DEF Channel!Perform
  <2>3. CASE ~dtm.en
    <3>1. regs' = regs
      BY <2>3, CoreEffect
    <3> QED BY <1>1, <1>4, <2>1, <3>1 DEF Channel!Abort
  <2> QED BY <2>2, <2>3
<1>8. CASE ~open /\ ~open'
  <2>1. regs' = regs
    BY <1>8, CoreEffect
  <2>2. ~pending => ~pending'
    BY <1>1 DEF Travelling, pending, RisingSync, FallingSync, scanVars, TypeOK, ScanType, CoreType
  <2>3. \/ Slot' = Slot
        \/ Slot = "done" /\ Slot' = "free"
    BY <1>8, <2>2, SlotOf, SlotOfNext
  <2> QED BY <1>1, <1>4, <2>1, <2>3 DEF Channel!Free, Channel!channel
<1> QED BY <1>5, <1>6, <1>7, <1>8

\* The edge that sends a request.
LEMMA SendMaps ==
  ASSUME SettleEdges >= 3, ChannelInv, NEW core \in BOOLEAN,
         core => Core, ~core => UNCHANGED <<coreVars, regs, dbo>>, Sends,
         RisingSync \/ FallingSync, letGo' = (letGo /\ (settle' # 0 \/ ResponseUnderWay'))
  PROVE  Channel!Send(dmi_shift_reg) /\ dmi_shift_reg \in Requests
<1>1. /\ settle = 0
      /\ request_toggle_meta = request_toggle /\ request_toggle_sync = request_toggle
      /\ request_toggle_seen = request_toggle /\ response_toggle = request_toggle
      /\ response_toggle_meta = request_toggle /\ response_toggle_sync = request_toggle
  BY DEF ChannelInv, TransportInv, Calm, Sends
<1>2. letGo = FALSE /\ letGo' = FALSE
  BY <1>1 DEF ChannelInv, LettingGo, ResponseUnderWay
<1>3. request_toggle_seen' = request_toggle /\ regs' = regs
  BY <1>1, CoreRests DEF ChannelInv
<1>4. response_toggle_sync' = request_toggle
  BY <1>1 DEF RisingSync, FallingSync, scanVars
<1>5. /\ request_toggle' # request_toggle /\ request_payload' = dmi_shift_reg
      /\ dmi_shift_reg \in Requests
  BY DEF Sends, ChannelInv, PayloadType
<1>6. Slot = "free" /\ Slot' = "open"
  BY <1>1, <1>3, <1>4, <1>5, SlotOf, SlotOfNext DEF pending
<1>7. Late' = Late
  BY <1>2, LateOf, LateOfNext
<1> QED BY <1>2, <1>3, <1>5, <1>6, <1>7 DEF Channel!Send

\* The reset of the whole transport.
LEMMA ResetMaps ==
  ASSUME ChannelInv, ChannelInv', Reset
  PROVE  Channel!Reset
<1>1. /\ ScanType /\ letGo \in BOOLEAN /\ request_payload' \in Requests
  BY DEF ChannelInv, TransportInv, TypeOK, LettingGo, PayloadType
<1>2. /\ request_toggle' = FALSE /\ response_toggle_sync' = FALSE /\ letGo' = FALSE
      /\ regs' = IF dtm.en THEN Stored(InAccess, regs) ELSE regs
  BY <1>1, ResetClears DEF Reset, DebugModule
<1>3. Slot' = "free" /\ Late' = Any
  BY <1>2, SlotOfNext, LateOfNext DEF pending
<1>4. InAccess # Any
  <2>1. InAccess.op \in {READ, WRITE} /\ Any.op = 3
    BY DEF InAccess, Any, BUSY
  <2> QED BY <2>1 DEF READ, WRITE
<1>5. \/ regs' = regs
      \/ Slot = "open" /\ regs' = Stored(request_payload, regs)
      \/ Late # Any /\ regs' = Stored(Late, regs)
  <2>1. CASE dtm.en /\ letGo
    BY <1>2, <1>4, <2>1, LateOf
  <2>2. CASE dtm.en /\ ~letGo
    BY <1>2, <2>2, Whereabouts
  <2> QED BY <1>2, <2>1, <2>2
<1> QED BY <1>1, <1>2, <1>3, <1>5 DEF Channel!Reset

\* Every step of the transport is a step of the channel, or none.
LEMMA StepMaps ==
  ASSUME SettleEdges >= 5, ChannelInv, ChannelInv', [Next]_vars
  PROVE  [Channel!Next]_(Channel!channel)
<1>1. /\ BridgeInv /\ TransportInv /\ LettingGo /\ PayloadType'
      /\ SettleEdges \in Nat /\ SettleEdges >= 3 /\ settle \in 0 .. SettleEdges
  BY SettleAssumption DEF ChannelInv, TransportInv, TypeOK, BridgeInv
<1>2. CASE Next /\ ~Reset
  <2>1. PICK scan \in BOOLEAN, core \in BOOLEAN, trst \in BOOLEAN : Step(scan, core, trst)
    BY <1>1, <1>2, EdgeIsStep
  <2> DEFINE cleared == scan /\ Cleared(trst)
  <2>2. /\ core => Core
        /\ ~core => UNCHANGED <<coreVars, regs, dbo>>
        /\ letGo' = (cleared \/ (letGo /\ (settle' # 0 \/ ResponseUnderWay')))
    BY <2>1 DEF Step, Bookkeeping
  <2>3. CASE cleared
    <3>1. Clears /\ letGo' = TRUE
      BY <2>1, <2>2, <2>3, Zenon DEF Step
    <3>2. \/ request_payload' = Zero
          \/ Silent /\ Arriving /\ ~letGo
      <4>1. CASE InReset' /\ ~InReset /\ Silent /\ answer = Any
        BY <1>1, <4>1 DEF LettingGo, Following, Silent
      <4>2. CASE InReset' /\ ~InReset /\ Silent /\ answer # Any
        BY <1>1, <4>2 DEF LettingGo, TransportInv, Answering, Travelling, Arriving
      <4> QED BY <3>1, <4>1, <4>2 DEF Clears
    <3>3. Channel!LetGo
      BY <1>1, <2>2, <3>1, <3>2, LetGoMaps
    <3> QED BY <3>3 DEF Channel!Next
  <2>4. CASE ~cleared /\ scan /\ Sent
    <3>1. Sends /\ (RisingSync \/ FallingSync)
      BY <2>1, <2>4 DEF Step, Moves, Silent, Sent
    <3>2. letGo' = (letGo /\ (settle' # 0 \/ ResponseUnderWay'))
      BY <2>2, <2>4, Zenon
    <3>3. Channel!Send(dmi_shift_reg) /\ dmi_shift_reg \in Requests
      BY <1>1, <2>2, <3>1, <3>2, SendMaps
    <3> QED BY <3>3 DEF Channel!Next
  <2>5. CASE ~cleared /\ ~(scan /\ Sent)
    <3>1. Moves /\ Silent
      <4>1. CASE scan
        BY <2>1, <2>5, <4>1 DEF Step, Moves, Sends, Sent
      <4>2. CASE ~scan
        BY <1>1, <2>1, <4>2, ScanRests DEF Step
      <4> QED BY <4>1, <4>2
    <3>2. letGo' = (letGo /\ (settle' # 0 \/ ResponseUnderWay'))
      BY <2>2, <2>5, Zenon
    <3>3. CASE letGo' /\ letGo
      <4>1. answer = Any /\ letGo' = TRUE
        BY <1>1, <3>2, <3>3 DEF LettingGo
      <4>2. \/ request_payload' = Zero
            \/ Silent /\ Arriving /\ UNCHANGED response_toggle_sync
        <5>1. CASE Following
          BY <3>1, <5>1 DEF Following, Silent
        <5>2. CASE InReset /\ Overtaken
          BY <3>1, <5>2 DEF Overtaken, Moves, scanVars
        <5> QED BY <1>1, <4>1, <5>1, <5>2 DEF LettingGo
      <4>3. Channel!LetGo
        BY <1>1, <2>2, <4>1, <4>2, LetGoMaps
      <4> QED BY <4>3 DEF Channel!Next
    <3>4. CASE letGo /\ ~letGo'
      <4>1. settle' = 0 /\ ~ResponseUnderWay' /\ letGo' = FALSE
        BY <3>2, <3>4
      <4>2. settle <= 1
        BY <1>1, <2>1, <4>1, Counting
      <4>3. Channel!Settle
        BY <1>1, <2>1, <2>2, <3>1, <3>4, <4>1, <4>2, SettleMaps
      <4> QED BY <4>3 DEF Channel!Next
    <3>5. CASE ~letGo
      <4>1. letGo' = FALSE
        BY <3>2, <3>5
      <4>2. CASE answer = Any
        BY <2>2, <3>1, <3>5, <4>1, <4>2, RestMaps
      <4>3. CASE answer # Any
        BY <2>2, <3>1, <4>1, <4>3, RequestMaps DEF Channel!Next
      <4> QED BY <4>2, <4>3
    <3> QED BY <3>2, <3>3, <3>4, <3>5
  <2> QED BY <2>3, <2>4, <2>5
<1>3. CASE Reset
  BY <1>3, ResetMaps DEF Channel!Next
<1>4. CASE UNCHANGED vars
  BY <1>4 DEF vars, scanAll, frontVars, scanVars, coreVars, hostVars, Channel!channel, Slot, Late,
     InAccess, pending
<1> QED BY <1>2, <1>3, <1>4

\* The transport starts as a channel.
LEMMA ChannelStarts ==
  ASSUME Init
  PROVE  ChannelInv /\ Channel!Init
<1>1. Zero \in Requests /\ 0 \in Adr /\ 0 \in Data /\ Zero # Any
  <2>1. Zero.op = 0 /\ Any.op = 3
    BY DEF Zero, Any, BUSY
  <2> QED BY <2>1, ZeroAssumption DEF Zero, Requests, NOP
<1>2. /\ request_payload = Zero /\ dmi_shift_reg = Zero /\ response_payload = Zero
      /\ dtm = [en |-> FALSE, we |-> FALSE, adr |-> 0, dbi |-> 0]
      /\ regs = InitRegs /\ dbo = 0 /\ letGo = FALSE /\ answer = Zero /\ ~request_active
      /\ request_toggle = FALSE /\ response_toggle_sync = FALSE
  BY DEF Init, BridgeInit
<1>3. PayloadType
  BY <1>1, <1>2 DEF PayloadType, InitRegs
<1>4. TransportInv /\ LettingGo
  BY <1>1, <1>2, TransportStarts DEF LettingGo
<1>5. Slot = "free" /\ Late = Any
  BY <1>2, SlotOf, LateOf DEF pending
<1> QED BY <1>1, <1>2, <1>3, <1>4, <1>5 DEF ChannelInv, Channel!Init

-----------------------------------------------------------------------------
(* The theorems.                                                           *)

\* The core side has answered what it has taken, or works on it
\* (rtl/debug/dtm_transport.py, core_clock).
THEOREM BridgeInvariant == Spec => []BridgeInv
<1>1. Init => BridgeInv
  BY BridgeStarts
<1>2. BridgeInv /\ [Next]_vars => BridgeInv'
  BY BridgeKept
<1> QED BY <1>1, <1>2, PTL DEF Spec

\* No request gets lost, however long the host waits after a reset
\* (rtl/debug/dtm_transport.py: the toggle of an answer).
THEOREM SpecNothingLost == Spec => []NothingLost
<1>1. BridgeInv => NothingLost
  BY QuietIsAnswered
<1> QED BY <1>1, BridgeInvariant, PTL

\* Where the host leaves the core side three clocks after dtmhardreset and after a
\* reset of the TAP, each toggle has arrived before the next one starts
\* (rtl/debug/dtm_transport.py, tb/debug/jtag_api.py: settle_sysclk_cycles).
THEOREM Invariant ==
  ASSUME SettleEdges >= 3
  PROVE  Spec => []TransportInv
<1>1. Init => TransportInv
  BY TransportStarts
<1>2. TransportInv /\ [Next]_vars => TransportInv'
  BY TransportKept
<1> QED BY <1>1, <1>2, PTL DEF Spec

\* A scan that finds no request pending reads the answer of the last request
\* (rtl/debug/jtag_dtm.py and rtl/debug/ecp5_jtagg_client.py, capture of DMI).
THEOREM SpecAnswerIsOwn ==
  ASSUME SettleEdges >= 3
  PROVE  Spec => []AnswerIsOwn
<1>1. TransportInv => AnswerIsOwn
  BY AnswerIsThere
<1> QED BY <1>1, Invariant, PTL

\* What holds of a request let go, and of the payloads, where the host leaves the core
\* side as many clocks as an access takes (rtl/debug/dtm_transport.py,
\* tb/debug/jtag_api.py: settle_sysclk_cycles).
THEOREM ChannelInvariant ==
  ASSUME SettleEdges >= 5
  PROVE  Spec => []ChannelInv
<1>1. Init => ChannelInv
  BY ChannelStarts
<1>2. ChannelInv /\ [Next]_vars => ChannelInv'
  <2>1. SettleEdges >= 3
    BY SettleAssumption
  <2> QED BY <2>1, TransportKept, PayloadKept, LettingGoKept DEF ChannelInv
<1> QED BY <1>1, <1>2, PTL DEF Spec

\* The transport is a channel with one slot: every request takes effect once, before
\* its slot is free, or is given up; none comes out of nothing
\* (rtl/debug/dtm_transport.py, core_clock, and either front end).
THEOREM SpecChannel ==
  ASSUME SettleEdges >= 5
  PROVE  Spec => ChannelSpec
<1>1. Init => Channel!Init
  BY ChannelStarts
<1>2. ChannelInv /\ ChannelInv' /\ [Next]_vars => [Channel!Next]_(Channel!channel)
  BY StepMaps
<1> QED BY <1>1, <1>2, ChannelInvariant, PTL DEF Spec, ChannelSpec, Channel!Spec

===============================================================================
