---------------------------- MODULE DmiCdcBridge ----------------------------
(***************************************************************************)
(* The clock domain crossing of the debug transport                        *)
(* (rtl/debug/dtm_transport.py): a request crosses as a toggle next to a   *)
(* stable payload, its answer crosses back the same way.  ScanSide and     *)
(* CoreSide are the bridge at a clock edge of either domain.               *)
(***************************************************************************)
EXTENDS Naturals

CONSTANTS Adr, Data     \* addresses and values of the DMI, both with 0

ASSUME ZeroAssumption == 0 \in Adr /\ 0 \in Data

(* The operation field.  A response uses the codes of nop for success. *)
NOP == 0
READ == 1
WRITE == 2
BUSY == 3
SUCCESS == NOP

Payload == [op : {NOP, READ, WRITE, BUSY}, adr : Adr, data : Data]
Zero == [op |-> 0, adr |-> 0, data |-> 0]

VARIABLES
    request_payload, request_toggle, dtmhardreset_toggle,   \* from the front end
    response_toggle_meta, response_toggle_sync,             \* scan clock
    request_toggle_meta, request_toggle_sync, request_toggle_seen,
    dtmhardreset_toggle_meta, dtmhardreset_toggle_sync, dtmhardreset_toggle_seen,
    request_active, read_pending, read_capture,             \* core clock
    response_payload, response_toggle,
    dtm                 \* the bundle to the debug module: en, we, adr, dbi

frontVars == <<request_payload, request_toggle, dtmhardreset_toggle>>
scanVars == <<response_toggle_meta, response_toggle_sync>>
syncVars == <<request_toggle_meta, request_toggle_sync,
              dtmhardreset_toggle_meta, dtmhardreset_toggle_sync>>
workVars == <<request_active, read_pending, read_capture>>
coreVars == <<syncVars, request_toggle_seen, dtmhardreset_toggle_seen, workVars,
              response_payload, response_toggle, dtm>>

pending == request_toggle # response_toggle_sync

\* The two flip-flops that take the response toggle to the scan clock.
ScanSide(cleared) ==
    IF cleared
    THEN response_toggle_meta' = FALSE /\ response_toggle_sync' = FALSE
    ELSE /\ response_toggle_meta' = response_toggle
         /\ response_toggle_sync' = response_toggle_meta

CoreReset ==
    /\ request_toggle_meta' = FALSE /\ request_toggle_sync' = FALSE
    /\ request_toggle_seen' = FALSE
    /\ dtmhardreset_toggle_meta' = FALSE /\ dtmhardreset_toggle_sync' = FALSE
    /\ dtmhardreset_toggle_seen' = FALSE
    /\ request_active' = FALSE /\ read_pending' = FALSE /\ read_capture' = FALSE
    /\ response_payload' = Zero /\ response_toggle' = FALSE
    /\ dtm' = [en |-> FALSE, we |-> FALSE, adr |-> 0, dbi |-> 0]

Synchronize ==
    /\ request_toggle_meta' = request_toggle
    /\ request_toggle_sync' = request_toggle_meta
    /\ dtmhardreset_toggle_meta' = dtmhardreset_toggle
    /\ dtmhardreset_toggle_sync' = dtmhardreset_toggle_meta

hardreset == dtmhardreset_toggle_sync # dtmhardreset_toggle_seen
newRequest == request_toggle_sync # request_toggle_seen

\* mutant: the reset does not answer for the request it drops
HardResetUnanswered ==
    /\ dtmhardreset_toggle_seen' = dtmhardreset_toggle_sync
    /\ request_toggle_seen' = request_toggle_sync
    /\ request_active' = FALSE /\ read_pending' = FALSE /\ read_capture' = FALSE
    /\ response_payload' = Zero /\ UNCHANGED response_toggle
    /\ dtm' = [dtm EXCEPT !.en = FALSE, !.we = FALSE]

\* mutant: the reset answers for the request but does not take it
HardResetUnseen ==
    /\ dtmhardreset_toggle_seen' = dtmhardreset_toggle_sync
    /\ UNCHANGED request_toggle_seen
    /\ request_active' = FALSE /\ read_pending' = FALSE /\ read_capture' = FALSE
    /\ response_payload' = Zero /\ response_toggle' = request_toggle_sync
    /\ dtm' = [dtm EXCEPT !.en = FALSE, !.we = FALSE]

\* dtmhardreset drops what is under way and answers in its place.
HardReset ==
    /\ dtmhardreset_toggle_seen' = dtmhardreset_toggle_sync
    /\ request_toggle_seen' = request_toggle_sync
    /\ request_active' = FALSE /\ read_pending' = FALSE /\ read_capture' = FALSE
    /\ response_payload' = Zero
    /\ response_toggle' = request_toggle_sync
    /\ dtm' = [dtm EXCEPT !.en = FALSE, !.we = FALSE]

\* mutant: a read is answered before its data are there
EndAccessEarly ==
    /\ dtm' = [dtm EXCEPT !.en = FALSE, !.we = FALSE]
    /\ request_active' = FALSE /\ read_pending' = FALSE
    /\ read_capture' = (read_pending \/ read_capture)
    /\ response_toggle' = request_toggle_seen
    /\ UNCHANGED <<request_toggle_seen, dtmhardreset_toggle_seen, response_payload>>

\* The enable lasts one clock; a read waits one more for the data.
EndAccess ==
    /\ dtm' = [dtm EXCEPT !.en = FALSE, !.we = FALSE]
    /\ request_active' = FALSE /\ read_pending' = FALSE
    /\ read_capture' = (read_pending \/ read_capture)
    /\ response_toggle' = IF read_pending THEN response_toggle ELSE request_toggle_seen
    /\ UNCHANGED <<request_toggle_seen, dtmhardreset_toggle_seen, response_payload>>

CaptureRead(dbo) ==
    /\ response_payload' = [response_payload EXCEPT !.op = SUCCESS, !.data = dbo]
    /\ response_toggle' = request_toggle_seen
    /\ read_capture' = FALSE
    /\ UNCHANGED <<request_toggle_seen, dtmhardreset_toggle_seen, request_active,
                   read_pending, dtm>>

TakeRequest ==
    LET r == request_payload
        access == r.op \in {READ, WRITE}
    IN  /\ request_toggle_seen' = request_toggle_sync
        /\ dtm' = [en |-> access, we |-> r.op = WRITE, adr |-> r.adr, dbi |-> r.data]
        /\ response_payload' = [op |-> SUCCESS, adr |-> r.adr, data |-> 0]
        /\ request_active' = access
        /\ read_pending' = (r.op = READ \/ read_pending)
        /\ response_toggle' = IF access THEN response_toggle ELSE request_toggle_sync
        /\ UNCHANGED <<dtmhardreset_toggle_seen, read_capture>>

\* The bridge at an edge of the core clock; dbo is what the debug module shows.
CoreSide(reset, dbo) ==
    IF reset THEN CoreReset
    ELSE /\ Synchronize
         /\ \/ hardreset /\ HardReset
            \/ ~hardreset /\ request_active /\ EndAccess
            \/ ~hardreset /\ ~request_active /\ read_capture /\ CaptureRead(dbo)
            \/ ~hardreset /\ ~request_active /\ ~read_capture /\ newRequest /\ TakeRequest
            \/ /\ ~hardreset /\ ~request_active /\ ~read_capture /\ ~newRequest
               /\ UNCHANGED <<request_toggle_seen, dtmhardreset_toggle_seen, workVars,
                              response_payload, response_toggle, dtm>>

BridgeInit ==
    /\ request_payload = Zero /\ request_toggle = FALSE /\ dtmhardreset_toggle = FALSE
    /\ response_toggle_meta = FALSE /\ response_toggle_sync = FALSE
    /\ request_toggle_meta = FALSE /\ request_toggle_sync = FALSE
    /\ request_toggle_seen = FALSE
    /\ dtmhardreset_toggle_meta = FALSE /\ dtmhardreset_toggle_sync = FALSE
    /\ dtmhardreset_toggle_seen = FALSE
    /\ request_active = FALSE /\ read_pending = FALSE /\ read_capture = FALSE
    /\ response_payload = Zero /\ response_toggle = FALSE
    /\ dtm = [en |-> FALSE, we |-> FALSE, adr |-> 0, dbi |-> 0]

=============================================================================
