-------------------------- MODULE DbusInterconnect --------------------------
(***************************************************************************)
(* The data bus interconnect, rtl/uncore/dbus_interconnect.py (AdrMask and *)
(* MasterNSlaveSignals): the address windows and the validation of a       *)
(* mapping, the address decode, the memory of the selected slave and the   *)
(* optional register stage in front of a slave.                            *)
(*                                                                         *)
(* A bit vector is the set of the bits that are one, so & is \cap, and a   *)
(* field's value is kept at its place in the address (base_address). The   *)
(* bit vectors s_en and mux_sel are sets of slaves.                        *)
(***************************************************************************)
EXTENDS Naturals

CONSTANTS
    Slaves,         \* the active slots of the interconnect
    Xlen            \* width of an address

ASSUME XlenAssumption == Xlen \in Nat \ {0}

Bits == 0 .. Xlen - 1
Address == SUBSET Bits

\* The bits lower .. upper-1 of an address are compared with a value; the
\* value fits the field and the field is not empty (_validate_adrmask).
address_mask(m) == m.lower .. m.upper - 1

AdrMask == {m \in [upper : 1 .. Xlen, lower : Bits, base : SUBSET Bits] :
                m.lower < m.upper /\ m.base \subseteq address_mask(m)}

adrsel(m, adr) == adr \cap address_mask(m) = m.base

\* mutant: only the base addresses are compared
overlapBase(a, b) == a.base = b.base
\* Two windows overlap when their values agree where both compare.
overlap(a, b) == a.base \cap address_mask(b) = b.base \cap address_mask(a)

\* The maps that pass _validate_and_log_mapping.
Mappings ==
    {m \in [Slaves -> AdrMask] :
        \A i, j \in Slaves : i # j => ~overlap(m[i], m[j])}

VARIABLES
    adrmasks        \* [Slaves -> AdrMask]: fixed when the design is built

windows(adr) == {i \in Slaves : adrsel(adrmasks[i], adr)}

Unmapped(adr) == windows(adr) = {}

-----------------------------------------------------------------------------
(* The interconnect. *)

CONSTANTS
    Registrations,      \* the choices of register_slaveN
    Requests,           \* what travels over the bus: a request and its data
    Nothing             \* no request, no data

ASSUME NothingAssumption == Nothing \notin Requests
ASSUME RegistrationsAssumption == Registrations \subseteq SUBSET Slaves

VARIABLES
    registered_slaves,  \* slots with a register stage, fixed like adrmasks
    ic_busy,        \* a slave is selected and has not acknowledged
    s_en_r,         \* the remembered selection
    stage           \* their register stages

icVars == <<adrmasks, registered_slaves, ic_busy, s_en_r, stage>>

Stages == [state : {"idle", "request", "wait_response", "response"},
           request : Requests \cup {Nothing}, data_r : Requests \cup {Nothing},
           ack_r : BOOLEAN, error_r : BOOLEAN]

IcTypeOK ==
    /\ adrmasks \in Mappings /\ registered_slaves \in Registrations
    /\ ic_busy \in BOOLEAN
    /\ s_en_r \in SUBSET Slaves
    /\ stage \in [registered_slaves -> Stages]

IcInit ==
    /\ registered_slaves \in Registrations
    /\ ic_busy = FALSE /\ s_en_r = {}
    /\ stage = [i \in registered_slaves |->
                   [state |-> "idle", request |-> Nothing, data_r |-> Nothing,
                    ack_r |-> FALSE, error_r |-> FALSE]]

-----------------------------------------------------------------------------
(* Combinational signals.  en and adr come from the master; sl is what the *)
(* slaves drive: [ack, error, stall : SUBSET Slaves, data : [Slaves -> ..]]*)

s_en(en, adr) == IF en THEN windows(adr) ELSE {}

mux_selNow(en, adr) == s_en(en, adr)        \* mutant: the selection is not remembered
mux_sel(en, adr) == IF ic_busy THEN s_en_r ELSE s_en(en, adr)

selection_stall(en, adr) == ic_busy /\ en /\ s_en(en, adr) # s_en_r

\* The slaves that see a request on their port, and the request they see.
slave_en(en, adr) ==
    {i \in registered_slaves : stage[i].state = "request"} \cup
    (IF selection_stall(en, adr) THEN {} ELSE s_en(en, adr) \ registered_slaves)

slave_request(i, request) == IF i \in registered_slaves THEN stage[i].request ELSE request

\* What each slot answers: at once, or out of its register stage.
slot_ack(sl) == (sl.ack \ registered_slaves) \cup
    {i \in registered_slaves : stage[i].state = "response" /\ stage[i].ack_r}
slot_error(sl) == (sl.error \ registered_slaves) \cup
    {i \in registered_slaves : stage[i].state = "response" /\ stage[i].error_r}
slot_stall(sl) == (sl.stall \ registered_slaves) \cup
    {i \in registered_slaves : stage[i].state # "idle"}

master_ack(en, adr, sl) == mux_sel(en, adr) \cap slot_ack(sl) # {}

master_error(en, adr, sl) ==
    IF mux_sel(en, adr) = {} THEN en ELSE mux_sel(en, adr) \cap slot_error(sl) # {}

master_stall(en, adr, sl) ==
    selection_stall(en, adr) \/ mux_sel(en, adr) \cap slot_stall(sl) # {}

\* mutant: the data of a register stage are not looked at
master_dataDirect(en, adr, sl) ==
    LET i == CHOOSE i \in mux_sel(en, adr) : TRUE
    IN  IF mux_sel(en, adr) = {} THEN Nothing ELSE sl.data[i]
master_data(en, adr, sl) ==
    LET i == CHOOSE i \in mux_sel(en, adr) : TRUE
    IN  IF mux_sel(en, adr) = {} THEN Nothing
        ELSE IF i \in registered_slaves THEN stage[i].data_r ELSE sl.data[i]

-----------------------------------------------------------------------------
(* One clock edge. *)

\* Only an acknowledge ends a selection.
Select(en, adr, sl) ==
    \/ /\ ic_busy
       /\ ic_busy' = ~master_ack(en, adr, sl)
       /\ UNCHANGED s_en_r
    \/ /\ ~ic_busy
       /\ ic_busy' = (s_en(en, adr) # {} /\ ~master_ack(en, adr, sl))
       /\ s_en_r' = s_en(en, adr)

\* mutant: a stalled request is taken for accepted
StageClockImpatient(i, en, adr, request, sl) ==
    LET s == stage[i]
    IN  CASE s.state = "idle" ->
               IF i \in s_en(en, adr) /\ ~selection_stall(en, adr)
               THEN [s EXCEPT !.state = "request", !.request = request] ELSE s
          [] s.state \in {"request", "wait_response"} ->
               IF i \in sl.ack \cup sl.error
               THEN [s EXCEPT !.state = "response", !.ack_r = (i \in sl.ack),
                              !.error_r = (i \in sl.error), !.data_r = sl.data[i]]
               ELSE [s EXCEPT !.state = "wait_response"]
          [] s.state = "response" -> [s EXCEPT !.state = "idle"]

\* The register stage of slave i holds one request and one answer.
StageClock(i, en, adr, request, sl) ==
    LET s == stage[i]
        Answered == [s EXCEPT !.state = "response", !.ack_r = (i \in sl.ack),
                              !.error_r = (i \in sl.error), !.data_r = sl.data[i]]
        answer == i \in sl.ack \cup sl.error
    IN  CASE s.state = "idle" ->
               IF i \in s_en(en, adr) /\ ~selection_stall(en, adr)
               THEN [s EXCEPT !.state = "request", !.request = request,
                              !.ack_r = FALSE, !.error_r = FALSE]
               ELSE [s EXCEPT !.ack_r = FALSE, !.error_r = FALSE]
          [] s.state \in {"request", "wait_response"} ->
               IF answer THEN Answered
               ELSE IF i \in sl.stall THEN s ELSE [s EXCEPT !.state = "wait_response"]
          [] s.state = "response" -> [s EXCEPT !.state = "idle"]

IcClock(en, adr, request, sl) ==
    /\ UNCHANGED <<adrmasks, registered_slaves>>
    /\ Select(en, adr, sl)
    /\ stage' = [i \in registered_slaves |-> StageClock(i, en, adr, request, sl)]

=============================================================================
