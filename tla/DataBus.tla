------------------------------ MODULE DataBus ------------------------------
(***************************************************************************)
(* The data side of the system on chip: the load/store unit of the core,   *)
(* the interconnect and its slaves, as rtl/soc/bonfire_core_soc.py and     *)
(* rtl/uncore/bonfire_core_ex.py connect them.                             *)
(***************************************************************************)
EXTENDS LoadStoreUnit, SocSlaves

CONSTANTS
    Program         \* the addresses that the program uses

ASSUME ProgramAssumption == Program \subseteq Address

BusRequests == [rd : Rd, store : BOOLEAN, adr : Program]
ASSUME RequestsAssumption == Requests = BusRequests

VARIABLES
    adr_o,          \* bus.adr_o of the load/store unit
    memory,         \* history: [Program -> its last store to RAM or LEDs, or Nothing]
    current,        \* history: {} or the request at work and what a load of
                    \* it has to return
    unanswered      \* history: current until its answer arrives, then {}

vars == <<lsuVars, icVars, slaveVars, adr_o, memory, current, unanswered>>

seen == slave_en(bus_en, adr_o)
request == [rd |-> bus_op.rd, store |-> bus_op.store, adr |-> adr_o]
Keeps(a) == windows(a) \in {{Bram}, {Native}} /\ Assigned(a)
Named(value) == IF value = Nothing THEN Junk ELSE value.rd

-----------------------------------------------------------------------------
(* One clock edge of unit, interconnect and slaves. *)

Clock(ops, adr, sl) ==
    LET ack == master_ack(bus_en, adr_o, sl)
        error == master_error(bus_en, adr_o, sl)
        stall == master_stall(bus_en, adr_o, sl)
        data == master_data(bus_en, adr_o, sl)
        taken == Taken(ops, stall, ack)
        new == {[rd |-> op.rd, store |-> op.store, adr |-> adr] : op \in taken}
    IN  /\ LsuClock(ops, stall, ack, error, Named(data))
        /\ IcClock(bus_en, adr_o, request, sl)
        /\ SlavesClock(seen, request, sl)
        /\ adr_o' = IF taken = {} THEN adr_o ELSE adr
        /\ memory' = [a \in Program |->
                          IF Keeps(a) /\ \E r \in new : r.store /\ r.adr = a
                          THEN CHOOSE r \in new : TRUE ELSE memory[a]]
        /\ current' = IF taken = {} THEN current
                      ELSE {[request |-> r,
                             value |-> IF Wishbone \in windows(adr) THEN r
                                       ELSE memory[adr]] : r \in new}
        /\ unanswered' = IF taken # {} THEN current'
                         ELSE IF confirm(ack, error) THEN {} ELSE unanswered

Init ==
    /\ adrmasks = SocMap
    /\ LsuInit /\ IcInit /\ SlavesInit
    /\ adr_o \in Program /\ memory = [a \in Program |-> Nothing]
    /\ current = {} /\ unanswered = {}

\* The operations execute can offer; names rotate.
Offers == {op \in Op : /\ op.rd # pipe[0].rd
                       /\ ~op.misalign /\ ~op.invalid_op /\ op.width = "word"}
Choices == {{}} \cup {{op} : op \in Offers}

Next == \E ops \in Choices, sl \in SlaveOutputs(seen, request) :
            \E adr \in IF ops = {} THEN {adr_o} ELSE Program : Clock(ops, adr, sl)

Spec == Init /\ [][Next]_vars

(* The clock runs, and the Wishbone slave acknowledges in the end.         *)
ClockRuns == \E sl \in SlaveOutputs(seen, request) : Clock({}, adr_o, sl)
SlaveAnswers == \E sl \in SlaveOutputs(seen, request) :
                    Wishbone \in sl.ack /\ Clock({}, adr_o, sl)

FairSpec == Spec /\ WF_vars(ClockRuns) /\ WF_vars(SlaveAnswers)

-----------------------------------------------------------------------------
(* Properties. *)

\* The Wishbone cycle stands until it is acknowledged, with the one request
\* that is unanswered: an early end or a change would leave the external slave
\* with an access that nobody waits for (DbusToWishbone, the register stage).
WishboneHeld ==
    served # Nothing =>
        /\ wb_stb(seen) /\ slave_request(Wishbone, request) = served
        /\ outstanding = 1 /\ \E c \in unanswered : c.request = served

\* A load returns what the last store of the program to its address left, or
\* the word that the Wishbone slave returned for this very load: no answer is
\* taken from the wrong slave, too early or too late.
OwnData ==
    (valid_reg /\ we_o /\ ~bus_error_o) =>
        \E c \in current : result_o.word = Named(c.value) /\ rd_o = c.request.rd

\* An access to an address without a slave is answered with an error, all
\* others without one (docs/soc/SOC.md:83-84).
ErrorIffUnmapped ==
    valid_reg => \A c \in current :
        bus_error_o <=> (Unmapped(c.request.adr) \/ ~Assigned(c.request.adr))

\* The last answer was an error of the native window, the window is still
\* selected, and the access at work is for another one: it waits for the
\* acknowledge of an access that has ended (dbus_interconnect.py:158).
HeldUp ==
    /\ bus_error_o /\ ic_busy /\ s_en_r = {Native}
    /\ \E c \in unanswered : Native \notin windows(c.request.adr)

\* Every access is answered, also after an error of the interconnect and after
\* an error of the native window if the next access is to that window.  The
\* exception is HeldUp: an unassigned native address stops the core at its next
\* access elsewhere, a restriction of the design (README).
Answered == unanswered # {} ~> (unanswered = {} \/ HeldUp)

=============================================================================
