-------------------------- MODULE InterconnectBus --------------------------
(***************************************************************************)
(* The interconnect between a master that presents its next request as     *)
(* early as the pipelined bus allows (rtl/bonfire_interfaces.py,           *)
(* DbusBundle) and slaves with and without a register stage.               *)
(*                                                                         *)
(* A slave serves one request at a time, answers it in the clock of the    *)
(* request (RAM writes, rtl/uncore/ram_dp.py; the Wishbone bridge) or any  *)
(* number of clocks later (RAM reads), and may stall a request before it   *)
(* accepts it. The slaves in Failing may answer with error_i, as the       *)
(* nested interconnect of the native peripherals does for an address it    *)
(* does not decode (rtl/soc/bonfire_core_soc.py). At most one answers in a *)
(* clock.                                                                  *)
(***************************************************************************)
EXTENDS DbusInterconnect, Sequences

CONSTANTS
    Failing         \* slaves that may answer error_i in place of ack_i

ASSUME FailingAssumption == Failing \subseteq Slaves

VARIABLES
    owes            \* [Slaves -> request accepted and not answered, or Nothing]

SlavesInit == owes = [i \in Slaves |-> Nothing]

Owing == {i \in Slaves : owes[i] # Nothing}

\* The ways to answer: slave i answers what it owes or, if it does not stall,
\* the request it sees.  Other slaves stall what they cannot accept yet.
Answers(seen) ==
    {a \in [slave : Slaves, failed : BOOLEAN, stall : SUBSET seen] :
        /\ a.failed => a.slave \in Failing
        /\ a.slave \in Owing \cup (seen \ a.stall)
        /\ (Owing \cap seen) \ {a.slave} \subseteq a.stall}

Silent == [i \in Slaves |-> Nothing]

\* What the slaves drive when the slaves `seen` see a request.
SlaveOutputs(seen, request) ==
    {[ack |-> {}, error |-> {}, stall |-> stall, data |-> Silent] :
        stall \in {s \in SUBSET seen : Owing \cap seen \subseteq s}} \cup
    {[ack |-> IF a.failed THEN {} ELSE {a.slave},
      error |-> IF a.failed THEN {a.slave} ELSE {},
      stall |-> a.stall,
      data |-> [Silent EXCEPT ![a.slave] =
                   IF a.slave \in Owing THEN owes[a.slave]
                   ELSE slave_request(a.slave, request)]] : a \in Answers(seen)}

\* A slave that answers what it owes may accept the next request right away.
SlavesClock(seen, request, sl) ==
    LET answers == sl.ack \cup sl.error
        accepts == (seen \ sl.stall) \ (answers \ Owing)
    IN  owes' = [i \in Slaves |-> IF i \in accepts THEN slave_request(i, request)
                                  ELSE IF i \in answers THEN Nothing ELSE owes[i]]

-----------------------------------------------------------------------------
(* The master. *)

CONSTANTS
    Pipelined       \* the master also overlaps requests to one slave that
                    \* has no register stage

ASSUME PipelinedAssumption == Pipelined \in BOOLEAN

VARIABLES
    en_o, adr_o, request,   \* the master's port; request names the transfer
    sent,       \* history: accepted and unanswered requests, oldest first
    answer      \* history: {} or what the master got in the last clock

vars == <<icVars, owes, en_o, adr_o, request, sent, answer>>

Transfer == [request : Requests, adr : Address]

Accepted(sl) ==
    IF en_o /\ ~master_stall(en_o, adr_o, sl)
    THEN Append(sent, [request |-> request, adr |-> adr_o]) ELSE sent

\* An acknowledge or an error ends the oldest transfer.
Deliver(sl) ==
    LET ack == master_ack(en_o, adr_o, sl)
        error == master_error(en_o, adr_o, sl)
        now == Accepted(sl)
    IN  IF ack \/ error
        THEN /\ answer' = {[error |-> error, data |-> master_data(en_o, adr_o, sl),
                            transfer |-> IF now = <<>> THEN {} ELSE {Head(now)}]}
             /\ sent' = IF now = <<>> THEN <<>> ELSE Tail(now)
        ELSE answer' = {} /\ sent' = now

\* The master holds a request that is stalled; otherwise it may raise the
\* next one.  Unless it is Pipelined, it waits for the answer of a slave
\* without a register stage before it addresses that slave again.
MayOverlap(adr) ==
    \/ Pipelined \/ windows(adr) \subseteq registered_slaves
    \/ \A k \in DOMAIN sent' : windows(sent'[k].adr) \cap windows(adr) = {}

\* Transfers the master has on its port or waits for.
Open == {sent[k].request : k \in DOMAIN sent} \cup (IF en_o THEN {request} ELSE {})
FreeRequest == CHOOSE r \in Requests : r \notin Open

Master(sl) ==
    IF en_o /\ master_stall(en_o, adr_o, sl)
    THEN UNCHANGED <<en_o, adr_o, request>>
    ELSE \/ en_o' = FALSE /\ UNCHANGED <<adr_o, request>>
         \/ \E adr \in Address :
                /\ MayOverlap(adr) /\ Open # Requests
                /\ en_o' = TRUE /\ adr_o' = adr /\ request' = FreeRequest

seen == slave_en(en_o, adr_o)

Clock(sl) ==
    /\ IcClock(en_o, adr_o, request, sl)
    /\ SlavesClock(seen, request, sl)
    /\ Deliver(sl)
    /\ Master(sl)

Init ==
    /\ adrmasks \in Mappings /\ IcInit /\ SlavesInit
    /\ en_o = FALSE /\ adr_o = {} /\ request = CHOOSE r \in Requests : TRUE
    /\ sent = <<>> /\ answer = {}

Next == \E sl \in SlaveOutputs(seen, request) : Clock(sl)

Spec == Init /\ [][Next]_vars

(* The clock runs, also when the master has no further request, and a slave *)
(* accepts what it sees and answers it.                                    *)
ClockRuns == \E sl \in SlaveOutputs(seen, request) :
                 Clock(sl) /\ (en_o' => request' = request)
SlaveAnswers == \E sl \in SlaveOutputs(seen, request) :
                    /\ sl.ack \cup sl.error # {} /\ sl.stall \subseteq Owing
                    /\ Clock(sl)

FairSpec == Spec /\ WF_vars(ClockRuns) /\ WF_vars(SlaveAnswers)

-----------------------------------------------------------------------------
(* Properties. *)

TypeOK ==
    /\ IcTypeOK
    /\ owes \in [Slaves -> Requests \cup {Nothing}]
    /\ en_o \in BOOLEAN /\ adr_o \in Address /\ request \in Requests
    /\ sent \in Seq(Transfer)

\* Every answer ends the oldest transfer: it carries the data of that request,
\* and it is an error exactly if no window decodes the address.
AnswerMatches ==
    \A a \in answer : \E t \in a.transfer :
        /\ a.error <=> Unmapped(t.adr)
        /\ ~a.error => a.data = t.request

\* A request is at work in the slave it is for and nowhere else, whatever the
\* master presents in the meantime (selection_stall, the register stages).
AtWork(i) == (IF owes[i] = Nothing THEN {} ELSE {owes[i]}) \cup
             (IF i \in registered_slaves /\ stage[i].state # "idle"
              THEN {stage[i].request} ELSE {})

OwnersOnly ==
    \A i \in Slaves, r \in Requests :
        r \in AtWork(i) <=> \E k \in DOMAIN sent :
                                /\ sent[k].request = r
                                /\ adrsel(adrmasks[i], sent[k].adr)

\* No request is stuck and no answer gets lost: every transfer ends.
Answered == \A r \in Requests : (r \in Open) ~> (r \notin Open)

=============================================================================
