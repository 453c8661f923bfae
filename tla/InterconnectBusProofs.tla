----------------------- MODULE InterconnectBusProofs -----------------------
(***************************************************************************)
(* The interconnect passes each request to its own slave and each answer   *)
(* back to its request: for every set of slaves, every width of addresses, *)
(* every map that passes the validation, every choice of register stages   *)
(* and every timing of the slaves.                                         *)
(***************************************************************************)
EXTENDS InterconnectBus, TLAPS

(* The master overlaps no requests to one slave without a register stage:  *)
(* rtl/loadstore.py has one operation outstanding (section 7 of README.md  *)
(* says what happens otherwise).                                           *)
NoOverlap == ~Pipelined

TypeCorrect ==
    /\ adrmasks \in Mappings /\ registered_slaves \subseteq Slaves
    /\ ic_busy \in BOOLEAN /\ en_o \in BOOLEAN
    /\ adr_o \in Address /\ request \in Requests
    /\ owes \in [Slaves -> Requests \cup {Nothing}]
    /\ stage \in [registered_slaves -> Stages]

\* Nothing is at work in slot i.
Free(i) == owes[i] = Nothing /\ (i \in registered_slaves => stage[i].state = "idle")

\* Slave i, without a register stage, works on r; the master presents no other
\* request to it.
Direct(i, r) ==
    /\ i \notin registered_slaves /\ owes[i] = r
    /\ en_o => windows(adr_o) # {i}

\* The register stage of slave i holds r, or what became of it.
Staged(i, r) ==
    /\ i \in registered_slaves /\ stage[i].request = r
    /\ \/ stage[i].state = "request" /\ owes[i] = Nothing
       \/ stage[i].state = "wait_response" /\ owes[i] = r
       \/ /\ stage[i].state = "response" /\ owes[i] = Nothing /\ stage[i].data_r = r
          /\ stage[i].ack_r \/ stage[i].error_r
          /\ stage[i].error_r => i \in Failing

\* Between two transfers a selection may be left from a request that is not
\* accepted yet, or from an error.
Rest ==
    /\ sent = <<>> /\ \A i \in Slaves : Free(i)
    /\ ic_busy => \E i \in Slaves : s_en_r = {i}

\* One transfer at a time, in the slave that is selected.
Serves(i, t) ==
    /\ sent = <<t>> /\ windows(t.adr) = {i}
    /\ ic_busy /\ s_en_r = {i}
    /\ Direct(i, t.request) \/ Staged(i, t.request)
    /\ \A j \in Slaves \ {i} : Free(j)
Works == \E i \in Slaves, t \in Transfer : Serves(i, t)

\* The answer to an accepted transfer; errors come from failing slaves and from
\* addresses without a window.
AnswerDue ==
    \A a \in answer : \E t \in a.transfer :
        /\ Unmapped(t.adr) => a.error
        /\ a.error => Unmapped(t.adr) \/ windows(t.adr) \cap Failing # {}
        /\ ~a.error => a.data = t.request

\* The inductive invariant.
BusInv == TypeCorrect /\ (Rest \/ Works) /\ AnswerDue

-----------------------------------------------------------------------------
(* The address map.                                                        *)

\* In a valid map an address is in one window at most
\* (_validate_and_log_mapping of rtl/uncore/dbus_interconnect.py).
LEMMA OneWindow ==
  ASSUME adrmasks \in Mappings, NEW a \in Address
  PROVE  windows(a) = {} \/ \E i \in Slaves : windows(a) = {i}
<1>1. ASSUME NEW i \in Slaves, NEW j \in Slaves,
             adrsel(adrmasks[i], a), adrsel(adrmasks[j], a), i # j
      PROVE  FALSE
  <2>1. ~overlap(adrmasks[i], adrmasks[j])
    BY <1>1 DEF Mappings
  <2>2. /\ a \cap address_mask(adrmasks[i]) = adrmasks[i].base
        /\ a \cap address_mask(adrmasks[j]) = adrmasks[j].base
    BY <1>1 DEF adrsel
  <2> QED
    BY <2>1, <2>2 DEF overlap
<1> QED
  BY <1>1 DEF windows

-----------------------------------------------------------------------------
(* One clock edge of a register stage and of a slave.                      *)

Answering(sl) == sl.ack \cup sl.error
Asks == en_o /\ ~selection_stall(en_o, adr_o)

\* A register stage takes a request, keeps it until it is answered, hands the answer
\* on and is idle again (the stage process of rtl/uncore/dbus_interconnect.py).
LEMMA StageSteps ==
  ASSUME TypeCorrect, NEW sl, IcClock(en_o, adr_o, request, sl), NEW i \in registered_slaves
  PROVE  /\ stage[i].state = "idle" =>
                IF Asks /\ i \in windows(adr_o)
                THEN stage'[i].state = "request" /\ stage'[i].request = request
                ELSE stage'[i].state = "idle"
         /\ stage[i].state \in {"request", "wait_response"} =>
                /\ stage'[i].request = stage[i].request
                /\ IF i \in Answering(sl)
                   THEN /\ stage'[i].state = "response" /\ stage'[i].data_r = sl.data[i]
                        /\ stage'[i].ack_r = (i \in sl.ack)
                        /\ stage'[i].error_r = (i \in sl.error)
                   ELSE stage'[i].state = IF i \in sl.stall THEN stage[i].state
                                          ELSE "wait_response"
         /\ stage[i].state = "response" => stage'[i].state = "idle"
<1>1. stage[i] \in Stages
  BY DEF TypeCorrect
<1>2. stage'[i] = StageClock(i, en_o, adr_o, request, sl)
  BY DEF IcClock
<1>3. ASSUME stage[i].state = "idle"
      PROVE  IF Asks /\ i \in windows(adr_o)
             THEN stage'[i].state = "request" /\ stage'[i].request = request
             ELSE stage'[i].state = "idle"
  <2>1. stage'[i] = IF i \in s_en(en_o, adr_o) /\ ~selection_stall(en_o, adr_o)
                    THEN [stage[i] EXCEPT !.state = "request", !.request = request,
                                          !.ack_r = FALSE, !.error_r = FALSE]
                    ELSE [stage[i] EXCEPT !.ack_r = FALSE, !.error_r = FALSE]
    BY <1>2, <1>3 DEF StageClock
  <2>2. i \in s_en(en_o, adr_o) /\ ~selection_stall(en_o, adr_o)
        <=> Asks /\ i \in windows(adr_o)
    BY DEF s_en, Asks
  <2> QED
    BY <1>1, <1>3, <2>1, <2>2 DEF Stages
<1>4. ASSUME stage[i].state \in {"request", "wait_response"}
      PROVE  /\ stage'[i].request = stage[i].request
             /\ IF i \in Answering(sl)
                THEN /\ stage'[i].state = "response" /\ stage'[i].data_r = sl.data[i]
                     /\ stage'[i].ack_r = (i \in sl.ack)
                     /\ stage'[i].error_r = (i \in sl.error)
                ELSE stage'[i].state = IF i \in sl.stall THEN stage[i].state
                                       ELSE "wait_response"
  <2>1. stage'[i] = IF i \in sl.ack \cup sl.error
                    THEN [stage[i] EXCEPT !.state = "response", !.ack_r = (i \in sl.ack),
                                          !.error_r = (i \in sl.error),
                                          !.data_r = sl.data[i]]
                    ELSE IF i \in sl.stall THEN stage[i]
                         ELSE [stage[i] EXCEPT !.state = "wait_response"]
    BY <1>2, <1>4 DEF StageClock
  <2> QED
    BY <1>1, <2>1 DEF Stages, Answering
<1>5. ASSUME stage[i].state = "response"
      PROVE  stage'[i].state = "idle"
  <2>1. stage'[i] = [stage[i] EXCEPT !.state = "idle"]
    BY <1>2, <1>5 DEF StageClock
  <2> QED
    BY <1>1, <2>1 DEF Stages
<1> QED
  BY <1>3, <1>4, <1>5

\* A slave owes what it has accepted, until it answers.
LEMMA OwesSteps ==
  ASSUME NEW sl, SlavesClock(seen, request, sl), NEW i \in Slaves
  PROVE  owes'[i] = IF i \in seen \ sl.stall /\ (i \in Answering(sl) => owes[i] # Nothing)
                    THEN slave_request(i, request)
                    ELSE IF i \in Answering(sl) THEN Nothing ELSE owes[i]
BY DEF SlavesClock, Answering, Owing

\* What the slaves see in a clock: a request out of a register stage, or the one on
\* the port of the master.
LEMMA SeenSlaves ==
  ASSUME TypeCorrect
  PROVE  /\ seen \subseteq Slaves
         /\ \A i \in Slaves : i \in seen <=>
                IF i \in registered_slaves THEN stage[i].state = "request"
                ELSE Asks /\ i \in windows(adr_o)
BY DEF TypeCorrect, seen, slave_en, s_en, Asks, windows, selection_stall

\* A slave answers only what it owes or sees, with the data of that request, and
\* only a failing one answers with an error.
LEMMA SlavesAnswer ==
  ASSUME NEW sl \in SlaveOutputs(seen, request)
  PROVE  /\ sl.stall \subseteq seen /\ sl.error \subseteq Failing
         /\ \A i \in Answering(sl) :
                /\ i \in Slaves
                /\ owes[i] # Nothing \/ i \in seen \ sl.stall
                /\ sl.data[i] = IF owes[i] # Nothing THEN owes[i]
                                ELSE slave_request(i, request)
<1>1. CASE \E stall \in {x \in SUBSET seen : Owing \cap seen \subseteq x} :
               sl = [ack |-> {}, error |-> {}, stall |-> stall, data |-> Silent]
  BY <1>1 DEF Owing, Answering
<1>2. CASE \E a \in Answers(seen) :
               sl = [ack |-> IF a.failed THEN {} ELSE {a.slave},
                     error |-> IF a.failed THEN {a.slave} ELSE {},
                     stall |-> a.stall,
                     data |-> [Silent EXCEPT ![a.slave] =
                                  IF a.slave \in Owing THEN owes[a.slave]
                                  ELSE slave_request(a.slave, request)]]
  <2>1. PICK a \in Answers(seen) :
               sl = [ack |-> IF a.failed THEN {} ELSE {a.slave},
                     error |-> IF a.failed THEN {a.slave} ELSE {},
                     stall |-> a.stall,
                     data |-> [Silent EXCEPT ![a.slave] =
                                  IF a.slave \in Owing THEN owes[a.slave]
                                  ELSE slave_request(a.slave, request)]]
    BY <1>2
  <2>2. /\ a.slave \in Slaves /\ a.failed \in BOOLEAN /\ a.stall \subseteq seen
        /\ a.failed => a.slave \in Failing
        /\ a.slave \in Owing \cup (seen \ a.stall)
    BY DEF Answers
  <2>3. sl.ack \cup sl.error = {a.slave} /\ sl.stall = a.stall /\ sl.error \subseteq Failing
    BY <2>1, <2>2
  <2>4. sl.data[a.slave] = IF a.slave \in Owing THEN owes[a.slave]
                           ELSE slave_request(a.slave, request)
    BY <2>1, <2>2 DEF Silent
  <2>5. \A i \in Slaves : i \in Owing <=> owes[i] # Nothing
    BY DEF Owing
  <2> QED
    BY <2>2, <2>3, <2>4, <2>5 DEF Answering
<1> QED
  BY <1>1, <1>2 DEF SlaveOutputs

-----------------------------------------------------------------------------
(* What the master sees of a clock.                                        *)

\* The port of the master when slot i is selected: it gets what slot i answers,
\* and it is stalled when it wants another slave or slot i has no room.
LEMMA SelectedPort ==
  ASSUME NEW sl, NEW i, mux_sel(en_o, adr_o) = {i}
  PROVE  /\ master_ack(en_o, adr_o, sl) <=> i \in slot_ack(sl)
         /\ master_error(en_o, adr_o, sl) <=> i \in slot_error(sl)
         /\ master_stall(en_o, adr_o, sl) <=>
                selection_stall(en_o, adr_o) \/ i \in slot_stall(sl)
         /\ master_data(en_o, adr_o, sl) =
                IF i \in registered_slaves THEN stage[i].data_r ELSE sl.data[i]
BY DEF master_ack, master_error, master_stall, master_data

\* What slot i answers: at once, or out of its register stage.
LEMMA SlotAnswers ==
  ASSUME NEW sl, NEW i
  PROVE  /\ i \in slot_ack(sl) <=>
                IF i \in registered_slaves THEN stage[i].state = "response" /\ stage[i].ack_r
                ELSE i \in sl.ack
         /\ i \in slot_error(sl) <=>
                IF i \in registered_slaves THEN stage[i].state = "response" /\ stage[i].error_r
                ELSE i \in sl.error
         /\ i \in slot_stall(sl) <=>
                IF i \in registered_slaves THEN stage[i].state # "idle" ELSE i \in sl.stall
BY DEF slot_ack, slot_error, slot_stall

\* The map is fixed when the design is built.
LEMMA SameWindows ==
  ASSUME NEW sl, Clock(sl)
  PROVE  \A a : windows(a)' = windows(a)
BY DEF Clock, IcClock, windows, adrsel

\* An answer ends the one transfer that is open.
LEMMA Delivery ==
  ASSUME NEW sl, Clock(sl)
  PROVE  /\ ~master_ack(en_o, adr_o, sl) /\ ~master_error(en_o, adr_o, sl) =>
                sent' = Accepted(sl) /\ answer' = {}
         /\ \A t : Accepted(sl) = <<t>> /\ (master_ack(en_o, adr_o, sl)
                                            \/ master_error(en_o, adr_o, sl)) =>
                /\ sent' = <<>>
                /\ answer' = {[error |-> master_error(en_o, adr_o, sl),
                               data |-> master_data(en_o, adr_o, sl), transfer |-> {t}]}
<1>1. ~master_ack(en_o, adr_o, sl) /\ ~master_error(en_o, adr_o, sl) =>
          sent' = Accepted(sl) /\ answer' = {}
  BY DEF Clock, Deliver
<1>2. ASSUME NEW t, Accepted(sl) = <<t>>,
             master_ack(en_o, adr_o, sl) \/ master_error(en_o, adr_o, sl)
      PROVE  /\ sent' = <<>>
             /\ answer' = {[error |-> master_error(en_o, adr_o, sl),
                            data |-> master_data(en_o, adr_o, sl), transfer |-> {t}]}
  <2>1. Accepted(sl) # <<>> /\ Head(Accepted(sl)) = t /\ Tail(Accepted(sl)) = <<>>
    BY <1>2
  <2>2. /\ sent' = Tail(Accepted(sl))
        /\ answer' = {[error |-> master_error(en_o, adr_o, sl),
                       data |-> master_data(en_o, adr_o, sl),
                       transfer |-> {Head(Accepted(sl))}]}
    BY <1>2, <2>1, Zenon DEF Clock, Deliver
  <2> QED
    BY <2>1, <2>2
<1> QED
  BY <1>1, <1>2

\* What such an answer has to be.
LEMMA DueAnswer ==
  ASSUME NEW sl, Clock(sl), NEW t, NEW e, NEW d,
         answer' = {[error |-> e, data |-> d, transfer |-> {t}]},
         windows(t.adr) = {} => e,
         e => windows(t.adr) = {} \/ windows(t.adr) \cap Failing # {},
         ~e => d = t.request
  PROVE  AnswerDue'
<1> SUFFICES ASSUME NEW a \in answer'
             PROVE  \E u \in a.transfer :
                      /\ windows(u.adr)' = {} => a.error
                      /\ a.error => windows(u.adr)' = {} \/ windows(u.adr)' \cap Failing # {}
                      /\ ~a.error => a.data = u.request
  BY DEF AnswerDue, Unmapped
<1>1. a.error = e /\ a.data = d /\ a.transfer = {t}
  OBVIOUS
<1>2. windows(t.adr)' = windows(t.adr)
  BY SameWindows
<1> QED
  BY <1>1, <1>2

\* Where no transfer is open and none is asked for, none begins.
LEMMA RestStays ==
  ASSUME BusInv, Rest, NEW sl \in SlaveOutputs(seen, request), Clock(sl),
         ~Asks \/ Unmapped(adr_o)
  PROVE  Rest' /\ AnswerDue'
<1>1. /\ \A i \in Slaves : Free(i)
      /\ sent = <<>>
      /\ TypeCorrect
  BY DEF Rest, BusInv
<1>2. seen = {}
  BY <1>1, SeenSlaves DEF Free, Unmapped
<1>3. Answering(sl) = {} /\ sl.stall = {}
  BY <1>1, <1>2, SlavesAnswer DEF Free
<1>4. \A i \in Slaves : Free(i)'
  <2> SUFFICES ASSUME NEW i \in Slaves PROVE Free(i)'
    OBVIOUS
  <2>1. owes'[i] = Nothing
    BY <1>1, <1>2, <1>3, OwesSteps DEF Clock, Free
  <2>2. i \in registered_slaves => stage'[i].state = "idle"
    BY <1>1, StageSteps DEF Clock, Free, Unmapped
  <2> QED
    BY <2>1, <2>2 DEF Free, Clock, IcClock
<1>5. slot_ack(sl) \cap Slaves = {} /\ slot_error(sl) \cap Slaves = {}
  BY <1>1, <1>3, SlotAnswers DEF Free, Answering
<1>6. CASE ic_busy
  <2>1. PICK i \in Slaves : s_en_r = {i}
    BY <1>6 DEF Rest
  <2>2. mux_sel(en_o, adr_o) = {i}
    BY <1>6, <2>1 DEF mux_sel
  <2>3. ~master_ack(en_o, adr_o, sl) /\ ~master_error(en_o, adr_o, sl)
    BY <1>5, <2>2, SelectedPort
  <2>4. en_o => master_stall(en_o, adr_o, sl)
    <3>1. ~Asks
      <4>1. Unmapped(adr_o) => s_en(en_o, adr_o) = {}
        BY DEF Unmapped, s_en
      <4> QED
        BY <4>1, <2>1, <1>6 DEF Asks, selection_stall
    <3> QED
      BY <3>1 DEF Asks, master_stall
  <2>5. sent' = <<>> /\ answer' = {}
    BY <2>3, <2>4, <1>1 DEF Clock, Deliver, Accepted
  <2>6. s_en_r' = {i}
    BY <1>6, <2>1 DEF Clock, IcClock, Select
  <2> QED
    BY <2>5, <2>6, <1>4 DEF Rest, AnswerDue
<1>7. CASE ~ic_busy
  <2>1. s_en(en_o, adr_o) = {} /\ mux_sel(en_o, adr_o) = {}
    BY <1>7 DEF Asks, selection_stall, s_en, Unmapped, mux_sel
  <2>2. /\ ~master_ack(en_o, adr_o, sl) /\ ~master_stall(en_o, adr_o, sl)
        /\ master_error(en_o, adr_o, sl) = en_o
    BY <1>7, <2>1 DEF master_ack, master_stall, master_error, selection_stall
  <2>3. ~ic_busy'
    BY <1>7, <2>1 DEF Clock, IcClock, Select
  <2>4. CASE en_o
    <3> DEFINE t == [request |-> request, adr |-> adr_o]
    <3>1. windows(t.adr) = {}
      BY <1>7, <2>4 DEF Asks, selection_stall, Unmapped
    <3>2. Accepted(sl) = <<t>>
      BY <1>1, <2>2, <2>4 DEF Accepted
    <3>3. /\ sent' = <<>>
          /\ answer' = {[error |-> master_error(en_o, adr_o, sl),
                         data |-> master_data(en_o, adr_o, sl), transfer |-> {t}]}
      BY <3>2, <2>2, <2>4, Delivery
    <3>4. AnswerDue'
      BY <3>1, <3>3, <2>2, <2>4, DueAnswer
    <3> QED
      BY <3>3, <3>4, <2>3, <1>4 DEF Rest
  <2>5. CASE ~en_o
    <3>1. sent' = <<>> /\ answer' = {}
      BY <1>1, <2>2, <2>5 DEF Clock, Deliver, Accepted
    <3> QED
      BY <3>1, <2>3, <1>4 DEF Rest, AnswerDue
  <2> QED
    BY <2>4, <2>5, <1>1 DEF TypeCorrect
<1> QED
  BY <1>6, <1>7

-----------------------------------------------------------------------------
(* A request that the interconnect passes on.                              *)

\* A free slave that is not asked for stays free.
LEMMA StaysFree ==
  ASSUME TypeCorrect, NEW sl \in SlaveOutputs(seen, request), Clock(sl),
         NEW j \in Slaves, Free(j), ~(Asks /\ j \in windows(adr_o))
  PROVE  Free(j)' /\ j \notin Answering(sl) /\ j \notin seen
<1>1. j \notin seen
  BY SeenSlaves DEF Free
<1>2. j \notin Answering(sl)
  BY <1>1, SlavesAnswer DEF Free
<1>3. owes'[j] = Nothing
  BY <1>1, <1>2, OwesSteps DEF Clock, Free
<1>4. j \in registered_slaves => stage'[j].state = "idle"
  BY StageSteps DEF Clock, Free
<1> QED
  BY <1>1, <1>2, <1>3, <1>4 DEF Free, Clock, IcClock

\* A selection lasts until the acknowledge.
LEMMA Selection ==
  ASSUME NEW sl, Clock(sl), NEW i, mux_sel(en_o, adr_o) = {i}
  PROVE  s_en_r' = {i} /\ (ic_busy' <=> ~master_ack(en_o, adr_o, sl))
BY DEF Clock, IcClock, Select, mux_sel

\* The master waits for the answer of a slave without a register stage before it
\* addresses it again.
LEMMA NextRequest ==
  ASSUME NoOverlap, NEW sl, Clock(sl), NEW i \in Slaves, i \notin registered_slaves,
         NEW t, sent' = <<t>>, windows(t.adr) = {i},
         ~(en_o /\ master_stall(en_o, adr_o, sl)), en_o'
  PROVE  windows(adr_o)' # {i}
<1>1. PICK adr \in Address : MayOverlap(adr) /\ adr_o' = adr
  BY DEF Clock, Master
<1>2. windows(adr) # {i}
  <2>1. CASE windows(adr) \subseteq registered_slaves
    BY <2>1
  <2>2. CASE \A k \in DOMAIN sent' : windows(sent'[k].adr) \cap windows(adr) = {}
    <3>1. 1 \in DOMAIN sent' /\ sent'[1] = t
      OBVIOUS
    <3> QED
      BY <2>2, <3>1
  <2> QED
    BY <1>1, <2>1, <2>2 DEF MayOverlap, NoOverlap
<1> QED
  BY <1>1, <1>2 DEF Clock, IcClock, windows, adrsel

\* A request to a slave without a register stage is stalled, answered at once, or
\* owed from now on.
LEMMA DirectBegins ==
  ASSUME BusInv, NoOverlap, Rest, NEW sl \in SlaveOutputs(seen, request), Clock(sl),
         Asks, NEW i \in Slaves, windows(adr_o) = {i}, i \notin registered_slaves
  PROVE  (Rest \/ Works)' /\ AnswerDue'
<1>0. PICK t \in Transfer : t.request = request /\ t.adr = adr_o
                           /\ t = [request |-> request, adr |-> adr_o]
  BY DEF BusInv, TypeCorrect, Transfer
<1>1. /\ TypeCorrect /\ sent = <<>> /\ \A j \in Slaves : Free(j)
      /\ en_o /\ ~selection_stall(en_o, adr_o)
  BY DEF BusInv, Rest, Asks
<1>2. \A j \in Slaves \ {i} : Free(j)'
  BY <1>1, StaysFree
<1>3. i \in seen /\ owes[i] = Nothing
  BY <1>1, SeenSlaves DEF Free
<1>4. mux_sel(en_o, adr_o) = {i}
  BY <1>1 DEF mux_sel, s_en, selection_stall
<1>5. /\ i \in Answering(sl) => i \notin sl.stall /\ sl.data[i] = request
      /\ i \in sl.error => i \in Failing
  BY <1>1, <1>3, SlavesAnswer DEF Answering, slave_request
<1>6. /\ master_ack(en_o, adr_o, sl) <=> i \in sl.ack
      /\ master_error(en_o, adr_o, sl) <=> i \in sl.error
      /\ master_stall(en_o, adr_o, sl) <=> i \in sl.stall
      /\ master_data(en_o, adr_o, sl) = sl.data[i]
  BY <1>1, <1>4, SelectedPort, SlotAnswers
<1>7. s_en_r' = {i} /\ (ic_busy' <=> i \notin sl.ack)
  BY <1>4, <1>6, Selection
<1>8. i \notin registered_slaves' /\ registered_slaves' = registered_slaves
  BY DEF Clock, IcClock
<1>9. CASE i \in sl.stall
  <2>1. i \notin Answering(sl)
    BY <1>5, <1>9
  <2>2. owes'[i] = Nothing
    BY <1>3, <1>9, <2>1, OwesSteps DEF Clock
  <2>3. sent' = <<>> /\ answer' = {}
    BY <1>1, <1>6, <1>9, <2>1, Delivery DEF Accepted, Answering
  <2> QED
    BY <1>2, <1>7, <1>8, <2>2, <2>3 DEF Rest, Free, AnswerDue
<1>10. CASE i \notin sl.stall
  <2>1. Accepted(sl) = <<t>>
    <3>1. Accepted(sl) = Append(<<>>, t)
      BY <1>0, <1>1, <1>6, <1>10 DEF Accepted
    <3> QED
      BY <3>1
  <2>2. CASE i \in Answering(sl)
    <3>1. owes'[i] = Nothing
      BY <1>3, <2>2, OwesSteps DEF Clock
    <3>2. /\ sent' = <<>>
          /\ answer' = {[error |-> master_error(en_o, adr_o, sl),
                         data |-> master_data(en_o, adr_o, sl), transfer |-> {t}]}
      BY <1>6, <2>1, <2>2, Delivery DEF Answering
    <3>3. AnswerDue'
      BY <1>0, <1>5, <1>6, <2>2, <3>2, DueAnswer DEF Answering
    <3> QED
      BY <1>2, <1>7, <1>8, <3>1, <3>2, <3>3 DEF Rest, Free
  <2>3. CASE i \notin Answering(sl)
    <3>1. owes'[i] = request
      BY <1>3, <1>8, <1>10, <2>3, OwesSteps DEF Clock, slave_request
    <3>2. sent' = <<t>> /\ answer' = {}
      BY <1>6, <2>1, <2>3, Delivery DEF Answering
    <3>3. Direct(i, t.request)'
      <4>1. en_o' => windows(adr_o)' # {i}
        BY <1>0, <1>6, <1>10, <3>2, NextRequest
      <4> QED
        BY <1>0, <1>8, <3>1, <4>1 DEF Direct
    <3>4. windows(t.adr)' = {i}
      BY <1>0, SameWindows
    <3>6. Serves(i, t)'
      BY <1>2, <1>7, <2>3, <3>2, <3>3, <3>4 DEF Serves, Answering
    <3> QED
      BY <3>2, <3>6 DEF Works, AnswerDue
  <2> QED
    BY <2>2, <2>3
<1> QED
  BY <1>9, <1>10

\* A register stage takes the request; the slave has not seen it yet.
LEMMA StagedBegins ==
  ASSUME BusInv, Rest, NEW sl \in SlaveOutputs(seen, request), Clock(sl),
         Asks, NEW i \in Slaves, windows(adr_o) = {i}, i \in registered_slaves
  PROVE  Works' /\ AnswerDue'
<1>0. PICK t \in Transfer : t.request = request /\ t.adr = adr_o
                           /\ t = [request |-> request, adr |-> adr_o]
  BY DEF BusInv, TypeCorrect, Transfer
<1>1. /\ TypeCorrect /\ sent = <<>> /\ \A j \in Slaves : Free(j)
      /\ en_o /\ ~selection_stall(en_o, adr_o)
  BY DEF BusInv, Rest, Asks
<1>2. \A j \in Slaves \ {i} : Free(j)'
  BY <1>1, StaysFree
<1>3. i \notin seen /\ owes[i] = Nothing /\ stage[i].state = "idle"
  BY <1>1, SeenSlaves DEF Free
<1>4. mux_sel(en_o, adr_o) = {i}
  BY <1>1 DEF mux_sel, s_en, selection_stall
<1>5. i \notin Answering(sl)
  BY <1>1, <1>3, SlavesAnswer
<1>6. /\ ~master_ack(en_o, adr_o, sl) /\ ~master_error(en_o, adr_o, sl)
      /\ ~master_stall(en_o, adr_o, sl)
  BY <1>1, <1>3, <1>4, SelectedPort, SlotAnswers
<1>7. s_en_r' = {i} /\ ic_busy'
  BY <1>4, <1>6, Selection
<1>8. sent' = <<t>> /\ answer' = {}
  <2>1. Accepted(sl) = Append(<<>>, t)
    BY <1>0, <1>1, <1>6 DEF Accepted
  <2> QED
    BY <1>6, <2>1, Delivery
<1>9. Staged(i, t.request)'
  <2>1. stage'[i].state = "request" /\ stage'[i].request = request
    BY <1>1, <1>3, StageSteps DEF Clock
  <2>2. owes'[i] = Nothing
    BY <1>3, <1>5, OwesSteps DEF Clock
  <2> QED
    BY <1>0, <2>1, <2>2 DEF Staged, Clock, IcClock
<1>10. windows(t.adr)' = {i}
  BY <1>0, SameWindows
<1>12. Serves(i, t)'
  BY <1>2, <1>7, <1>8, <1>9, <1>10 DEF Serves
<1> QED
  BY <1>8, <1>12 DEF Works, AnswerDue

-----------------------------------------------------------------------------
(* A request that is open.                                                 *)

\* While a transfer is open the master gets no other request through: it is stalled,
\* its requests reach no other slave, and the selected slave alone answers.
LEMMA OpenPort ==
  ASSUME TypeCorrect, NEW sl \in SlaveOutputs(seen, request), Clock(sl),
         NEW i \in Slaves, NEW t \in Transfer, Serves(i, t)
  PROVE  /\ mux_sel(en_o, adr_o) = {i}
         /\ Direct(i, t.request) => ~Asks
         /\ Asks => windows(adr_o) = {i}
         /\ en_o => master_stall(en_o, adr_o, sl)
         /\ Accepted(sl) = <<t>>
         /\ \A j \in Slaves \ {i} : Free(j)'
         /\ s_en_r' = {i} /\ (ic_busy' <=> ~master_ack(en_o, adr_o, sl))
<1>1. mux_sel(en_o, adr_o) = {i}
  BY DEF Serves, mux_sel
<1>2. Asks => windows(adr_o) = {i}
  BY DEF Serves, Asks, selection_stall, s_en
<1>3. Direct(i, t.request) => ~Asks
  BY <1>2 DEF Direct, Asks
<1>4. Staged(i, t.request) => i \in slot_stall(sl)
  BY SlotAnswers DEF Staged
<1>5. en_o => master_stall(en_o, adr_o, sl)
  BY <1>1, <1>3, <1>4, SelectedPort DEF Serves, Asks
<1>6. Accepted(sl) = <<t>>
  BY <1>5 DEF Accepted, Serves
<1>7. \A j \in Slaves \ {i} : Free(j)'
  BY <1>2, StaysFree DEF Serves
<1> QED
  BY <1>1, <1>2, <1>3, <1>5, <1>6, <1>7, Selection

\* A slave without a register stage goes on working, or answers its request.
LEMMA DirectGoesOn ==
  ASSUME TypeCorrect, NoOverlap, NEW sl \in SlaveOutputs(seen, request), Clock(sl),
         NEW i \in Slaves, NEW t \in Transfer, Serves(i, t), Direct(i, t.request)
  PROVE  (Rest \/ Works)' /\ AnswerDue'
<1>1. /\ mux_sel(en_o, adr_o) = {i} /\ ~Asks
      /\ en_o => master_stall(en_o, adr_o, sl)
      /\ Accepted(sl) = <<t>>
      /\ \A j \in Slaves \ {i} : Free(j)'
      /\ s_en_r' = {i} /\ (ic_busy' <=> ~master_ack(en_o, adr_o, sl))
  BY OpenPort
<1>2. /\ i \notin registered_slaves /\ owes[i] = t.request /\ windows(t.adr) = {i}
      /\ t.request # Nothing
  BY NothingAssumption DEF Direct, Serves, Transfer
<1>3. i \notin seen
  BY <1>1, <1>2, SeenSlaves
<1>4. /\ i \in Answering(sl) => sl.data[i] = t.request
      /\ i \in sl.error => i \in Failing
  BY <1>2, SlavesAnswer DEF Answering
<1>5. /\ master_ack(en_o, adr_o, sl) <=> i \in sl.ack
      /\ master_error(en_o, adr_o, sl) <=> i \in sl.error
      /\ master_data(en_o, adr_o, sl) = sl.data[i]
  BY <1>1, <1>2, SelectedPort, SlotAnswers
<1>6. registered_slaves' = registered_slaves
  BY DEF Clock, IcClock
<1>7. CASE i \in Answering(sl)
  <2>1. owes'[i] = Nothing
    BY <1>3, <1>7, OwesSteps DEF Clock
  <2>2. /\ sent' = <<>>
        /\ answer' = {[error |-> master_error(en_o, adr_o, sl),
                       data |-> master_data(en_o, adr_o, sl), transfer |-> {t}]}
    BY <1>1, <1>5, <1>7, Delivery DEF Answering
  <2>3. AnswerDue'
    BY <1>2, <1>4, <1>5, <1>7, <2>2, DueAnswer
  <2> QED
    BY <1>1, <1>2, <1>6, <2>1, <2>2, <2>3 DEF Rest, Free
<1>8. CASE i \notin Answering(sl)
  <2>1. owes'[i] = t.request
    BY <1>2, <1>3, <1>8, OwesSteps DEF Clock
  <2>2. sent' = <<t>> /\ answer' = {}
    BY <1>1, <1>5, <1>8, Delivery DEF Answering
  <2>3. windows(t.adr)' = {i}
    BY <1>2, SameWindows
  <2>4. en_o' => windows(adr_o)' # {i}
    <3>1. CASE en_o
      <4>1. adr_o' = adr_o
        BY <1>1, <3>1 DEF Clock, Master
      <4>2. windows(adr_o) # {i}
        BY <3>1 DEF Direct
      <4> QED
        BY <4>1, <4>2 DEF Clock, IcClock, windows, adrsel
    <3>2. CASE ~en_o
      BY <1>2, <2>2, <3>2, NextRequest
    <3> QED
      BY <3>1, <3>2 DEF TypeCorrect
  <2>5. Serves(i, t)'
    BY <1>1, <1>2, <1>5, <1>6, <1>8, <2>1, <2>2, <2>3, <2>4
    DEF Serves, Direct, Answering
  <2> QED
    BY <2>2, <2>5 DEF Works, AnswerDue
<1> QED
  BY <1>7, <1>8

\* The register stage presents its request, waits for the slave, or hands on its
\* answer, to the request it holds.
LEMMA StagedGoesOn ==
  ASSUME TypeCorrect, NEW sl \in SlaveOutputs(seen, request), Clock(sl),
         NEW i \in Slaves, NEW t \in Transfer, Serves(i, t), Staged(i, t.request)
  PROVE  (Rest \/ Works)' /\ AnswerDue'
<1>1. /\ mux_sel(en_o, adr_o) = {i}
      /\ Accepted(sl) = <<t>>
      /\ \A j \in Slaves \ {i} : Free(j)'
      /\ s_en_r' = {i} /\ (ic_busy' <=> ~master_ack(en_o, adr_o, sl))
  BY OpenPort
<1>2. /\ i \in registered_slaves /\ stage[i].request = t.request /\ windows(t.adr) = {i}
      /\ t.request # Nothing
  BY NothingAssumption DEF Staged, Serves, Transfer
<1>3. i \in seen <=> stage[i].state = "request"
  BY <1>2, SeenSlaves
<1>4. /\ i \in Answering(sl) =>
             /\ owes[i] # Nothing \/ i \in seen
             /\ sl.data[i] = IF owes[i] # Nothing THEN owes[i] ELSE t.request
      /\ i \in sl.error => i \in Failing
      /\ i \in sl.stall => i \in seen
  BY <1>2, SlavesAnswer DEF Answering, slave_request
<1>5. /\ master_ack(en_o, adr_o, sl) <=> stage[i].state = "response" /\ stage[i].ack_r
      /\ master_error(en_o, adr_o, sl) <=> stage[i].state = "response" /\ stage[i].error_r
      /\ master_data(en_o, adr_o, sl) = stage[i].data_r
  BY <1>1, <1>2, SelectedPort, SlotAnswers
<1>6. registered_slaves' = registered_slaves
  BY DEF Clock, IcClock
<1>7. owes'[i] = IF i \in seen \ sl.stall /\ (i \in Answering(sl) => owes[i] # Nothing)
                 THEN t.request ELSE IF i \in Answering(sl) THEN Nothing ELSE owes[i]
  BY <1>2, OwesSteps DEF Clock, slave_request
<1>8. CASE stage[i].state = "response"
  <2>1. stage'[i].state = "idle"
    BY <1>2, <1>8, StageSteps DEF Clock
  <2>2. owes[i] = Nothing /\ i \notin seen
    BY <1>3, <1>8 DEF Staged
  <2>3. owes'[i] = Nothing
    BY <1>4, <1>7, <2>2
  <2>4. /\ sent' = <<>>
        /\ answer' = {[error |-> master_error(en_o, adr_o, sl),
                       data |-> master_data(en_o, adr_o, sl), transfer |-> {t}]}
    BY <1>1, <1>5, <1>8, Delivery DEF Staged
  <2>5. AnswerDue'
    BY <1>2, <1>5, <1>8, <2>4, DueAnswer DEF Staged
  <2> QED
    BY <1>1, <1>6, <2>1, <2>3, <2>4, <2>5 DEF Rest, Free
<1>9. CASE stage[i].state \in {"request", "wait_response"}
  <2>1. sent' = <<t>> /\ answer' = {} /\ ic_busy'
    BY <1>1, <1>5, <1>9, Delivery
  <2>2. windows(t.adr)' = {i}
    BY <1>2, SameWindows
  <2>3. /\ stage'[i].request = t.request
        /\ IF i \in Answering(sl)
           THEN /\ stage'[i].state = "response" /\ stage'[i].data_r = sl.data[i]
                /\ stage'[i].ack_r = (i \in sl.ack) /\ stage'[i].error_r = (i \in sl.error)
           ELSE stage'[i].state = IF i \in sl.stall THEN stage[i].state ELSE "wait_response"
    BY <1>2, <1>9, StageSteps DEF Clock
  <2>4. Staged(i, t.request)'
    <3>1. CASE i \in Answering(sl)
      <4>1. owes'[i] = Nothing
        BY <1>2, <1>3, <1>4, <1>7, <1>9, <3>1 DEF Staged
      <4>2. sl.data[i] = t.request
        BY <1>4, <1>9, <3>1 DEF Staged
      <4>3. /\ stage'[i].ack_r \/ stage'[i].error_r
            /\ stage'[i].error_r => i \in Failing
        BY <1>4, <2>3, <3>1 DEF Answering
      <4> QED
        BY <1>2, <1>6, <2>3, <3>1, <4>1, <4>2, <4>3 DEF Staged
    <3>2. CASE i \notin Answering(sl)
      <4>1. CASE stage[i].state = "request"
        <5>1. owes[i] = Nothing
          BY <4>1 DEF Staged
        <5> QED
          BY <1>2, <1>3, <1>6, <1>7, <2>3, <3>2, <4>1, <5>1 DEF Staged
      <4>2. CASE stage[i].state = "wait_response"
        <5>1. owes[i] = t.request
          BY <4>2 DEF Staged
        <5> QED
          BY <1>2, <1>3, <1>4, <1>6, <1>7, <2>3, <3>2, <4>2, <5>1 DEF Staged
      <4> QED
        BY <1>9, <4>1, <4>2
    <3> QED
      BY <3>1, <3>2
  <2>5. Serves(i, t)'
    BY <1>1, <2>1, <2>2, <2>4 DEF Serves
  <2> QED
    BY <2>1, <2>5 DEF Works, AnswerDue
<1> QED
  BY <1>8, <1>9 DEF Staged

-----------------------------------------------------------------------------
(* The invariant.                                                          *)

\* The interconnect starts with nothing at work, in any valid map.
LEMMA BusStarts ==
  ASSUME Init, Requests # {}
  PROVE  BusInv
<1>1. TypeCorrect
  <2>1. {} \in Address /\ (CHOOSE r \in Requests : TRUE) \in Requests
    BY DEF Address
  <2> QED
    BY <2>1, RegistrationsAssumption DEF Init, IcInit, SlavesInit, TypeCorrect, Stages
<1>2. Rest
  BY RegistrationsAssumption DEF Init, IcInit, SlavesInit, Rest, Free
<1> QED
  BY <1>1, <1>2 DEF BusInv, AnswerDue, Init

\* Registers keep their ranges.
LEMMA TypeStep ==
  ASSUME BusInv, NEW sl \in SlaveOutputs(seen, request), Clock(sl)
  PROVE  TypeCorrect'
<1>1. TypeCorrect
  BY DEF BusInv
<1>2. /\ adrmasks' \in Mappings /\ registered_slaves' \subseteq Slaves
      /\ registered_slaves' = registered_slaves
  BY <1>1 DEF TypeCorrect, Clock, IcClock
<1>3. ic_busy' \in BOOLEAN
  BY DEF Clock, IcClock, Select
<1>4. \A i \in registered_slaves : stage[i].request \in Requests \cup {Nothing}
  BY <1>1 DEF TypeCorrect, Stages
<1>5. \A i \in Slaves : slave_request(i, request) \in Requests \cup {Nothing}
  BY <1>1, <1>4 DEF TypeCorrect, slave_request
<1>6. owes' \in [Slaves -> Requests \cup {Nothing}]
  <2>1. \A i \in Slaves : owes'[i] \in Requests \cup {Nothing}
    BY <1>1, <1>5, OwesSteps DEF Clock, TypeCorrect
  <2> QED
    BY <2>1 DEF Clock, SlavesClock
<1>7. \A i \in Answering(sl) : sl.data[i] \in Requests \cup {Nothing}
  BY <1>1, <1>5, SlavesAnswer DEF TypeCorrect
<1>8. stage' \in [registered_slaves -> Stages]
  <2>1. ASSUME NEW i \in registered_slaves
        PROVE  StageClock(i, en_o, adr_o, request, sl) \in Stages
    <3>1. stage[i] \in Stages /\ request \in Requests
      BY <1>1 DEF TypeCorrect
    <3>2. CASE stage[i].state = "idle"
      BY <3>1, <3>2 DEF StageClock, Stages
    <3>3. CASE stage[i].state \in {"request", "wait_response"}
      <4>1. StageClock(i, en_o, adr_o, request, sl) =
                IF i \in Answering(sl)
                THEN [stage[i] EXCEPT !.state = "response", !.ack_r = (i \in sl.ack),
                                      !.error_r = (i \in sl.error), !.data_r = sl.data[i]]
                ELSE IF i \in sl.stall THEN stage[i]
                     ELSE [stage[i] EXCEPT !.state = "wait_response"]
        BY <3>3 DEF StageClock, Answering
      <4> QED
        <5>1. ASSUME i \in Answering(sl), NEW b \in BOOLEAN, NEW c \in BOOLEAN
              PROVE  [stage[i] EXCEPT !.state = "response", !.ack_r = b,
                                      !.error_r = c, !.data_r = sl.data[i]] \in Stages
          BY <1>7, <3>1, <5>1 DEF Stages
        <5>2. [stage[i] EXCEPT !.state = "wait_response"] \in Stages
          BY <3>1 DEF Stages
        <5>3. (i \in sl.ack) \in BOOLEAN /\ (i \in sl.error) \in BOOLEAN
          OBVIOUS
        <5> QED
          BY <3>1, <4>1, <5>1, <5>2, <5>3
    <3>4. CASE stage[i].state = "response"
      BY <3>1, <3>4 DEF StageClock, Stages
    <3> QED
      BY <3>1, <3>2, <3>3, <3>4 DEF Stages
  <2> QED
    BY <2>1 DEF Clock, IcClock
<1>9. en_o' \in BOOLEAN /\ adr_o' \in Address /\ request' \in Requests
  <2>1. CASE UNCHANGED <<en_o, adr_o, request>>
    BY <1>1, <2>1 DEF TypeCorrect
  <2>2. CASE en_o' = FALSE /\ UNCHANGED <<adr_o, request>>
    BY <1>1, <2>2 DEF TypeCorrect
  <2>3. CASE \E adr \in Address : /\ MayOverlap(adr) /\ Open # Requests
                                  /\ en_o' = TRUE /\ adr_o' = adr /\ request' = FreeRequest
    <3>1. \A k \in DOMAIN sent : sent[k].request \in Requests
      <4>1. CASE Rest
        BY <4>1 DEF Rest
      <4>2. CASE Works
        <5>1. PICK i \in Slaves, t \in Transfer : Serves(i, t)
          BY <4>2 DEF Works
        <5>2. \A k \in DOMAIN sent : sent[k] = t
          BY <5>1 DEF Serves
        <5> QED
          BY <5>2 DEF Transfer
      <4> QED
        BY <4>1, <4>2 DEF BusInv
    <3>2. Open \subseteq Requests
      BY <1>1, <3>1 DEF Open, TypeCorrect
    <3>3. \E r \in Requests : r \notin Open
      BY <2>3, <3>2
    <3>4. FreeRequest \in Requests
      BY <3>3 DEF FreeRequest
    <3> QED
      BY <2>3, <3>4
  <2> QED
    BY <2>1, <2>2, <2>3 DEF Clock, Master
<1> QED
  BY <1>2, <1>3, <1>6, <1>8, <1>9 DEF TypeCorrect

\* Every clock keeps the invariant.
LEMMA BusKept ==
  ASSUME NoOverlap, BusInv, [Next]_vars
  PROVE  BusInv'
<1>1. CASE Next
  <2>1. PICK sl \in SlaveOutputs(seen, request) : Clock(sl)
    BY <1>1 DEF Next
  <2>2. TypeCorrect'
    BY <2>1, TypeStep
  <2>3. CASE Rest
    <3>1. CASE ~Asks \/ Unmapped(adr_o)
      BY <2>1, <2>2, <2>3, <3>1, RestStays DEF BusInv
    <3>2. CASE Asks /\ ~Unmapped(adr_o)
      <4>1. PICK i \in Slaves : windows(adr_o) = {i}
        BY <3>2, OneWindow DEF BusInv, TypeCorrect, Unmapped
      <4>2. CASE i \in registered_slaves
        BY <2>1, <2>2, <2>3, <3>2, <4>1, <4>2, StagedBegins DEF BusInv
      <4>3. CASE i \notin registered_slaves
        BY <2>1, <2>2, <2>3, <3>2, <4>1, <4>3, DirectBegins DEF BusInv
      <4> QED
        BY <4>2, <4>3
    <3> QED
      BY <3>1, <3>2
  <2>4. CASE Works
    <3>1. PICK i \in Slaves, t \in Transfer : Serves(i, t)
      BY <2>4 DEF Works
    <3>2. CASE Direct(i, t.request)
      BY <2>1, <2>2, <3>1, <3>2, DirectGoesOn DEF BusInv
    <3>3. CASE Staged(i, t.request)
      BY <2>1, <2>2, <3>1, <3>3, StagedGoesOn DEF BusInv
    <3> QED
      BY <3>1, <3>2, <3>3 DEF Serves
  <2> QED
    BY <2>3, <2>4 DEF BusInv
<1>2. CASE UNCHANGED vars
  <2>1. TypeCorrect' <=> TypeCorrect
    BY <1>2 DEF vars, icVars, TypeCorrect
  <2>2. Rest' <=> Rest
    BY <1>2 DEF vars, icVars, Rest, Free
  <2>3. Works' <=> Works
    BY <1>2 DEF vars, icVars, Works, Serves, Direct, Staged, Free, windows, adrsel
  <2>4. AnswerDue' <=> AnswerDue
    BY <1>2 DEF vars, icVars, AnswerDue, Unmapped, windows, adrsel
  <2> QED
    BY <2>1, <2>2, <2>3, <2>4 DEF BusInv
<1> QED
  BY <1>1, <1>2

-----------------------------------------------------------------------------
(* The theorems.                                                           *)

\* One transfer at a time is at work, in the slave that is selected or in its
\* register stage (MasterNSlaveSignals of rtl/uncore/dbus_interconnect.py).
THEOREM Invariant ==
  ASSUME NoOverlap, Requests # {}
  PROVE  Spec => []BusInv
<1>1. Init => BusInv
  BY BusStarts
<1>2. BusInv /\ [Next]_vars => BusInv'
  BY BusKept
<1> QED
  BY <1>1, <1>2, PTL DEF Spec

\* A request is at work in the slave that its address belongs to and in no other,
\* whatever the master presents in the meantime, also where slaves fail
\* (mux_sel and selection_stall of rtl/uncore/dbus_interconnect.py).
THEOREM SpecOwnersOnly ==
  ASSUME NoOverlap, Requests # {}
  PROVE  Spec => []OwnersOnly
<1>1. BusInv => OwnersOnly
  <2> SUFFICES ASSUME BusInv, NEW j \in Slaves, NEW r \in Requests
               PROVE  r \in AtWork(j) <=> \E k \in DOMAIN sent :
                                              /\ sent[k].request = r
                                              /\ adrsel(adrmasks[j], sent[k].adr)
    BY DEF OwnersOnly
  <2>1. Free(j) => AtWork(j) = {}
    BY DEF Free, AtWork
  <2>2. CASE Rest
    BY <2>1, <2>2 DEF Rest
  <2>3. CASE Works
    <3>1. PICK i \in Slaves, t \in Transfer : Serves(i, t)
      BY <2>3 DEF Works
    <3>2. DOMAIN sent = {1} /\ sent[1] = t
      BY <3>1 DEF Serves
    <3>3. adrsel(adrmasks[j], t.adr) <=> j = i
      BY <3>1 DEF Serves, windows
    <3>4. t.request # Nothing
      BY NothingAssumption DEF Transfer
    <3>5. AtWork(i) = {t.request}
      BY <3>1, <3>4 DEF AtWork, Serves, Direct, Staged
    <3>6. j # i => AtWork(j) = {}
      BY <2>1, <3>1 DEF Serves
    <3> QED
      BY <3>2, <3>3, <3>5, <3>6
  <2> QED
    BY <2>2, <2>3 DEF BusInv
<1> QED
  BY <1>1, Invariant, PTL

\* An answer belongs to the oldest accepted request: it carries that request's data,
\* and it is an error exactly for an address without a window, if no slave fails
\* (the master signals of rtl/uncore/dbus_interconnect.py).
THEOREM SpecAnswerMatches ==
  ASSUME NoOverlap, Requests # {}, Failing = {}
  PROVE  Spec => []AnswerMatches
<1>1. BusInv => AnswerMatches
  BY DEF BusInv, AnswerDue, AnswerMatches
<1> QED
  BY <1>1, Invariant, PTL

=============================================================================
