---------------------------- MODULE DataBusProofs ----------------------------
(***************************************************************************)
(* The data side of the system on chip returns to the program what it has  *)
(* stored: for every program, every address in it, every number of         *)
(* register names and every timing of the Wishbone slave, with and without *)
(* the register stage in front of the Wishbone bridge.                     *)
(***************************************************************************)
EXTENDS DataBus, TLAPS

(* The system on chip as it is built: execute takes one operation at a     *)
(* time (rtl/execute.py:88), reads are registered (rtl/config.py:10), and  *)
(* the Wishbone slot alone can have a register stage                       *)
(* (rtl/uncore/bonfire_core_ex.py:66).                                     *)
SocConfig ==
    /\ MaxOutstanding = 1 /\ RegisteredReadStage
    /\ Registrations \subseteq SUBSET {Wishbone}

Words == SUBSET {0}
StageFields == {"state", "request", "data_r", "ack_r", "error_r"}

TypeOK ==
    /\ adrmasks = SocMap /\ registered_slaves \subseteq {Wishbone}
    /\ adr_o \in Program /\ bus_op \in Op /\ pipe \in [Slots -> Op]
    /\ ~pipe[0].misalign /\ ~pipe[0].invalid_op
    /\ pipe[0].rd = bus_op.rd /\ pipe[0].store = bus_op.store
    /\ ic_busy \in BOOLEAN /\ bus_en \in BOOLEAN /\ valid_reg \in BOOLEAN
    /\ outstanding \in {0, 1}
    /\ DOMAIN ram = Words /\ DOMAIN memory = Program
    /\ Wishbone \in registered_slaves => DOMAIN stage[Wishbone] = StageFields

\* The unit has one request; it is current until the next one.
OneRequest ==
    /\ \A c \in current : current = {c} /\ c.request = request
    /\ outstanding = 1 => current # {}
    /\ unanswered = IF outstanding = 1 THEN current ELSE {}

\* What a load has to return is fixed when it starts, and so is what a store leaves.
Expected ==
    outstanding = 1 =>
        IF request.store THEN Keeps(adr_o) => memory[adr_o] = request
        ELSE \A c \in current :
                 c.value = IF Wishbone \in windows(adr_o) THEN request ELSE memory[adr_o]

StageIdle == Wishbone \in registered_slaves => stage[Wishbone].state = "idle"
StageKeeps(s) ==
    /\ Wishbone \in registered_slaves /\ windows(adr_o) = {Wishbone}
    /\ stage[Wishbone].state = s
BridgeIdle == served = Nothing /\ ~cyc_r

\* An answer with error leaves the native slot selected.
Free == ic_busy => s_en_r = {Native}
Selected(i) == ic_busy /\ s_en_r = {i} /\ windows(adr_o) = {i} /\ outstanding = 1

BusFree == Free /\ ~ack_rd /\ StageIdle /\ BridgeIdle

Idle == outstanding = 0 /\ ~bus_en /\ BusFree
Offered == outstanding = 1 /\ bus_en /\ BusFree
BramReads ==
    /\ Selected(Bram) /\ ~bus_en /\ StageIdle /\ BridgeIdle
    /\ ack_rd /\ ~request.store /\ dbout = ram[word(adr_o)]
BridgeWaits ==
    /\ Selected(Wishbone) /\ bus_en /\ ~ack_rd /\ Wishbone \notin registered_slaves
    /\ cyc_r /\ served = request
StageWaits ==
    /\ Selected(Wishbone) /\ ~bus_en /\ ~ack_rd /\ StageKeeps("request")
    /\ stage[Wishbone].request = request
    /\ BridgeIdle \/ (cyc_r /\ served = request)
StageAnswers ==
    /\ Selected(Wishbone) /\ ~bus_en /\ ~ack_rd /\ StageKeeps("response") /\ BridgeIdle
    /\ stage[Wishbone].ack_r /\ ~stage[Wishbone].error_r /\ stage[Wishbone].data_r = request

Phases == Idle \/ Offered \/ BramReads \/ BridgeWaits \/ StageWaits \/ StageAnswers

\* The RAM and the LED register hold the last stores, except one on its way.
OnItsWay(a) == Offered /\ request.store /\ adr_o = a
Stored ==
    \A a \in Program :
        /\ windows(a) = {Bram} => ram[word(a)] = memory[a] \/ OnItsWay(a)
        /\ windows(a) = {Native} /\ Assigned(a) => led_reg = memory[a] \/ OnItsWay(a)

\* The answer that the unit shows is that of the current request.
AnswerShown ==
    valid_reg =>
        /\ current # {}
        /\ bus_error_o <=> (Unmapped(adr_o) \/ ~Assigned(adr_o))
        /\ ~request.store /\ ~bus_error_o =>
               \A c \in current : result_o.word = Named(c.value)

\* The inductive invariant.
DataBusInv == TypeOK /\ OneRequest /\ Expected /\ Phases /\ Stored /\ AnswerShown

-----------------------------------------------------------------------------
(* The windows of the system on chip.                                      *)

\* An address is in one window at most (rtl/soc/bonfire_core_soc.py).
LEMMA SocWindows ==
  ASSUME adrmasks = SocMap, NEW a \in Address
  PROVE  windows(a) = IF a \cap {1, 2} = {1, 2} THEN {Bram}
                      ELSE IF a \cap {1, 2} = {2} THEN {Native}
                      ELSE IF a \cap {1, 2} = {1} THEN {Wishbone} ELSE {}
<1>1. \A i \in Slaves : address_mask(adrmasks[i]) = {1, 2}
  <2>1. 1 .. 3 - 1 = {1, 2}
    OBVIOUS
  <2> QED
    BY <2>1 DEF SocMap, address_mask
<1>2. /\ adrmasks[Bram].base = {2, 1} /\ adrmasks[Native].base = {2}
      /\ adrmasks[Wishbone].base = {1}
  BY SocAssumption DEF SocMap
<1>3. \A i \in Slaves : i \in windows(a) <=> a \cap {1, 2} = adrmasks[i].base
  BY <1>1 DEF windows, adrsel
<1>4. windows(a) \subseteq {Bram, Native, Wishbone}
  BY SocAssumption DEF windows
<1>5. /\ Bram \in windows(a) <=> a \cap {1, 2} = {1, 2}
      /\ Native \in windows(a) <=> a \cap {1, 2} = {2}
      /\ Wishbone \in windows(a) <=> a \cap {1, 2} = {1}
  BY <1>2, <1>3, SocAssumption
<1> QED
  BY <1>4, <1>5

\* An address of the program is in one window at most, and its word is one of the
\* RAM's (rtl/soc/bonfire_core_soc.py, rtl/uncore/ram_dp.py).
LEMMA OneWindow ==
  ASSUME adrmasks = SocMap, NEW a \in Program
  PROVE  /\ windows(a) \in {{}, {Bram}, {Native}, {Wishbone}}
         /\ word(a) \in Words
<1>1. a \in Address
  BY ProgramAssumption
<1> QED
  BY <1>1, SocWindows DEF word, Words

\* Two words of one window have two addresses, and one word of the native window
\* is assigned.
LEMMA OwnWord ==
  ASSUME adrmasks = SocMap, NEW a \in Program, NEW b \in Program
  PROVE  /\ windows(a) = {Bram} /\ windows(b) = {Bram} /\ word(a) = word(b) => a = b
         /\ windows(a) = {Native} /\ windows(b) = {Native} /\ Assigned(a) /\ Assigned(b) => a = b
<1>1. a \in SUBSET {0, 1, 2} /\ b \in SUBSET {0, 1, 2}
  <2>1. 0 .. 3 - 1 = {0, 1, 2}
    OBVIOUS
  <2> QED
    BY <2>1, ProgramAssumption, SocAssumption DEF Address, Bits
<1>2. a \in Address /\ b \in Address
  BY ProgramAssumption
<1>3. /\ windows(a) = {Bram} => a \cap {1, 2} = {1, 2}
      /\ windows(b) = {Bram} => b \cap {1, 2} = {1, 2}
      /\ windows(a) = {Native} => a \cap {1, 2} = {2}
      /\ windows(b) = {Native} => b \cap {1, 2} = {2}
  BY <1>2, SocWindows, SocAssumption
<1>4. a \cap {1, 2} = b \cap {1, 2} /\ a \cap {0} = b \cap {0} => a = b
  BY <1>1
<1>5. /\ windows(a) = {Native} /\ Assigned(a) => a \cap {0} = {}
      /\ windows(b) = {Native} /\ Assigned(b) => b \cap {0} = {}
  BY DEF Assigned, word
<1> QED
  BY <1>3, <1>4, <1>5 DEF word

-----------------------------------------------------------------------------
(* What the slaves see and drive.                                          *)

LEMMA RequestType ==
  ASSUME TypeOK
  PROVE  request \in Requests /\ request # Nothing
<1>1. bus_op.rd \in Rd /\ bus_op.store \in BOOLEAN /\ adr_o \in Program
  BY DEF TypeOK, Op
<1>2. request \in BusRequests
  BY <1>1 DEF request, BusRequests
<1> QED
  BY <1>2, RequestsAssumption, NothingAssumption

\* Who sees a request.
LEMMA Seen ==
  ASSUME SocConfig, TypeOK
  PROVE  /\ \A i \in {Bram, Native} :
                i \in seen <=> /\ bus_en /\ windows(adr_o) = {i}
                               /\ ic_busy => s_en_r = {i}
         /\ Wishbone \notin registered_slaves =>
                (Wishbone \in seen <=> /\ bus_en /\ windows(adr_o) = {Wishbone}
                                       /\ ic_busy => s_en_r = {Wishbone})
         /\ Wishbone \in registered_slaves =>
                (Wishbone \in seen <=> stage[Wishbone].state = "request")
         /\ \A i \in {Bram, Native} : slave_request(i, request) = request
<1>1. registered_slaves \subseteq {Wishbone} /\ adr_o \in Program /\ adrmasks = SocMap
  BY DEF TypeOK
<1>2. windows(adr_o) \in {{}, {Bram}, {Native}, {Wishbone}}
  BY <1>1, OneWindow
<1>3. Bram # Native /\ Native # Wishbone /\ Bram # Wishbone
  BY SocAssumption
<1>4. ASSUME NEW i, i \in windows(adr_o) PROVE windows(adr_o) = {i}
  BY <1>2, <1>4
<1>5. ASSUME NEW i, i \notin registered_slaves
      PROVE  i \in seen <=> /\ bus_en /\ windows(adr_o) = {i}
                            /\ ic_busy => s_en_r = {i}
  BY <1>4, <1>5 DEF seen, slave_en, selection_stall, s_en
<1>6. ASSUME NEW i, i \in registered_slaves
      PROVE  i \in seen <=> stage[i].state = "request"
  BY <1>6 DEF seen, slave_en
<1> QED
  BY <1>1, <1>3, <1>5, <1>6 DEF slave_request

\* What the slaves drive.
LEMMA Outputs ==
  ASSUME SocConfig, TypeOK, NEW sl \in SlaveOutputs(seen, request)
  PROVE  /\ Bram \in sl.ack <=> ack_rd \/ (Bram \in seen /\ request.store)
         /\ Native \in sl.ack <=> Native \in seen /\ Assigned(adr_o)
         /\ Wishbone \in sl.ack => wb_stb(seen)
         /\ Bram \notin sl.error /\ Wishbone \notin sl.error
         /\ Native \in sl.error <=> Native \in seen /\ ~Assigned(adr_o)
         /\ Bram \notin sl.stall /\ Native \notin sl.stall
         /\ Wishbone \in sl.stall <=> wb_stb(seen) /\ Wishbone \notin sl.ack
         /\ sl.data[Bram] = dbout /\ sl.data[Native] = led_reg
         /\ Wishbone \in sl.ack => sl.data[Wishbone] = IF served # Nothing THEN served
                                                      ELSE slave_request(Wishbone, request)
<1>1. PICK wbm_ack_i \in Acknowledges(seen) :
        sl = [ack |-> {i \in Slaves :
                  \/ i = Bram /\ (ack_rd \/ ram_write(seen, request))
                  \/ i = Native /\ i \in seen /\ Assigned(native_request(request).adr)
                  \/ i = Wishbone /\ wbm_ack_i},
              error |-> {i \in seen : i = Native /\ ~Assigned(native_request(request).adr)},
              stall |-> {i \in Slaves : i = Wishbone /\ wb_stall(seen, wbm_ack_i)},
              data |-> [i \in Slaves |->
                   IF i = Bram THEN dbout
                   ELSE IF i = Native THEN led_reg
                   ELSE IF ~wbm_ack_i THEN Nothing
                   ELSE IF served # Nothing THEN served
                   ELSE slave_request(Wishbone, request)]]
  BY DEF SlaveOutputs
<1>2. Slaves = {Bram, Native, Wishbone} /\ Bram # Native /\ Native # Wishbone /\ Bram # Wishbone
  BY SocAssumption
<1>3. slave_request(Bram, request) = request /\ native_request(request).adr = adr_o
  BY Seen DEF native_request, request
<1>4. wbm_ack_i => wb_stb(seen)
  BY <1>1 DEF Acknowledges
<1>5. /\ Bram \in sl.ack <=> ack_rd \/ (Bram \in seen /\ request.store)
      /\ Native \in sl.ack <=> Native \in seen /\ Assigned(adr_o)
      /\ Wishbone \in sl.ack <=> wbm_ack_i
  BY <1>1, <1>2, <1>3 DEF ram_write
<1>6. /\ Bram \notin sl.error /\ Wishbone \notin sl.error
      /\ Native \in sl.error <=> Native \in seen /\ ~Assigned(adr_o)
  BY <1>1, <1>2, <1>3
<1>7. /\ Bram \notin sl.stall /\ Native \notin sl.stall
      /\ Wishbone \in sl.stall <=> wb_stall(seen, wbm_ack_i)
  BY <1>1, <1>2
<1>8. /\ sl.data[Bram] = dbout /\ sl.data[Native] = led_reg
      /\ wbm_ack_i => sl.data[Wishbone] = IF served # Nothing THEN served
                                          ELSE slave_request(Wishbone, request)
  BY <1>1, <1>2
<1> QED
  BY <1>4, <1>5, <1>6, <1>7, <1>8 DEF wb_stall

-----------------------------------------------------------------------------
(* The load/store unit in a clock.                                         *)

\* The unit takes a request only where it has none, and holds it until it is
\* accepted; its answer is the one of the clock before.
LEMMA UnitStep ==
  ASSUME SocConfig, TypeOK, NEW ops \in Choices, NEW stall, NEW ack, NEW error, NEW data,
         LsuClock(ops, stall, ack, error, data)
  PROVE  LET taken == Taken(ops, stall, ack)
             confirmed == confirm(ack, error)
         IN  /\ confirmed <=> (ack \/ error) /\ outstanding = 1
             /\ taken # {} => /\ outstanding = 0 /\ bus_en' /\ outstanding' = 1
                              /\ \E op \in Op : taken = {op} /\ bus_op' = op /\ pipe'[0] = op
                                                /\ ~op.misalign /\ ~op.invalid_op
             /\ taken = {} => /\ bus_en' = (bus_en /\ stall) /\ UNCHANGED bus_op
                              /\ pipe'[0] = pipe[0]
                              /\ outstanding' = IF confirmed THEN 0 ELSE outstanding
             /\ pipe' \in [Slots -> Op]
             /\ (valid_reg' <=> confirmed) /\ valid_reg' \in BOOLEAN
             /\ bus_error_o' = IF confirmed THEN error ELSE bus_error_o
             /\ result_o'.word = data
<1> DEFINE taken == Taken(ops, stall, ack)
<1> DEFINE confirmed == confirm(ack, error)
<1>1. MaxOutstanding = 1 /\ RegisteredReadStage /\ outstanding \in {0, 1}
  BY DEF SocConfig, TypeOK
<1>2. confirmed <=> (ack \/ error) /\ outstanding = 1
  BY <1>1 DEF confirm
<1>3. Slots = {0} /\ max_pipe_index = 0
  BY <1>1 DEF Slots, max_pipe_index
<1>4. taken # {} => outstanding = 0 /\ taken = ops
  BY <1>1 DEF Taken, busy_o, busy, capacity_busy
<1>5. taken # {} => \E op \in Offers : taken = {op}
  BY <1>4 DEF Choices
<1>6. AdvancePipe(ops, taken, stall, ack) /\ DriveBus(taken, stall)
      /\ CalcOutstanding(taken, ack, error) /\ Terminate(ack, error)
      /\ valid_reg' = valid_comb(ack, error) /\ result_o' = rdmux_out(data)
  BY DEF LsuClock
<1>7. PICK op \in (IF taken = {} THEN {pipe[0]} ELSE taken) :
          pipe' = [i \in Slots |-> IF i = 0 THEN op ELSE pipe[i]]
  BY <1>1, <1>3, <1>6 DEF AdvancePipe
<1>8. ASSUME taken # {}
      PROVE  /\ outstanding = 0 /\ bus_en' /\ outstanding' = 1
             /\ \E o \in Op : taken = {o} /\ bus_op' = o /\ pipe'[0] = o
                              /\ ~o.misalign /\ ~o.invalid_op
             /\ pipe' \in [Slots -> Op]
  <2>1. PICK o \in Op : taken = {o} /\ ~o.misalign /\ ~o.invalid_op
    BY <1>5, <1>8 DEF Offers
  <2>2. op = o /\ pipe' = [i \in Slots |-> o]
    BY <1>3, <1>7, <2>1
  <2>3. outstanding = 0 /\ ~confirmed
    BY <1>2, <1>4, <1>8
  <2>4. outstanding' = 1
    BY <1>6, <1>8, <2>3 DEF CalcOutstanding
  <2>5. bus_en' /\ bus_op' = o
    <3>1. {p \in taken : ~p.misalign} = {o}
      BY <2>1
    <3> QED BY <1>6, <3>1 DEF DriveBus
  <2> QED BY <1>3, <2>1, <2>2, <2>3, <2>4, <2>5
<1>9. ASSUME taken = {}
      PROVE  /\ bus_en' = (bus_en /\ stall) /\ UNCHANGED bus_op
             /\ pipe'[0] = pipe[0]
             /\ outstanding' = IF confirmed THEN 0 ELSE outstanding
             /\ pipe' \in [Slots -> Op]
  <2>1. pipe' = [i \in Slots |-> pipe[0]] /\ pipe[0] \in Op
    BY <1>3, <1>7, <1>9 DEF TypeOK
  <2>2. UNCHANGED bus_op
    BY <1>6, <1>9 DEF DriveBus
  <2>3. bus_en' = (bus_en /\ stall)
    <3>1. {p \in taken : ~p.misalign} = {}
      BY <1>9
    <3> QED BY <1>6, <3>1, Zenon DEF DriveBus
  <2>4. outstanding' = IF confirmed THEN 0 ELSE outstanding
    BY <1>1, <1>2, <1>6, <1>9 DEF CalcOutstanding
  <2> QED BY <1>3, <2>1, <2>2, <2>3, <2>4
<1>10. (valid_reg' <=> confirmed) /\ valid_reg' \in BOOLEAN
  <2>1. ~pipe[0].misalign /\ ~pipe[0].invalid_op
    BY DEF TypeOK
  <2>2. valid_comb(ack, error) <=> confirmed
    BY <1>3, <2>1 DEF valid_comb
  <2>3. valid_comb(ack, error) \in BOOLEAN
    BY Zenon DEF valid_comb
  <2>4. valid_reg' = valid_comb(ack, error)
    BY <1>6
  <2> HIDE DEF confirmed
  <2> QED BY <2>2, <2>3, <2>4
<1>11. bus_error_o' = IF confirmed THEN error ELSE bus_error_o
  BY <1>6 DEF Terminate
<1>12. result_o'.word = data
  BY <1>6 DEF rdmux_out
<1> QED
  BY <1>2, <1>8, <1>9, <1>10, <1>11, <1>12

-----------------------------------------------------------------------------
(* The interconnect and the slaves in a clock.                             *)

\* What the master gets is what the selected slave drives, or its stage.
LEMMA Master ==
  ASSUME SocConfig, TypeOK, NEW sl
  PROVE  LET mux == IF ic_busy THEN s_en_r ELSE IF bus_en THEN windows(adr_o) ELSE {}
             wrong == ic_busy /\ bus_en /\ windows(adr_o) # s_en_r
         IN  /\ mux = {} => /\ ~master_ack(bus_en, adr_o, sl)
                            /\ master_error(bus_en, adr_o, sl) <=> bus_en
                            /\ master_stall(bus_en, adr_o, sl) <=> wrong
             /\ \A i \in {Bram, Native} : mux = {i} =>
                    /\ master_ack(bus_en, adr_o, sl) <=> i \in sl.ack
                    /\ master_error(bus_en, adr_o, sl) <=> i \in sl.error
                    /\ master_stall(bus_en, adr_o, sl) <=> wrong \/ i \in sl.stall
                    /\ master_data(bus_en, adr_o, sl) = sl.data[i]
             /\ mux = {Wishbone} /\ Wishbone \notin registered_slaves =>
                    /\ master_ack(bus_en, adr_o, sl) <=> Wishbone \in sl.ack
                    /\ master_error(bus_en, adr_o, sl) <=> Wishbone \in sl.error
                    /\ master_stall(bus_en, adr_o, sl) <=> wrong \/ Wishbone \in sl.stall
                    /\ master_data(bus_en, adr_o, sl) = sl.data[Wishbone]
             /\ mux = {Wishbone} /\ Wishbone \in registered_slaves =>
                    LET s == stage[Wishbone]
                    IN  /\ master_ack(bus_en, adr_o, sl) <=> s.state = "response" /\ s.ack_r
                        /\ master_error(bus_en, adr_o, sl) <=> s.state = "response" /\ s.error_r
                        /\ master_stall(bus_en, adr_o, sl) <=> wrong \/ s.state # "idle"
                        /\ master_data(bus_en, adr_o, sl) = s.data_r
<1> DEFINE mux == mux_sel(bus_en, adr_o)
<1> DEFINE wrong == selection_stall(bus_en, adr_o)
<1>1. /\ mux = IF ic_busy THEN s_en_r ELSE IF bus_en THEN windows(adr_o) ELSE {}
      /\ wrong <=> ic_busy /\ bus_en /\ windows(adr_o) # s_en_r
  BY DEF mux_sel, s_en, selection_stall
<1>2. mux = {} => /\ ~master_ack(bus_en, adr_o, sl)
                  /\ master_error(bus_en, adr_o, sl) <=> bus_en
                  /\ master_stall(bus_en, adr_o, sl) <=> wrong
  BY DEF master_ack, master_error, master_stall
<1>3. ASSUME NEW i, mux = {i}
      PROVE  /\ master_ack(bus_en, adr_o, sl) <=> i \in slot_ack(sl)
             /\ master_error(bus_en, adr_o, sl) <=> i \in slot_error(sl)
             /\ master_stall(bus_en, adr_o, sl) <=> wrong \/ i \in slot_stall(sl)
             /\ master_data(bus_en, adr_o, sl) = IF i \in registered_slaves THEN stage[i].data_r
                                                 ELSE sl.data[i]
  <2>1. (CHOOSE j \in mux : TRUE) = i /\ mux # {}
    BY <1>3
  <2>2. mux \cap slot_ack(sl) # {} <=> i \in slot_ack(sl)
    BY <1>3
  <2>3. mux \cap slot_error(sl) # {} <=> i \in slot_error(sl)
    BY <1>3
  <2>4. mux \cap slot_stall(sl) # {} <=> i \in slot_stall(sl)
    BY <1>3
  <2> QED
    BY <2>1, <2>2, <2>3, <2>4 DEF master_ack, master_error, master_stall, master_data
<1>4. ASSUME NEW i, i \notin registered_slaves
      PROVE  /\ i \in slot_ack(sl) <=> i \in sl.ack
             /\ i \in slot_error(sl) <=> i \in sl.error
             /\ i \in slot_stall(sl) <=> i \in sl.stall
  BY <1>4 DEF slot_ack, slot_error, slot_stall
<1>5. ASSUME NEW i, i \in registered_slaves
      PROVE  /\ i \in slot_ack(sl) <=> stage[i].state = "response" /\ stage[i].ack_r
             /\ i \in slot_error(sl) <=> stage[i].state = "response" /\ stage[i].error_r
             /\ i \in slot_stall(sl) <=> stage[i].state # "idle"
  BY <1>5 DEF slot_ack, slot_error, slot_stall
<1>6. Bram \notin registered_slaves /\ Native \notin registered_slaves
  BY SocAssumption DEF TypeOK
<1> HIDE DEF mux, wrong
<1>7. ASSUME NEW i \in {Bram, Native}, mux = {i}
      PROVE  /\ master_ack(bus_en, adr_o, sl) <=> i \in sl.ack
             /\ master_error(bus_en, adr_o, sl) <=> i \in sl.error
             /\ master_stall(bus_en, adr_o, sl) <=> wrong \/ i \in sl.stall
             /\ master_data(bus_en, adr_o, sl) = sl.data[i]
  BY <1>3, <1>4, <1>6, <1>7
<1>8. ASSUME mux = {Wishbone}, Wishbone \notin registered_slaves
      PROVE  /\ master_ack(bus_en, adr_o, sl) <=> Wishbone \in sl.ack
             /\ master_error(bus_en, adr_o, sl) <=> Wishbone \in sl.error
             /\ master_stall(bus_en, adr_o, sl) <=> wrong \/ Wishbone \in sl.stall
             /\ master_data(bus_en, adr_o, sl) = sl.data[Wishbone]
  BY <1>3, <1>4, <1>8
<1>9. ASSUME mux = {Wishbone}, Wishbone \in registered_slaves
      PROVE  LET s == stage[Wishbone]
             IN  /\ master_ack(bus_en, adr_o, sl) <=> s.state = "response" /\ s.ack_r
                 /\ master_error(bus_en, adr_o, sl) <=> s.state = "response" /\ s.error_r
                 /\ master_stall(bus_en, adr_o, sl) <=> wrong \/ s.state # "idle"
                 /\ master_data(bus_en, adr_o, sl) = s.data_r
  BY <1>3, <1>5, <1>9
<1> QED
  BY <1>1, <1>2, <1>7, <1>8, <1>9

\* The registers of interconnect and slaves after a clock.
LEMMA Registers ==
  ASSUME SocConfig, TypeOK, NEW sl,
         IcClock(bus_en, adr_o, request, sl), SlavesClock(seen, request, sl)
  PROVE  LET ack == master_ack(bus_en, adr_o, sl)
             selected == IF bus_en THEN windows(adr_o) ELSE {}
             wrong == ic_busy /\ bus_en /\ windows(adr_o) # s_en_r
         IN  /\ UNCHANGED <<adrmasks, registered_slaves>>
             /\ ic_busy' \in BOOLEAN
             /\ ic_busy => (ic_busy' <=> ~ack) /\ s_en_r' = s_en_r
             /\ ~ic_busy => (ic_busy' <=> selected # {} /\ ~ack) /\ s_en_r' = selected
             /\ ack_rd' <=> Bram \in seen /\ ~request.store
             /\ dbout' = IF Bram \in seen THEN ram[word(adr_o)] ELSE dbout
             /\ ram' = IF Bram \in seen /\ request.store
                       THEN [ram EXCEPT ![word(adr_o)] = request] ELSE ram
             /\ led_reg' = IF Native \in seen /\ request.store /\ Assigned(adr_o)
                           THEN request ELSE led_reg
             /\ cyc_r' <=> Wishbone \notin sl.ack /\ Wishbone \in seen
             /\ served' = IF Wishbone \in sl.ack THEN Nothing
                          ELSE IF wb_stb(seen) /\ served = Nothing
                               THEN slave_request(Wishbone, request) ELSE served
             /\ Wishbone \in registered_slaves =>
                  LET s == stage[Wishbone]
                      t == stage'[Wishbone]
                  IN  /\ s.state \in {"idle", "request", "response"} => DOMAIN t = StageFields
                      /\ s.state = "idle" =>
                           IF Wishbone \in selected /\ ~wrong
                           THEN t.state = "request" /\ t.request = request
                           ELSE t.state = "idle"
                      /\ s.state = "request" /\ Wishbone \in sl.ack =>
                           /\ t.state = "response" /\ t.ack_r
                           /\ t.error_r <=> Wishbone \in sl.error
                           /\ t.data_r = sl.data[Wishbone]
                      /\ s.state = "request" /\ Wishbone \notin sl.ack \cup sl.error
                         /\ Wishbone \in sl.stall => t = s
                      /\ s.state = "response" => t.state = "idle"
<1> DEFINE ack == master_ack(bus_en, adr_o, sl)
<1> DEFINE selected == IF bus_en THEN windows(adr_o) ELSE {}
<1>1. s_en(bus_en, adr_o) = selected
  BY DEF s_en
<1>2. /\ UNCHANGED <<adrmasks, registered_slaves>> /\ Select(bus_en, adr_o, sl)
      /\ stage' = [i \in registered_slaves |-> StageClock(i, bus_en, adr_o, request, sl)]
  BY DEF IcClock
<1>3. /\ ic_busy => (ic_busy' <=> ~ack) /\ s_en_r' = s_en_r
      /\ ~ic_busy => (ic_busy' <=> selected # {} /\ ~ack) /\ s_en_r' = selected
  BY <1>1, <1>2 DEF Select
<1>4. ic_busy' \in BOOLEAN
  <2>1. ic_busy' = ~ack \/ ic_busy' = (s_en(bus_en, adr_o) # {} /\ ~ack)
    BY <1>2 DEF Select
  <2> QED BY <2>1, Zenon
<1>5. slave_request(Bram, request) = request /\ native_request(request) = request
  BY Seen DEF native_request
<1>6. request.adr = adr_o
  BY DEF request
<1>7. /\ ack_rd' <=> Bram \in seen /\ ~request.store
      /\ dbout' = IF Bram \in seen THEN ram[word(adr_o)] ELSE dbout
      /\ ram' = IF Bram \in seen /\ request.store
                THEN [ram EXCEPT ![word(adr_o)] = request] ELSE ram
  BY <1>5, <1>6 DEF SlavesClock, RamClock
<1>8. led_reg' = IF Native \in seen /\ request.store /\ Assigned(adr_o) THEN request ELSE led_reg
  BY <1>5, <1>6 DEF SlavesClock, LedClock
<1>9. /\ cyc_r' <=> Wishbone \notin sl.ack /\ Wishbone \in seen
      /\ served' = IF Wishbone \in sl.ack THEN Nothing
                   ELSE IF wb_stb(seen) /\ served = Nothing
                        THEN slave_request(Wishbone, request) ELSE served
  BY DEF SlavesClock, WishboneClock
<1>10. ASSUME Wishbone \in registered_slaves
       PROVE  LET s == stage[Wishbone]
                  t == stage'[Wishbone]
                  wrong == ic_busy /\ bus_en /\ windows(adr_o) # s_en_r
              IN  /\ s.state \in {"idle", "request", "response"} => DOMAIN t = StageFields
                  /\ s.state = "idle" =>
                       IF Wishbone \in selected /\ ~wrong
                       THEN t.state = "request" /\ t.request = request
                       ELSE t.state = "idle"
                  /\ s.state = "request" /\ Wishbone \in sl.ack =>
                       /\ t.state = "response" /\ t.ack_r
                       /\ t.error_r <=> Wishbone \in sl.error
                       /\ t.data_r = sl.data[Wishbone]
                  /\ s.state = "request" /\ Wishbone \notin sl.ack \cup sl.error
                     /\ Wishbone \in sl.stall => t = s
                  /\ s.state = "response" => t.state = "idle"
  <2> DEFINE s == stage[Wishbone]
  <2> DEFINE t == stage'[Wishbone]
  <2> DEFINE wrong == ic_busy /\ bus_en /\ windows(adr_o) # s_en_r
  <2>1. t = StageClock(Wishbone, bus_en, adr_o, request, sl)
    BY <1>2, <1>10
  <2>2. DOMAIN s = {"state", "request", "data_r", "ack_r", "error_r"}
    BY <1>10 DEF TypeOK, StageFields
  <2>3. ASSUME s.state = "idle"
        PROVE  /\ DOMAIN t = StageFields
               /\ IF Wishbone \in selected /\ ~wrong
                  THEN t.state = "request" /\ t.request = request
                  ELSE t.state = "idle"
    <3>1. t = IF Wishbone \in selected /\ ~wrong
              THEN [s EXCEPT !.state = "request", !.request = request,
                             !.ack_r = FALSE, !.error_r = FALSE]
              ELSE [s EXCEPT !.ack_r = FALSE, !.error_r = FALSE]
      BY <1>1, <2>1, <2>3 DEF StageClock, selection_stall
    <3> HIDE DEF s, t, wrong, selected
    <3> QED BY <2>2, <2>3, <3>1 DEF StageFields
  <2>4. ASSUME s.state = "request"
        PROVE  /\ DOMAIN t = StageFields
               /\ Wishbone \in sl.ack =>
                       /\ t.state = "response" /\ t.ack_r
                       /\ t.error_r <=> Wishbone \in sl.error
                       /\ t.data_r = sl.data[Wishbone]
               /\ Wishbone \notin sl.ack \cup sl.error /\ Wishbone \in sl.stall => t = s
    <3>1. t = IF Wishbone \in sl.ack \cup sl.error
              THEN [s EXCEPT !.state = "response", !.ack_r = (Wishbone \in sl.ack),
                             !.error_r = (Wishbone \in sl.error), !.data_r = sl.data[Wishbone]]
              ELSE IF Wishbone \in sl.stall THEN s ELSE [s EXCEPT !.state = "wait_response"]
      BY <2>1, <2>4 DEF StageClock
    <3> HIDE DEF s, t
    <3> QED BY <2>2, <3>1 DEF StageFields
  <2>5. ASSUME s.state = "response"
        PROVE  DOMAIN t = StageFields /\ t.state = "idle"
    <3>1. t = [s EXCEPT !.state = "idle"]
      BY <2>1, <2>5 DEF StageClock
    <3> HIDE DEF s, t
    <3> QED BY <2>2, <3>1 DEF StageFields
  <2> QED
    BY <2>3, <2>4, <2>5
<1> QED
  BY <1>2, <1>3, <1>4, <1>7, <1>8, <1>9, <1>10

-----------------------------------------------------------------------------
(* The phases of a request.                                                *)

\* The unit while it waits for its answer.
UnitWaits(sl) ==
    /\ adr_o' = adr_o /\ bus_op' = bus_op
    /\ bus_en' = (bus_en /\ master_stall(bus_en, adr_o, sl))
    /\ outstanding' = IF master_ack(bus_en, adr_o, sl) \/ master_error(bus_en, adr_o, sl)
                      THEN 0 ELSE outstanding

\* An answer is that of the slave that the address belongs to.
AnswerRight(sl) ==
    /\ master_error(bus_en, adr_o, sl) <=> (Unmapped(adr_o) \/ ~Assigned(adr_o))
    /\ ~request.store /\ ~master_error(bus_en, adr_o, sl) =>
           master_data(bus_en, adr_o, sl) =
               IF Wishbone \in windows(adr_o) THEN request
               ELSE IF Bram \in windows(adr_o) THEN ram[word(adr_o)] ELSE led_reg

\* RAM and LED register take a store in the clock in which it is answered.
StoreTaken(i) ==
    windows(adr_o) = {i} /\ Offered /\ request.store /\ ~bus_en' /\ Assigned(adr_o)
MemoryRight ==
    /\ ram' = IF StoreTaken(Bram) THEN [ram EXCEPT ![word(adr_o)] = request] ELSE ram
    /\ led_reg' = IF StoreTaken(Native) THEN request ELSE led_reg

PhaseRight(sl) ==
    /\ UNCHANGED <<adrmasks, registered_slaves>> /\ ic_busy' \in BOOLEAN
    /\ Wishbone \in registered_slaves => DOMAIN stage'[Wishbone] = StageFields
    /\ IF master_ack(bus_en, adr_o, sl) \/ master_error(bus_en, adr_o, sl)
       THEN outstanding = 1 /\ AnswerRight(sl) /\ BusFree' /\ ~bus_en'
       ELSE outstanding = 1 => Phases'
    /\ MemoryRight

\* Nothing moves without a request; a new one may start.
LEMMA IdleStep ==
  ASSUME SocConfig, TypeOK, Idle, NEW sl \in SlaveOutputs(seen, request),
         IcClock(bus_en, adr_o, request, sl), SlavesClock(seen, request, sl)
  PROVE  PhaseRight(sl) /\ BusFree'
         /\ ~master_ack(bus_en, adr_o, sl) /\ ~master_error(bus_en, adr_o, sl)
<1> DEFINE ack == master_ack(bus_en, adr_o, sl)
<1> DEFINE error == master_error(bus_en, adr_o, sl)
<1>1. /\ outstanding = 0 /\ ~bus_en /\ ~ack_rd /\ served = Nothing /\ ~cyc_r
      /\ ic_busy => s_en_r = {Native}
      /\ Wishbone \in registered_slaves => stage[Wishbone].state = "idle"
  BY DEF Idle, BusFree, Free, StageIdle, BridgeIdle
<1>2. Bram \notin seen /\ Native \notin seen /\ Wishbone \notin seen
  <2>1. Bram \notin seen /\ Native \notin seen
    BY <1>1, Seen
  <2>2. Wishbone \notin seen
    BY <1>1, Seen
  <2> QED BY <2>1, <2>2
<1>3. ~wb_stb(seen)
  BY <1>1, <1>2 DEF wb_stb
<1>4. Bram \notin sl.ack /\ Native \notin sl.ack /\ Wishbone \notin sl.ack
      /\ Native \notin sl.error
  BY <1>1, <1>2, <1>3, Outputs
<1>5. ~ack /\ ~error
  <2>1. CASE ic_busy
    BY <1>1, <1>4, <2>1, Master
  <2>2. CASE ~ic_busy
    BY <1>1, <2>2, Master
  <2> QED BY <2>1, <2>2
<1>6. /\ UNCHANGED <<adrmasks, registered_slaves, ram, led_reg>> /\ ic_busy' \in BOOLEAN
      /\ ic_busy' => s_en_r' = {Native}
      /\ ~ack_rd' /\ ~cyc_r' /\ served' = Nothing
  BY <1>1, <1>2, <1>3, <1>4, <1>5, Registers
<1>7. Wishbone \in registered_slaves => /\ DOMAIN stage'[Wishbone] = StageFields
                                        /\ stage'[Wishbone].state = "idle"
  BY <1>1, Registers
<1>8. BusFree'
  BY <1>6, <1>7 DEF BusFree, Free, StageIdle, BridgeIdle
<1>9. MemoryRight
  BY <1>1, <1>6 DEF MemoryRight, StoreTaken, Offered
<1> QED
  BY <1>1, <1>5, <1>6, <1>7, <1>8, <1>9 DEF PhaseRight

\* A request that is not accepted yet: it is answered, or a slave or its stage has it.
LEMMA OfferedStep ==
  ASSUME SocConfig, TypeOK, Offered, NEW sl \in SlaveOutputs(seen, request),
         IcClock(bus_en, adr_o, request, sl), SlavesClock(seen, request, sl), UnitWaits(sl)
  PROVE  PhaseRight(sl)
<1> DEFINE ack == master_ack(bus_en, adr_o, sl)
<1> DEFINE error == master_error(bus_en, adr_o, sl)
<1> DEFINE stall == master_stall(bus_en, adr_o, sl)
<1> DEFINE data == master_data(bus_en, adr_o, sl)
<1> DEFINE wrong == ic_busy /\ bus_en /\ windows(adr_o) # s_en_r
<1>1. /\ outstanding = 1 /\ bus_en /\ ~ack_rd /\ served = Nothing /\ ~cyc_r
      /\ ic_busy => s_en_r = {Native}
      /\ Wishbone \in registered_slaves => stage[Wishbone].state = "idle"
  BY DEF Offered, BusFree, Free, StageIdle, BridgeIdle
<1>2. /\ UNCHANGED <<adrmasks, registered_slaves>> /\ ic_busy' \in BOOLEAN
      /\ Wishbone \in registered_slaves => DOMAIN stage'[Wishbone] = StageFields
  BY <1>1, Registers
<1>3. Bram # Native /\ Native # Wishbone /\ Bram # Wishbone
  BY SocAssumption
<1>4. /\ adr_o' = adr_o /\ request' = request /\ bus_en' = stall
      /\ outstanding' = IF ack \/ error THEN 0 ELSE 1
      /\ windows(adr_o)' = windows(adr_o)
  <2>1. bus_en' = (bus_en /\ stall)
    BY DEF UnitWaits
  <2>2. stall \in BOOLEAN
    BY Zenon DEF master_stall
  <2>3. bus_en' = stall
    BY <1>1, <2>1, <2>2
  <2> QED
    BY <1>1, <1>2, <2>3 DEF UnitWaits, request, windows
<1>5. CASE wrong
  <2>1. Bram \notin seen /\ Native \notin seen
    BY <1>1, <1>3, <1>5, Seen
  <2>2. Wishbone \notin seen
    BY <1>1, <1>3, <1>5, Seen
  <2>3. ~wb_stb(seen)
    BY <1>1, <2>2 DEF wb_stb
  <2>4. Native \notin sl.ack /\ Native \notin sl.error /\ Wishbone \notin sl.ack
    BY <1>1, <2>1, <2>3, Outputs
  <2>5. ~ack /\ ~error /\ stall
    BY <1>1, <1>5, <2>4, Master
  <2>6. /\ UNCHANGED <<ram, led_reg>> /\ ic_busy' /\ s_en_r' = {Native}
        /\ ~ack_rd' /\ ~cyc_r' /\ served' = Nothing
    BY <1>1, <1>5, <2>1, <2>2, <2>3, <2>4, <2>5, Registers
  <2>7. Wishbone \in registered_slaves => stage'[Wishbone].state = "idle"
    BY <1>1, <1>5, Registers
  <2>8. BusFree'
    BY <1>2, <2>6, <2>7 DEF BusFree, Free, StageIdle, BridgeIdle
  <2>9. Offered'
    BY <1>4, <2>5, <2>8 DEF Offered
  <2>10. MemoryRight
    BY <1>4, <2>5, <2>6 DEF MemoryRight, StoreTaken
  <2> QED
    BY <1>2, <2>5, <2>9, <2>10 DEF PhaseRight, Phases
<1>6. CASE ~wrong /\ windows(adr_o) = {}
  <2>1. ~ic_busy
    BY <1>1, <1>6
  <2>2. Bram \notin seen /\ Native \notin seen
    BY <1>6, Seen
  <2>3. Wishbone \notin seen
    BY <1>1, <1>6, Seen
  <2>4. ~wb_stb(seen)
    BY <1>1, <2>3 DEF wb_stb
  <2>5. Wishbone \notin sl.ack
    BY <2>4, Outputs
  <2>6. ~ack /\ error /\ ~stall
    BY <1>1, <1>6, <2>1, Master
  <2>7. /\ UNCHANGED <<ram, led_reg>> /\ ~ic_busy'
        /\ ~ack_rd' /\ ~cyc_r' /\ served' = Nothing
    BY <1>1, <1>6, <2>1, <2>2, <2>3, <2>4, <2>5, Registers
  <2>8. Wishbone \in registered_slaves => stage'[Wishbone].state = "idle"
    BY <1>1, <1>6, Registers
  <2>9. BusFree'
    BY <1>2, <2>7, <2>8 DEF BusFree, Free, StageIdle, BridgeIdle
  <2>10. AnswerRight(sl)
    BY <1>6, <2>6 DEF AnswerRight, Unmapped
  <2>11. MemoryRight
    BY <1>6, <2>7 DEF MemoryRight, StoreTaken
  <2> QED
    BY <1>1, <1>2, <1>4, <2>6, <2>9, <2>10, <2>11 DEF PhaseRight
<1>7. CASE ~wrong /\ windows(adr_o) = {Native}
  <2>1. Native \in seen /\ Bram \notin seen
    BY <1>1, <1>3, <1>7, Seen
  <2>2. Wishbone \notin seen
    BY <1>1, <1>3, <1>7, Seen
  <2>3. ~wb_stb(seen)
    BY <1>1, <2>2 DEF wb_stb
  <2>4. /\ Native \in sl.ack <=> Assigned(adr_o)
        /\ Native \in sl.error <=> ~Assigned(adr_o)
        /\ Native \notin sl.stall /\ Wishbone \notin sl.ack /\ sl.data[Native] = led_reg
    BY <2>1, <2>3, Outputs
  <2>5. (ack <=> Assigned(adr_o)) /\ (error <=> ~Assigned(adr_o)) /\ ~stall /\ data = led_reg
    BY <1>1, <1>7, <2>4, Master
  <2>6. /\ ram' = ram
        /\ led_reg' = IF request.store /\ Assigned(adr_o) THEN request ELSE led_reg
        /\ ic_busy' => s_en_r' = {Native}
        /\ ~ack_rd' /\ ~cyc_r' /\ served' = Nothing
    BY <1>1, <1>7, <2>1, <2>2, <2>3, <2>4, Registers
  <2>7. Wishbone \in registered_slaves => stage'[Wishbone].state = "idle"
    BY <1>1, <1>3, <1>7, Registers
  <2>8. BusFree'
    BY <1>2, <2>6, <2>7 DEF BusFree, Free, StageIdle, BridgeIdle
  <2>9. AnswerRight(sl)
    BY <1>3, <1>7, <2>5 DEF AnswerRight, Unmapped
  <2>10. MemoryRight
    BY <1>3, <1>4, <1>7, <2>5, <2>6 DEF MemoryRight, StoreTaken
  <2> QED
    BY <1>1, <1>2, <1>4, <2>5, <2>8, <2>9, <2>10 DEF PhaseRight
<1>8. CASE ~wrong /\ windows(adr_o) = {Bram}
  <2>1. ~ic_busy
    BY <1>1, <1>3, <1>8
  <2>2. Native \notin seen /\ Bram \in seen
    BY <1>1, <1>3, <1>8, <2>1, Seen
  <2>3. Wishbone \notin seen
    BY <1>1, <1>3, <1>8, Seen
  <2>4. ~wb_stb(seen)
    BY <1>1, <2>3 DEF wb_stb
  <2>5. /\ Bram \in sl.ack <=> request.store
        /\ Bram \notin sl.error /\ Bram \notin sl.stall /\ Wishbone \notin sl.ack
    BY <1>1, <2>2, <2>4, Outputs
  <2>6. (ack <=> request.store) /\ ~error /\ ~stall
    BY <1>1, <1>8, <2>1, <2>5, Master
  <2>7. /\ ram' = IF request.store THEN [ram EXCEPT ![word(adr_o)] = request] ELSE ram
        /\ led_reg' = led_reg /\ dbout' = ram[word(adr_o)]
        /\ ic_busy' <=> ~ack
        /\ s_en_r' = {Bram}
        /\ (ack_rd' <=> ~request.store) /\ ~cyc_r' /\ served' = Nothing
    BY <1>1, <1>8, <2>1, <2>2, <2>3, <2>4, <2>5, Registers
  <2>8. Wishbone \in registered_slaves => stage'[Wishbone].state = "idle"
    BY <1>1, <1>3, <1>8, Registers
  <2>9. Assigned(adr_o) /\ ~Unmapped(adr_o)
    BY <1>3, <1>8 DEF Assigned, Unmapped
  <2>10. MemoryRight
    BY <1>3, <1>4, <1>8, <2>6, <2>7, <2>9 DEF MemoryRight, StoreTaken
  <2>11. CASE request.store
    <3>1. BusFree'
      BY <1>2, <2>6, <2>7, <2>8, <2>11 DEF BusFree, Free, StageIdle, BridgeIdle
    <3>2. AnswerRight(sl)
      BY <2>6, <2>9, <2>11 DEF AnswerRight
    <3> QED
      BY <1>1, <1>2, <1>4, <2>6, <2>10, <2>11, <3>1, <3>2 DEF PhaseRight
  <2>12. CASE ~request.store
    <3>1. BramReads'
      <4>1. Selected(Bram)'
        BY <1>1, <1>4, <1>8, <2>6, <2>7, <2>12 DEF Selected
      <4>2. ~bus_en' /\ StageIdle' /\ BridgeIdle'
        BY <1>2, <1>4, <2>6, <2>7, <2>8 DEF StageIdle, BridgeIdle
      <4>3. ack_rd' /\ ~(request.store)' /\ dbout' = (ram[word(adr_o)])'
        BY <1>4, <2>7, <2>12
      <4> QED BY <4>1, <4>2, <4>3 DEF BramReads
    <3> QED
      BY <1>2, <2>6, <2>10, <2>12, <3>1 DEF PhaseRight, Phases
  <2> QED BY <2>11, <2>12
<1>9. CASE ~wrong /\ windows(adr_o) = {Wishbone} /\ Wishbone \notin registered_slaves
  <2>1. ~ic_busy
    BY <1>1, <1>3, <1>9
  <2>2. Bram \notin seen /\ Native \notin seen
    BY <1>1, <1>3, <1>9, Seen
  <2>3. Wishbone \in seen
    BY <1>1, <1>9, <2>1, Seen
  <2>4. wb_stb(seen) /\ slave_request(Wishbone, request) = request
    BY <1>9, <2>3 DEF wb_stb, slave_request
  <2>5. /\ Wishbone \in sl.stall <=> Wishbone \notin sl.ack
        /\ Wishbone \notin sl.error
        /\ Wishbone \in sl.ack => sl.data[Wishbone] = request
    BY <1>1, <2>4, Outputs
  <2>6. /\ ack <=> Wishbone \in sl.ack
        /\ ~error
        /\ stall <=> ~ack
        /\ ack => data = request
    BY <1>1, <1>9, <2>1, <2>5, Master
  <2>7. /\ UNCHANGED <<ram, led_reg>> /\ (ic_busy' <=> ~ack) /\ s_en_r' = {Wishbone}
        /\ ~ack_rd' /\ (cyc_r' <=> ~ack) /\ served' = IF ack THEN Nothing ELSE request
    BY <1>1, <1>9, <2>1, <2>2, <2>3, <2>4, <2>6, Registers
  <2>8. Assigned(adr_o) /\ ~Unmapped(adr_o)
    BY <1>3, <1>9 DEF Assigned, Unmapped
  <2>9. MemoryRight
    BY <1>3, <1>9, <2>7 DEF MemoryRight, StoreTaken
  <2>10. CASE ack
    <3>1. BusFree'
      BY <1>2, <1>9, <2>7, <2>10 DEF BusFree, Free, StageIdle, BridgeIdle
    <3>2. AnswerRight(sl)
      BY <1>9, <2>6, <2>8, <2>10 DEF AnswerRight
    <3> QED
      BY <1>1, <1>2, <1>4, <2>6, <2>9, <2>10, <3>1, <3>2 DEF PhaseRight
  <2>11. CASE ~ack
    <3>1. BridgeWaits'
      <4>1. Selected(Wishbone)'
        BY <1>1, <1>4, <1>9, <2>6, <2>7, <2>11 DEF Selected
      <4>2. bus_en' /\ ~ack_rd' /\ (Wishbone \notin registered_slaves)' /\ cyc_r'
            /\ served' = request'
        BY <1>2, <1>4, <1>9, <2>6, <2>7, <2>11
      <4> QED BY <4>1, <4>2 DEF BridgeWaits
    <3> QED
      BY <1>2, <2>6, <2>9, <2>11, <3>1 DEF PhaseRight, Phases
  <2> QED BY <2>10, <2>11
<1>10. CASE ~wrong /\ windows(adr_o) = {Wishbone} /\ Wishbone \in registered_slaves
  <2>1. ~ic_busy
    BY <1>1, <1>3, <1>10
  <2>2. Bram \notin seen /\ Native \notin seen
    BY <1>1, <1>3, <1>10, Seen
  <2>3. Wishbone \notin seen
    BY <1>1, <1>10, Seen
  <2>4. ~wb_stb(seen)
    BY <1>1, <2>3 DEF wb_stb
  <2>5. Wishbone \notin sl.ack
    BY <2>4, Outputs
  <2>6. ~ack /\ ~error /\ ~stall
    BY <1>1, <1>10, <2>1, Master
  <2>7. /\ UNCHANGED <<ram, led_reg>> /\ ic_busy' /\ s_en_r' = {Wishbone}
        /\ ~ack_rd' /\ ~cyc_r' /\ served' = Nothing
    BY <1>1, <1>10, <2>1, <2>2, <2>3, <2>4, <2>5, <2>6, Registers
  <2>8. stage'[Wishbone].state = "request" /\ stage'[Wishbone].request = request
    BY <1>1, <1>10, <2>1, Registers
  <2>9. MemoryRight
    BY <1>3, <1>10, <2>7 DEF MemoryRight, StoreTaken
  <2>10. StageWaits'
    <3>1. Selected(Wishbone)'
      BY <1>1, <1>4, <1>10, <2>6, <2>7 DEF Selected
    <3>2. ~bus_en' /\ ~ack_rd' /\ StageKeeps("request")' /\ (stage[Wishbone].request = request)'
      BY <1>2, <1>4, <1>10, <2>6, <2>7, <2>8 DEF StageKeeps
    <3>3. BridgeIdle'
      BY <2>7 DEF BridgeIdle
    <3> QED BY <3>1, <3>2, <3>3 DEF StageWaits
  <2> QED
    BY <1>2, <2>6, <2>9, <2>10 DEF PhaseRight, Phases
<1> QED
  <2>1. windows(adr_o) \in {{}, {Bram}, {Native}, {Wishbone}}
    BY OneWindow DEF TypeOK
  <2> QED BY <1>5, <1>6, <1>7, <1>8, <1>9, <1>10, <2>1

\* The RAM answers a read in the next clock (rtl/uncore/ram_dp.py).
LEMMA BramReadsStep ==
  ASSUME SocConfig, TypeOK, BramReads, NEW sl \in SlaveOutputs(seen, request),
         IcClock(bus_en, adr_o, request, sl), SlavesClock(seen, request, sl), UnitWaits(sl)
  PROVE  PhaseRight(sl)
<1> DEFINE ack == master_ack(bus_en, adr_o, sl)
<1> DEFINE error == master_error(bus_en, adr_o, sl)
<1>1. /\ ic_busy /\ s_en_r = {Bram} /\ windows(adr_o) = {Bram} /\ outstanding = 1
      /\ ~bus_en /\ ack_rd /\ ~request.store /\ dbout = ram[word(adr_o)]
      /\ served = Nothing /\ ~cyc_r
      /\ Wishbone \in registered_slaves => stage[Wishbone].state = "idle"
  BY DEF BramReads, Selected, StageIdle, BridgeIdle
<1>2. Bram # Native /\ Native # Wishbone /\ Bram # Wishbone
  BY SocAssumption
<1>3. Bram \notin seen /\ Native \notin seen
  BY <1>1, Seen
<1>4. Wishbone \notin seen
  BY <1>1, Seen
<1>5. ~wb_stb(seen)
  BY <1>1, <1>4 DEF wb_stb
<1>6. Bram \in sl.ack /\ Bram \notin sl.error /\ sl.data[Bram] = dbout /\ Wishbone \notin sl.ack
  BY <1>1, <1>5, Outputs
<1>7. ack /\ ~error /\ master_data(bus_en, adr_o, sl) = ram[word(adr_o)]
  BY <1>1, <1>6, Master
<1>8. /\ UNCHANGED <<adrmasks, registered_slaves, ram, led_reg>> /\ ~ic_busy' /\ ic_busy' \in BOOLEAN
      /\ ~ack_rd' /\ ~cyc_r' /\ served' = Nothing
  BY <1>1, <1>3, <1>4, <1>5, <1>6, <1>7, Registers
<1>9. Wishbone \in registered_slaves => /\ DOMAIN stage'[Wishbone] = StageFields
                                        /\ stage'[Wishbone].state = "idle"
  BY <1>1, Registers
<1>10. BusFree'
  BY <1>8, <1>9 DEF BusFree, Free, StageIdle, BridgeIdle
<1>11. AnswerRight(sl)
  BY <1>1, <1>2, <1>7 DEF AnswerRight, Unmapped, Assigned
<1>12. MemoryRight /\ ~bus_en'
  BY <1>1, <1>8 DEF MemoryRight, StoreTaken, Offered, UnitWaits
<1> QED
  BY <1>1, <1>7, <1>8, <1>9, <1>10, <1>11, <1>12 DEF PhaseRight

\* The bridge holds the cycle until the Wishbone slave acknowledges it.
LEMMA BridgeWaitsStep ==
  ASSUME SocConfig, TypeOK, BridgeWaits, NEW sl \in SlaveOutputs(seen, request),
         IcClock(bus_en, adr_o, request, sl), SlavesClock(seen, request, sl), UnitWaits(sl)
  PROVE  PhaseRight(sl)
<1> DEFINE ack == master_ack(bus_en, adr_o, sl)
<1> DEFINE error == master_error(bus_en, adr_o, sl)
<1> DEFINE stall == master_stall(bus_en, adr_o, sl)
<1>1. /\ ic_busy /\ s_en_r = {Wishbone} /\ windows(adr_o) = {Wishbone} /\ outstanding = 1
      /\ bus_en /\ ~ack_rd /\ cyc_r /\ served = request /\ Wishbone \notin registered_slaves
  BY DEF BridgeWaits, Selected
<1>2. Bram # Native /\ Native # Wishbone /\ Bram # Wishbone /\ request # Nothing
  BY SocAssumption, RequestType
<1>3. Bram \notin seen /\ Native \notin seen
  BY <1>1, <1>2, Seen
<1>4. Wishbone \in seen
  BY <1>1, Seen
<1>5. wb_stb(seen)
  BY <1>1 DEF wb_stb
<1>6. /\ Wishbone \in sl.stall <=> Wishbone \notin sl.ack
      /\ Wishbone \notin sl.error
      /\ Wishbone \in sl.ack => sl.data[Wishbone] = request
  BY <1>1, <1>2, <1>5, Outputs
<1>7. /\ ack <=> Wishbone \in sl.ack
      /\ ~error
      /\ stall <=> ~ack
      /\ ack => master_data(bus_en, adr_o, sl) = request
  BY <1>1, <1>6, Master
<1>8. /\ UNCHANGED <<adrmasks, registered_slaves, ram, led_reg>> /\ ic_busy' \in BOOLEAN
      /\ (ic_busy' <=> ~ack) /\ s_en_r' = {Wishbone}
      /\ ~ack_rd' /\ (cyc_r' <=> ~ack) /\ served' = IF ack THEN Nothing ELSE request
  BY <1>1, <1>2, <1>3, <1>4, <1>7, Registers
<1>9. Assigned(adr_o) /\ ~Unmapped(adr_o)
  BY <1>1, <1>2 DEF Assigned, Unmapped
<1>10. MemoryRight
  BY <1>1, <1>2, <1>8 DEF MemoryRight, StoreTaken
<1>11. CASE ack
  <2>1. BusFree' /\ ~bus_en'
    BY <1>1, <1>7, <1>8, <1>11 DEF BusFree, Free, StageIdle, BridgeIdle, UnitWaits
  <2>2. AnswerRight(sl)
    BY <1>1, <1>7, <1>9, <1>11 DEF AnswerRight
  <2> QED
    BY <1>1, <1>7, <1>8, <1>10, <1>11, <2>1, <2>2 DEF PhaseRight
<1>12. CASE ~ack
  <2>1. /\ adr_o' = adr_o /\ request' = request /\ bus_en' /\ outstanding' = 1
        /\ windows(adr_o)' = windows(adr_o)
    BY <1>1, <1>7, <1>8, <1>12 DEF UnitWaits, request, windows
  <2>2. BridgeWaits'
    BY <1>1, <1>7, <1>8, <1>12, <2>1 DEF BridgeWaits, Selected
  <2> QED
    BY <1>1, <1>7, <1>8, <1>10, <1>12, <2>2 DEF PhaseRight, Phases
<1> QED BY <1>11, <1>12

\* The register stage holds the request until the bridge takes it.
LEMMA StageWaitsStep ==
  ASSUME SocConfig, TypeOK, StageWaits, NEW sl \in SlaveOutputs(seen, request),
         IcClock(bus_en, adr_o, request, sl), SlavesClock(seen, request, sl), UnitWaits(sl)
  PROVE  PhaseRight(sl)
<1> DEFINE ack == master_ack(bus_en, adr_o, sl)
<1> DEFINE error == master_error(bus_en, adr_o, sl)
<1>1. /\ ic_busy /\ s_en_r = {Wishbone} /\ windows(adr_o) = {Wishbone} /\ outstanding = 1
      /\ ~bus_en /\ ~ack_rd /\ Wishbone \in registered_slaves
      /\ stage[Wishbone].state = "request" /\ stage[Wishbone].request = request
      /\ (served = Nothing /\ ~cyc_r) \/ (cyc_r /\ served = request)
  BY DEF StageWaits, Selected, StageKeeps, BridgeIdle
<1>2. Bram # Native /\ Native # Wishbone /\ Bram # Wishbone /\ request # Nothing
  BY SocAssumption, RequestType
<1>3. Bram \notin seen /\ Native \notin seen
  BY <1>1, <1>2, Seen
<1>4. Wishbone \in seen
  BY <1>1, Seen
<1>5. wb_stb(seen) /\ slave_request(Wishbone, request) = request
  BY <1>1, <1>4 DEF wb_stb, slave_request
<1>6. /\ Wishbone \in sl.stall <=> Wishbone \notin sl.ack
      /\ Wishbone \notin sl.error
      /\ Wishbone \in sl.ack => sl.data[Wishbone] = request
  BY <1>1, <1>2, <1>5, Outputs
<1>7. ~ack /\ ~error
  BY <1>1, Master
<1>8. /\ UNCHANGED <<adrmasks, registered_slaves, ram, led_reg>> /\ ic_busy' \in BOOLEAN
      /\ ic_busy' /\ s_en_r' = {Wishbone} /\ ~ack_rd'
      /\ cyc_r' <=> Wishbone \notin sl.ack
      /\ served' = IF Wishbone \in sl.ack THEN Nothing ELSE request
  BY <1>1, <1>2, <1>3, <1>4, <1>5, <1>7, Registers
<1>9. MemoryRight
  BY <1>1, <1>2, <1>8 DEF MemoryRight, StoreTaken
<1>10. /\ adr_o' = adr_o /\ request' = request /\ ~bus_en' /\ outstanding' = 1
       /\ windows(adr_o)' = windows(adr_o)
  BY <1>1, <1>7, <1>8 DEF UnitWaits, request, windows
<1>11. Selected(Wishbone)'
  BY <1>1, <1>8, <1>10 DEF Selected
<1>12. DOMAIN stage'[Wishbone] = StageFields
  BY <1>1, Registers
<1>13. CASE Wishbone \in sl.ack
  <2>1. /\ stage'[Wishbone].state = "response" /\ stage'[Wishbone].ack_r
        /\ ~stage'[Wishbone].error_r /\ stage'[Wishbone].data_r = request
    BY <1>1, <1>6, <1>13, Registers
  <2>2. StageAnswers'
    BY <1>1, <1>8, <1>10, <1>11, <1>13, <2>1 DEF StageAnswers, StageKeeps, BridgeIdle
  <2> QED
    BY <1>7, <1>8, <1>9, <1>12, <2>2 DEF PhaseRight, Phases
<1>14. CASE Wishbone \notin sl.ack
  <2>1. stage'[Wishbone] = stage[Wishbone]
    BY <1>1, <1>6, <1>14, Registers
  <2>2. StageWaits'
    BY <1>1, <1>8, <1>10, <1>11, <1>14, <2>1 DEF StageWaits, StageKeeps
  <2> QED
    BY <1>7, <1>8, <1>9, <1>12, <2>2 DEF PhaseRight, Phases
<1> QED BY <1>13, <1>14

\* The register stage gives the answer back one clock later.
LEMMA StageAnswersStep ==
  ASSUME SocConfig, TypeOK, StageAnswers, NEW sl \in SlaveOutputs(seen, request),
         IcClock(bus_en, adr_o, request, sl), SlavesClock(seen, request, sl), UnitWaits(sl)
  PROVE  PhaseRight(sl)
<1> DEFINE ack == master_ack(bus_en, adr_o, sl)
<1> DEFINE error == master_error(bus_en, adr_o, sl)
<1>1. /\ ic_busy /\ s_en_r = {Wishbone} /\ windows(adr_o) = {Wishbone} /\ outstanding = 1
      /\ ~bus_en /\ ~ack_rd /\ Wishbone \in registered_slaves
      /\ stage[Wishbone].state = "response" /\ stage[Wishbone].ack_r /\ ~stage[Wishbone].error_r
      /\ stage[Wishbone].data_r = request /\ served = Nothing /\ ~cyc_r
  BY DEF StageAnswers, Selected, StageKeeps, BridgeIdle
<1>2. Bram # Native /\ Native # Wishbone /\ Bram # Wishbone
  BY SocAssumption
<1>3. Bram \notin seen /\ Native \notin seen
  BY <1>1, <1>2, Seen
<1>4. Wishbone \notin seen
  BY <1>1, Seen
<1>5. ~wb_stb(seen)
  BY <1>1, <1>4 DEF wb_stb
<1>6. Wishbone \notin sl.ack
  BY <1>5, Outputs
<1>7. ack /\ ~error /\ master_data(bus_en, adr_o, sl) = request
  BY <1>1, Master
<1>8. /\ UNCHANGED <<adrmasks, registered_slaves, ram, led_reg>> /\ ~ic_busy' /\ ic_busy' \in BOOLEAN
      /\ ~ack_rd' /\ ~cyc_r' /\ served' = Nothing
  BY <1>1, <1>3, <1>4, <1>5, <1>6, <1>7, Registers
<1>9. DOMAIN stage'[Wishbone] = StageFields /\ stage'[Wishbone].state = "idle"
  BY <1>1, Registers
<1>10. BusFree'
  BY <1>8, <1>9 DEF BusFree, Free, StageIdle, BridgeIdle
<1>11. AnswerRight(sl)
  BY <1>1, <1>2, <1>7 DEF AnswerRight, Unmapped, Assigned
<1>12. MemoryRight /\ ~bus_en'
  BY <1>1, <1>2, <1>8 DEF MemoryRight, StoreTaken, UnitWaits
<1> QED
  BY <1>1, <1>7, <1>8, <1>9, <1>10, <1>11, <1>12 DEF PhaseRight

-----------------------------------------------------------------------------
(* The invariant.                                                          *)

\* Reset: nothing is selected, stored or asked for.
LEMMA InitEstablishes ==
  ASSUME SocConfig, Init
  PROVE  DataBusInv
<1>1. /\ adrmasks = SocMap /\ registered_slaves \in Registrations
      /\ ic_busy = FALSE /\ adr_o \in Program
      /\ ram = [w \in SUBSET {0} |-> Nothing] /\ memory = [a \in Program |-> Nothing]
      /\ led_reg = Nothing /\ ack_rd = FALSE /\ cyc_r = FALSE /\ served = Nothing
      /\ outstanding = 0 /\ bus_en = FALSE /\ valid_reg = FALSE
      /\ current = {} /\ unanswered = {}
  BY DEF Init, LsuInit, IcInit, SlavesInit, RamInit, WishboneInit
<1>2. registered_slaves \subseteq {Wishbone}
  BY <1>1 DEF SocConfig
<1>3. /\ bus_op \in Op /\ pipe = [i \in Slots |-> bus_op] /\ bus_op.misalign = FALSE
      /\ bus_op.invalid_op = FALSE
  <2>1. (CHOOSE r \in Rd : TRUE) \in Rd
    BY RdAssumption
  <2> QED
    BY <2>1 DEF Init, LsuInit, Op
<1>4. ASSUME Wishbone \in registered_slaves
      PROVE  DOMAIN stage[Wishbone] = StageFields /\ stage[Wishbone].state = "idle"
  BY <1>4 DEF Init, IcInit, StageFields
<1>5. Slots = {0}
  BY DEF SocConfig, Slots
<1>6. TypeOK
  BY <1>1, <1>2, <1>3, <1>4, <1>5 DEF TypeOK, Words
<1>7. Phases
  BY <1>1, <1>4 DEF Phases, Idle, BusFree, Free, StageIdle, BridgeIdle
<1>8. Stored
  <2>1. \A a \in Program : word(a) \in Words
    BY <1>1, OneWindow
  <2> QED
    BY <1>1, <2>1 DEF Stored, Words
<1> QED
  BY <1>1, <1>6, <1>7, <1>8 DEF DataBusInv, OneRequest, Expected, AnswerShown

\* A clock in which the unit takes nothing: the request at work, if there is one,
\* moves on or is answered.
LEMMA QuietStep ==
  ASSUME SocConfig, DataBusInv, NEW ops \in Choices, NEW adr,
         NEW sl \in SlaveOutputs(seen, request), Clock(ops, adr, sl),
         Taken(ops, master_stall(bus_en, adr_o, sl), master_ack(bus_en, adr_o, sl)) = {}
  PROVE  DataBusInv'
<1> DEFINE ack == master_ack(bus_en, adr_o, sl)
<1> DEFINE error == master_error(bus_en, adr_o, sl)
<1> DEFINE stall == master_stall(bus_en, adr_o, sl)
<1> DEFINE data == master_data(bus_en, adr_o, sl)
<1> DEFINE confirmed == outstanding = 1 /\ (ack \/ error)
<1>1. /\ TypeOK /\ OneRequest /\ Expected /\ Phases /\ Stored
      /\ outstanding \in {0, 1}
  BY DEF DataBusInv, TypeOK
<1>2. /\ LsuClock(ops, stall, ack, error, Named(data))
      /\ IcClock(bus_en, adr_o, request, sl) /\ SlavesClock(seen, request, sl)
      /\ adr_o' = adr_o /\ current' = current
      /\ DOMAIN memory' = Program /\ \A a \in Program : memory'[a] = memory[a]
      /\ unanswered' = IF confirm(ack, error) THEN {} ELSE unanswered
  BY DEF Clock
<1>3. /\ confirm(ack, error) <=> confirmed
      /\ bus_en' = (bus_en /\ stall) /\ bus_op' = bus_op /\ pipe'[0] = pipe[0]
      /\ outstanding' = IF confirmed THEN 0 ELSE outstanding
      /\ pipe' \in [Slots -> Op] /\ (valid_reg' <=> confirmed) /\ valid_reg' \in BOOLEAN
      /\ bus_error_o' = IF confirmed THEN error ELSE bus_error_o
      /\ result_o'.word = Named(data)
  BY <1>1, <1>2, UnitStep
<1>4. request' = request
  BY <1>2, <1>3 DEF request
<1>5. /\ PhaseRight(sl)
      /\ outstanding = 0 => BusFree' /\ ~bus_en'
  <2>1. CASE Idle
    BY <1>1, <1>2, <1>3, <2>1, IdleStep DEF Idle
  <2>2. CASE ~Idle
    <3>1. outstanding = 1
      BY <1>1, <2>2 DEF Phases, Offered, BramReads, BridgeWaits, StageWaits, StageAnswers, Selected
    <3>2. UnitWaits(sl)
      BY <1>2, <1>3, <3>1 DEF UnitWaits
    <3> QED
      BY <1>1, <1>2, <2>2, <3>1, <3>2, OfferedStep, BramReadsStep, BridgeWaitsStep,
         StageWaitsStep, StageAnswersStep DEF Phases
  <2> QED BY <2>1, <2>2
<1>6. /\ UNCHANGED <<adrmasks, registered_slaves>> /\ ic_busy' \in BOOLEAN
      /\ Wishbone \in registered_slaves => DOMAIN stage'[Wishbone] = StageFields
      /\ confirmed => AnswerRight(sl) /\ BusFree' /\ ~bus_en'
      /\ outstanding = 1 /\ ~confirmed => Phases'
      /\ MemoryRight
  BY <1>5 DEF PhaseRight
<1>7. \A a : /\ windows(a)' = windows(a) /\ (Assigned(a)' <=> Assigned(a))
             /\ (Unmapped(a)' <=> Unmapped(a))
  BY <1>6 DEF windows, Assigned, Unmapped
<1> HIDE DEF ack, error, stall, data
<1>8. TypeOK'
  <2>1. bus_en' \in BOOLEAN
    BY <1>3, Zenon
  <2>2. DOMAIN ram' = Words
    BY <1>1, <1>6 DEF MemoryRight, TypeOK
  <2>3. outstanding' \in {0, 1}
    BY <1>1, <1>3
  <2> QED
    BY <1>1, <1>2, <1>3, <1>6, <2>1, <2>2, <2>3 DEF TypeOK
<1>9. OneRequest'
  BY <1>1, <1>2, <1>3, <1>4 DEF OneRequest
<1>10. Expected'
  <2>1. adr_o \in Program
    BY <1>1 DEF TypeOK
  <2>2. outstanding' = 1 => outstanding = 1
    BY <1>1, <1>3
  <2>3. Keeps(adr_o)' <=> Keeps(adr_o)
    BY <1>2, <1>7 DEF Keeps
  <2> QED BY <1>1, <1>2, <1>4, <1>7, <2>1, <2>2, <2>3 DEF Expected
<1>11. Phases'
  <2>1. CASE outstanding = 0 \/ confirmed
    <3>1. outstanding' = 0 /\ ~bus_en' /\ BusFree'
      BY <1>3, <1>5, <1>6, <2>1
    <3> QED BY <3>1 DEF Phases, Idle
  <2> QED BY <1>1, <1>6, <2>1
<1>12. Stored'
  <2>1. SUFFICES ASSUME NEW a \in Program
                 PROVE  /\ windows(a) = {Bram} => ram'[word(a)] = memory[a] \/ OnItsWay(a)'
                        /\ windows(a) = {Native} /\ Assigned(a) =>
                               led_reg' = memory[a] \/ OnItsWay(a)'
    BY <1>2, <1>7 DEF Stored
  <2>2. /\ windows(a) = {Bram} => ram[word(a)] = memory[a] \/ OnItsWay(a)
        /\ windows(a) = {Native} /\ Assigned(a) => led_reg = memory[a] \/ OnItsWay(a)
    BY <1>1 DEF Stored
  <2>3. adr_o \in Program /\ DOMAIN ram = Words /\ word(a) \in Words /\ word(adr_o) \in Words
    BY <1>1, OneWindow DEF TypeOK
  <2>4. Bram # Native /\ Native # Wishbone /\ Bram # Wishbone
    BY SocAssumption
  <2>5. ASSUME a # adr_o
        PROVE  /\ windows(a) = {Bram} => ram'[word(a)] = ram[word(a)]
               /\ windows(a) = {Native} /\ Assigned(a) => led_reg' = led_reg
    <3>1. /\ windows(a) = {Bram} /\ windows(adr_o) = {Bram} => word(a) # word(adr_o)
          /\ windows(a) = {Native} /\ windows(adr_o) = {Native} /\ Assigned(a) => ~Assigned(adr_o)
      BY <1>1, <2>3, <2>5, OwnWord DEF TypeOK
    <3>2. windows(a) = {Bram} => ram'[word(a)] = ram[word(a)]
      <4>1. CASE StoreTaken(Bram)
        <5>1. windows(adr_o) = {Bram} /\ ram' = [ram EXCEPT ![word(adr_o)] = request]
          BY <1>6, <4>1 DEF MemoryRight, StoreTaken
        <5> QED BY <2>3, <3>1, <5>1
      <4> QED BY <1>6, <4>1 DEF MemoryRight
    <3>3. windows(a) = {Native} /\ Assigned(a) => led_reg' = led_reg
      BY <1>6, <3>1 DEF MemoryRight, StoreTaken
    <3> QED BY <3>2, <3>3
  <2>6. CASE a # adr_o
    BY <2>2, <2>5, <2>6 DEF OnItsWay
  <2>7. CASE a = adr_o /\ ~(Offered /\ request.store)
    BY <1>6, <2>2, <2>7 DEF MemoryRight, StoreTaken, OnItsWay
  <2>8. CASE a = adr_o /\ Offered /\ request.store
    <3>1. windows(a) = {Bram} \/ (windows(a) = {Native} /\ Assigned(a)) => memory[a] = request
      <4>1. windows(a) = {Bram} => Assigned(a)
        BY SocAssumption DEF Assigned
      <4> QED BY <1>1, <2>8, <4>1 DEF Expected, Offered, Keeps
    <3>2. windows(a) = {Bram} \/ (windows(a) = {Native} /\ Assigned(a)) => Assigned(adr_o)
      BY <2>4, <2>8 DEF Assigned
    <3>3. bus_en' /\ windows(a) \in {{Bram}, {Native}} => OnItsWay(a)'
      <4>1. SUFFICES ASSUME bus_en', windows(a) \in {{Bram}, {Native}}
                     PROVE  OnItsWay(a)'
        OBVIOUS
      <4>2. outstanding = 1 /\ ~confirmed
        BY <1>6, <2>8, <4>1 DEF Offered
      <4>3. Offered'
        BY <1>2, <1>6, <1>7, <1>11, <2>4, <2>8, <4>1
           DEF Phases, Idle, BramReads, BridgeWaits, StageWaits, StageAnswers, Selected
      <4> QED BY <1>2, <1>4, <2>8, <4>3 DEF OnItsWay
    <3>4. ~bus_en' /\ windows(a) = {Bram} => ram'[word(a)] = request
      BY <1>6, <2>3, <2>8, <3>2 DEF MemoryRight, StoreTaken
    <3>5. ~bus_en' /\ windows(a) = {Native} /\ Assigned(a) => led_reg' = request
      BY <1>6, <2>8, <3>2 DEF MemoryRight, StoreTaken
    <3> QED BY <3>1, <3>3, <3>4, <3>5
  <2> QED BY <2>6, <2>7, <2>8
<1>13. AnswerShown'
  <2>1. SUFFICES ASSUME valid_reg'
                 PROVE  /\ current # {}
                        /\ error <=> (Unmapped(adr_o) \/ ~Assigned(adr_o))
                        /\ ~request.store /\ ~error =>
                               \A c \in current : Named(data) = Named(c.value)
    BY <1>2, <1>3, <1>4, <1>7 DEF AnswerShown
  <2>2. confirmed /\ outstanding = 1
    BY <1>3, <2>1
  <2>3. /\ error <=> (Unmapped(adr_o) \/ ~Assigned(adr_o))
        /\ ~request.store /\ ~error =>
               data = IF Wishbone \in windows(adr_o) THEN request
                      ELSE IF Bram \in windows(adr_o) THEN ram[word(adr_o)] ELSE led_reg
    BY <1>6, <2>2 DEF AnswerRight, ack, error, data
  <2>4. current # {}
    BY <1>1, <2>2 DEF OneRequest
  <2>5. ASSUME ~request.store, ~error, NEW c \in current
        PROVE  data = c.value
    <3>1. c.value = IF Wishbone \in windows(adr_o) THEN request ELSE memory[adr_o]
      BY <1>1, <2>2, <2>5 DEF Expected
    <3>2. adr_o \in Program /\ windows(adr_o) \in {{}, {Bram}, {Native}, {Wishbone}}
      BY <1>1, OneWindow DEF TypeOK
    <3>3. windows(adr_o) # {} /\ Assigned(adr_o)
      BY <2>3, <2>5 DEF Unmapped
    <3>4. /\ windows(adr_o) = {Bram} => ram[word(adr_o)] = memory[adr_o]
          /\ windows(adr_o) = {Native} => led_reg = memory[adr_o]
      BY <1>1, <2>5, <3>2, <3>3 DEF Stored, OnItsWay
    <3> QED
      BY <2>3, <2>5, <3>1, <3>2, <3>3, <3>4, SocAssumption
  <2> QED BY <2>3, <2>4, <2>5
<1> QED
  BY <1>8, <1>9, <1>10, <1>11, <1>12, <1>13 DEF DataBusInv

\* A clock in which the unit takes a request: it becomes the request at work.
LEMMA StartStep ==
  ASSUME SocConfig, DataBusInv, NEW ops \in Choices,
         NEW adr \in (IF ops = {} THEN {adr_o} ELSE Program),
         NEW sl \in SlaveOutputs(seen, request), Clock(ops, adr, sl),
         Taken(ops, master_stall(bus_en, adr_o, sl), master_ack(bus_en, adr_o, sl)) # {}
  PROVE  DataBusInv'
<1> DEFINE ack == master_ack(bus_en, adr_o, sl)
<1> DEFINE error == master_error(bus_en, adr_o, sl)
<1> DEFINE stall == master_stall(bus_en, adr_o, sl)
<1> DEFINE data == master_data(bus_en, adr_o, sl)
<1> DEFINE taken == Taken(ops, stall, ack)
<1> DEFINE new == {[rd |-> op.rd, store |-> op.store, adr |-> adr] : op \in taken}
<1>1. TypeOK /\ Phases /\ Stored
  BY DEF DataBusInv
<1>2. /\ LsuClock(ops, stall, ack, error, Named(data))
      /\ IcClock(bus_en, adr_o, request, sl) /\ SlavesClock(seen, request, sl)
      /\ adr_o' = adr
      /\ memory' = [a \in Program |-> IF Keeps(a) /\ \E r \in new : r.store /\ r.adr = a
                                      THEN CHOOSE r \in new : TRUE ELSE memory[a]]
      /\ current' = {[request |-> r, value |-> IF Wishbone \in windows(adr) THEN r
                                               ELSE memory[adr]] : r \in new}
      /\ unanswered' = current'
  BY DEF Clock
<1>3. PICK op \in Op : taken = {op} /\ bus_op' = op /\ pipe'[0] = op /\ ~op.misalign /\ ~op.invalid_op
  BY <1>1, <1>2, UnitStep
<1>4. /\ outstanding = 0 /\ bus_en' /\ outstanding' = 1
      /\ confirm(ack, error) <=> (ack \/ error) /\ outstanding = 1
      /\ pipe' \in [Slots -> Op] /\ (valid_reg' <=> confirm(ack, error)) /\ valid_reg' \in BOOLEAN
  BY <1>1, <1>2, UnitStep
<1>5. ~valid_reg'
  BY <1>4
<1>6. Idle
  BY <1>1, <1>4 DEF Phases, Offered, BramReads, BridgeWaits, StageWaits, StageAnswers, Selected
<1>7. PhaseRight(sl) /\ BusFree'
  BY <1>1, <1>2, <1>6, IdleStep
<1>8. /\ UNCHANGED <<adrmasks, registered_slaves, ram, led_reg>> /\ ic_busy' \in BOOLEAN
      /\ Wishbone \in registered_slaves => DOMAIN stage'[Wishbone] = StageFields
  BY <1>4, <1>7 DEF PhaseRight, MemoryRight, StoreTaken, Offered
<1>9. \A a : windows(a)' = windows(a) /\ (Assigned(a)' <=> Assigned(a))
  BY <1>8 DEF windows, Assigned
<1>10. adr \in Program
  BY <1>3 DEF Taken
<1>11. request' = [rd |-> op.rd, store |-> op.store, adr |-> adr] /\ new = {request'}
  BY <1>2, <1>3 DEF request
<1>12. /\ (CHOOSE r \in new : TRUE) = request' /\ request'.adr = adr /\ request'.store = op.store
       /\ \A a : (\E r \in new : r.store /\ r.adr = a) <=> (op.store /\ adr = a)
  BY <1>11
<1> HIDE DEF ack, error, stall, data, taken, new
<1>13. DOMAIN memory' = Program /\ \A a \in Program :
           memory'[a] = IF Keeps(a) /\ op.store /\ adr = a THEN request' ELSE memory[a]
  BY <1>2, <1>12
<1>14. current' = {[request |-> request', value |-> IF Wishbone \in windows(adr) THEN request'
                                                    ELSE memory[adr]]}
  BY <1>2, <1>11
<1>15. TypeOK'
  BY <1>1, <1>2, <1>3, <1>4, <1>8, <1>10, <1>13 DEF TypeOK
<1>16. PICK c : /\ current' = {c} /\ c.request = request'
                /\ c.value = IF Wishbone \in windows(adr) THEN request' ELSE memory[adr]
  <2> DEFINE value == IF Wishbone \in windows(adr) THEN request' ELSE memory[adr]
  <2> DEFINE d == [request |-> request', value |-> value]
  <2>1. current' = {d}
    BY <1>14
  <2>2. d.request = request' /\ d.value = value
    OBVIOUS
  <2> HIDE DEF d
  <2> QED BY <2>1, <2>2
<1>17. OneRequest'
  BY <1>2, <1>4, <1>16 DEF OneRequest
<1>18. Expected'
  <2>1. op.store /\ Keeps(adr)' => memory'[adr] = request'
    BY <1>9, <1>10, <1>13 DEF Keeps
  <2>2. ~op.store => memory'[adr] = memory[adr]
    BY <1>10, <1>13
  <2>3. \A d \in current' : d = c
    BY <1>16
  <2> QED BY <1>2, <1>9, <1>12, <1>16, <2>1, <2>2, <2>3 DEF Expected
<1>19. Offered'
  BY <1>4, <1>7 DEF Offered
<1>20. Stored'
  <2>1. SUFFICES ASSUME NEW a \in Program
                 PROVE  /\ windows(a) = {Bram} => ram[word(a)] = memory'[a] \/ OnItsWay(a)'
                        /\ windows(a) = {Native} /\ Assigned(a) =>
                               led_reg = memory'[a] \/ OnItsWay(a)'
    BY <1>8, <1>9 DEF Stored
  <2>2. /\ windows(a) = {Bram} => ram[word(a)] = memory[a]
        /\ windows(a) = {Native} /\ Assigned(a) => led_reg = memory[a]
    BY <1>1, <1>4 DEF Stored, OnItsWay, Offered
  <2>3. op.store /\ adr = a => OnItsWay(a)'
    BY <1>2, <1>12, <1>19 DEF OnItsWay
  <2> QED BY <1>13, <2>2, <2>3
<1>21. AnswerShown'
  BY <1>5 DEF AnswerShown
<1> QED
  BY <1>15, <1>17, <1>18, <1>19, <1>20, <1>21 DEF DataBusInv, Phases

\* Every clock keeps the invariant.
LEMMA NextKeeps ==
  ASSUME SocConfig, DataBusInv, [Next]_vars
  PROVE  DataBusInv'
<1>1. CASE Next
  <2>1. PICK ops \in Choices, sl \in SlaveOutputs(seen, request) :
            \E adr \in (IF ops = {} THEN {adr_o} ELSE Program) : Clock(ops, adr, sl)
    BY <1>1 DEF Next
  <2>2. PICK adr \in (IF ops = {} THEN {adr_o} ELSE Program) : Clock(ops, adr, sl)
    BY <2>1
  <2> QED BY <2>2, QuietStep, StartStep
<1>2. CASE UNCHANGED vars
  BY <1>2 DEF vars, lsuVars, icVars, slaveVars, DataBusInv, TypeOK, OneRequest, Expected, Phases,
     Stored, AnswerShown, Idle, Offered, BramReads, BridgeWaits, StageWaits, StageAnswers, OnItsWay,
     BusFree, Free, StageIdle, BridgeIdle, StageKeeps, Selected, request, windows, Assigned, Unmapped, Keeps
<1> QED BY <1>1, <1>2

\* The cycle of the Wishbone bridge is that of the request at work.
LEMMA HeldCycle ==
  ASSUME SocConfig, DataBusInv
  PROVE  WishboneHeld
<1>1. TypeOK /\ OneRequest /\ Phases
  BY DEF DataBusInv
<1>2. SUFFICES ASSUME served # Nothing PROVE WishboneHeld
  BY DEF WishboneHeld
<1>3. /\ BridgeWaits \/ StageWaits
      /\ cyc_r /\ served = request /\ outstanding = 1
  BY <1>1, <1>2 DEF Phases, Idle, Offered, BramReads, BridgeWaits, StageWaits, StageAnswers,
     BusFree, BridgeIdle, Selected
<1>4. slave_request(Wishbone, request) = request
  BY <1>3 DEF BridgeWaits, StageWaits, StageKeeps, slave_request
<1>5. \E c \in unanswered : c.request = served
  BY <1>1, <1>3 DEF OneRequest
<1> QED BY <1>3, <1>4, <1>5 DEF WishboneHeld, wb_stb

\* What the unit shows is the answer of the request at work.
LEMMA ShownAnswer ==
  ASSUME SocConfig, DataBusInv
  PROVE  OwnData /\ ErrorIffUnmapped
<1>1. TypeOK /\ OneRequest /\ AnswerShown
  BY DEF DataBusInv
<1>2. \A c \in current : c.request = request /\ c.request.rd = bus_op.rd /\ c.request.adr = adr_o
  BY <1>1 DEF OneRequest, request
<1>3. max_pipe_index = 0 /\ write_pipe_index = 0 /\ request.store = bus_op.store
  BY DEF SocConfig, max_pipe_index, write_pipe_index, request
<1>4. pipe[0].rd = bus_op.rd /\ pipe[0].store = bus_op.store
  BY <1>1 DEF TypeOK
<1>5. OwnData
  <2>1. SUFFICES ASSUME valid_reg, we_o, ~bus_error_o
                 PROVE  \E c \in current : result_o.word = Named(c.value) /\ rd_o = c.request.rd
    BY DEF OwnData
  <2>2. ~request.store
    BY <1>3, <1>4, <2>1 DEF we_o
  <2> QED BY <1>1, <1>2, <1>3, <1>4, <2>1, <2>2 DEF AnswerShown, rd_o
<1>6. ErrorIffUnmapped
  BY <1>1, <1>2 DEF AnswerShown, ErrorIffUnmapped
<1> QED BY <1>5, <1>6

-----------------------------------------------------------------------------
(* The theorems.                                                           *)

\* Unit, interconnect, stage and slaves agree on the one request at work, and the
\* slaves hold what the program stored (rtl/loadstore.py,
\* rtl/uncore/dbus_interconnect.py, rtl/uncore/ram_dp.py).
THEOREM Invariant ==
  ASSUME SocConfig
  PROVE  Spec => []DataBusInv
<1>1. Init => DataBusInv
  BY InitEstablishes
<1>2. DataBusInv /\ [Next]_vars => DataBusInv'
  BY NextKeeps
<1> QED BY <1>1, <1>2, PTL DEF Spec

\* The Wishbone cycle stands, with its one request, until it is acknowledged
\* (rtl/bonfire_interfaces.py, DbusToWishbone).
THEOREM SpecWishboneHeld ==
  ASSUME SocConfig
  PROVE  Spec => []WishboneHeld
<1>1. DataBusInv => WishboneHeld
  BY HeldCycle
<1> QED BY <1>1, Invariant, PTL

\* A load gets the last word stored at its address, or the word the Wishbone slave
\* returned for it (rtl/loadstore.py, result_o).
THEOREM SpecOwnData ==
  ASSUME SocConfig
  PROVE  Spec => []OwnData
<1>1. DataBusInv => OwnData
  BY ShownAnswer
<1> QED BY <1>1, Invariant, PTL

\* The unit reports a bus error for an address without a slave and for no other
\* (rtl/uncore/dbus_interconnect.py, master error).
THEOREM SpecErrorIffUnmapped ==
  ASSUME SocConfig
  PROVE  Spec => []ErrorIffUnmapped
<1>1. DataBusInv => ErrorIffUnmapped
  BY ShownAnswer
<1> QED BY <1>1, Invariant, PTL

=============================================================================
