----------------------------- MODULE CacheProofs -----------------------------
(***************************************************************************)
(* The cache is a memory: for every size of the cache and of the lines,    *)
(* every content of the memory, every sequence of requests and every       *)
(* number of wait states.                                                  *)
(***************************************************************************)
EXTENDS Cache, TLAPS

Cell(tag, line, word) == [tag |-> tag, line |-> line, word |-> word]
MemAdr == [tag : Tags, line : Lines, word : Offset]
Wide == [Slices -> Words]

TypeOK ==
    /\ en_r \in BOOLEAN /\ slave_r \in Requests
    /\ slave_db_mux_reg \in Slices /\ slave_db_rd \in Wide
    /\ buffer_index \in Lines /\ tag_buffer \in Tag
    /\ tag_ram \in [Lines -> Tag] /\ cache_ram \in [Lines -> [Offset -> Wide]]
    /\ memory \in [MemAdr -> Wide] /\ master_db_rd \in Wide
    /\ wbm_state \in {"wb_idle", "wb_burst_read", "wb_burst_write", "wb_finish", "wb_retire"}
    /\ wbm_enable \in BOOLEAN /\ wbm_we \in BOOLEAN
    /\ cache_offset_counter \in Offset /\ master_offset_counter \in Offset

\* The tag RAM's output is what the RAM holds at the index it was read with.
TagsCurrent ==
    /\ tag_buffer = tag_ram[buffer_index]
    /\ \A l \in Lines : tag_ram[l].dirty => tag_ram[l].valid

\* The state machine and its registers.
MasterState ==
    /\ wbm_enable <=> wbm_state \in {"wb_burst_read", "wb_burst_write", "wb_finish"}
    /\ wbm_state = "wb_burst_read" => ~wbm_we
    /\ wbm_state = "wb_burst_write" => wbm_we
    /\ wbm_enable => (wbm_state = "wb_finish" <=> master_offset_counter = LineSize - 1)
    /\ ~wbm_enable => ~wbm_we /\ master_offset_counter = 0 /\ cache_offset_counter = 0

\* A burst is for the request that is held, which goes on to miss; and it writes
\* back as long as the line that is in its place is dirty.
BurstForHeld ==
    wbm_enable => /\ en_r
                  /\ buffer_index = slave_r.adr.line
                  /\ ~(tag_buffer.valid /\ tag_buffer.address = slave_r.adr.tag)
                  /\ wbm_we = tag_buffer.dirty

\* How far a write back is: the words before the counter are in memory, the next
\* one is at the output of the data RAM.
WriteBackProgress ==
    wbm_enable /\ wbm_we =>
        /\ cache_offset_counter = (master_offset_counter + 1) % LineSize
        /\ master_db_rd = cache_ram[buffer_index][master_offset_counter]
        /\ \A o \in Offset : o < master_offset_counter =>
               memory[Cell(tag_buffer.address, buffer_index, o)] = cache_ram[buffer_index][o]

\* How far a refill is.
RefillProgress ==
    wbm_enable /\ ~wbm_we =>
        \A o \in Offset : o < master_offset_counter =>
            cache_ram[buffer_index][o] = memory[Cell(slave_r.adr.tag, buffer_index, o)]

\* A line that is clean, and is not being refilled, is in memory.
LineIsCurrent(l) ==
    \A o \in Offset : cache_ram[l][o] = memory[Cell(tag_ram[l].address, l, o)]
CleanLines ==
    \A l \in Lines : tag_ram[l].valid /\ ~tag_ram[l].dirty /\ ~Refilled(l) => LineIsCurrent(l)

\* The inductive invariant.
CacheInv ==
    /\ TypeOK /\ TagsCurrent /\ MasterState /\ BurstForHeld
    /\ WriteBackProgress /\ RefillProgress /\ CleanLines

-----------------------------------------------------------------------------
(* Types of what is on the bus and of what is at work.                     *)

\* The parts of an address.
LEMMA RequestType ==
  ASSUME NEW r \in Requests
  PROVE  /\ r.adr \in Adr /\ r.we \in BOOLEAN /\ r.data \in Words
         /\ r.adr.tag \in Tags /\ r.adr.line \in Lines /\ r.adr.word \in Offset
         /\ r.adr.slice \in Slices
<1>1. r \in [adr : Adr, we : BOOLEAN, data : Words]
  BY CacheAssumption
<1> QED
  BY <1>1 DEF Adr

\* The request at work is a request of the master.
LEMMA InputType ==
  ASSUME TypeOK, NEW bus \in OnBus
  PROVE  /\ bus_input(bus) \in Requests /\ bus.en \in BOOLEAN /\ bus.request \in Requests
         /\ slave_en(bus) \in BOOLEAN /\ hit(bus) \in BOOLEAN /\ miss(bus) \in BOOLEAN
         /\ hit(bus) <=> slave_en(bus) /\ index_match(bus) /\ tag_match(bus)
         /\ ~(hit(bus) /\ miss(bus))
<1>1. bus.en \in BOOLEAN /\ bus.request \in Requests
  BY CacheAssumption DEF OnBus
<1>2. bus_input(bus) \in Requests
  BY <1>1 DEF TypeOK, bus_input
<1>3. slave_en(bus) \in BOOLEAN /\ hit(bus) \in BOOLEAN /\ miss(bus) \in BOOLEAN
  BY Zenon DEF slave_en, hit, miss
<1> QED
  BY <1>1, <1>2, <1>3 DEF hit, miss

\* A word of memory.
LEMMA CellType ==
  ASSUME NEW t \in Tags, NEW l \in Lines, NEW o \in Offset
  PROVE  Cell(t, l, o) \in MemAdr
  BY DEF Cell, MemAdr

\* Cells are told apart by each of their parts.
LEMMA CellsDiffer ==
  ASSUME NEW t, NEW l, NEW o, NEW t2, NEW l2, NEW o2, Cell(t, l, o) = Cell(t2, l2, o2)
  PROVE  t = t2 /\ l = l2 /\ o = o2
<1>1. /\ Cell(t, l, o).tag = t /\ Cell(t2, l2, o2).tag = t2
      /\ Cell(t, l, o).line = l /\ Cell(t2, l2, o2).line = l2
      /\ Cell(t, l, o).word = o /\ Cell(t2, l2, o2).word = o2
  BY DEF Cell
<1> QED
  BY <1>1

\* The counters stay below the size of a line.
LEMMA Counters ==
  /\ 0 \in Offset /\ 1 \in Offset /\ LineSize - 1 \in Offset /\ LineSize \in Nat
  /\ \A n \in Offset : /\ n # LineSize - 1 => n + 1 \in Offset /\ n + 1 < LineSize
                       /\ (n + 1) % LineSize \in Offset
                       /\ n # LineSize - 1 => (n + 1) % LineSize = n + 1
  BY CacheAssumption DEF Offset

-----------------------------------------------------------------------------
(* A clock in which the cache's bus master is at work: it serves the held  *)
(* request, and nothing else happens.                                      *)

\* What the signals are then.
LEMMA BusySignals ==
  ASSUME CacheInv, wbm_enable, NEW bus \in OnBus
  PROVE  /\ bus_input(bus) = slave_r /\ ~hit(bus) /\ miss(bus) /\ ~slave_cache_we(bus)
         /\ dirty_miss(bus) = wbm_we
         /\ slave_r \in Requests /\ slave_r.adr.line = buffer_index
         /\ wbm_adr(bus) = Cell(IF wbm_we THEN tag_buffer.address ELSE slave_r.adr.tag,
                                buffer_index, master_offset_counter)
         /\ ram_adr(bus) = [line |-> buffer_index,
                            word |-> IF wbm_we THEN cache_offset_counter
                                     ELSE master_offset_counter]
<1>1. /\ en_r /\ buffer_index = slave_r.adr.line
      /\ ~(tag_buffer.valid /\ tag_buffer.address = slave_r.adr.tag)
      /\ wbm_we = tag_buffer.dirty /\ slave_r \in Requests
      /\ wbm_we \in BOOLEAN
  BY DEF CacheInv, BurstForHeld, TypeOK
<1>2. bus_input(bus) = slave_r /\ slave_en(bus) /\ index_match(bus) /\ ~tag_match(bus)
  BY <1>1 DEF bus_input, slave_en, index_match, tag_match
<1>3. ~hit(bus) /\ miss(bus) /\ ~slave_cache_we(bus)
  BY <1>2 DEF hit, miss, slave_cache_we
<1>4. dirty_miss(bus) <=> wbm_we
  BY <1>1, <1>3 DEF dirty_miss
<1>5. dirty_miss(bus) \in BOOLEAN
  BY Zenon DEF dirty_miss, miss
<1> QED
  BY <1>1, <1>2, <1>3, <1>4, <1>5 DEF wbm_adr, ram_adr, Cell

\* What a clock does to the held request and to the tags while the memory does
\* not end the burst.
LEMMA BusySlave ==
  ASSUME CacheInv, wbm_enable, NEW bus \in OnBus, NEW ack \in BOOLEAN, Clock(bus, ack)
  PROVE  /\ en_r' = TRUE /\ slave_r' = slave_r /\ done' = {}
         /\ slave_db_rd' \in Wide /\ slave_db_mux_reg' \in Slices
         /\ buffer_index' = buffer_index
         /\ ~(ack /\ wbm_state = "wb_finish") => tag_ram' = tag_ram /\ tag_buffer' = tag_buffer
         /\ ack /\ wbm_state = "wb_finish" =>
                LET t == [valid |-> ~wbm_we, dirty |-> FALSE, address |-> slave_r.adr.tag]
                IN  tag_ram' = [tag_ram EXCEPT ![buffer_index] = t] /\ tag_buffer' = t
<1>1. SlaveClock(bus) /\ TagClock(bus, ack) /\ RamClock(bus, ack)
  BY DEF Clock
<1>2. /\ TypeOK /\ en_r /\ tag_buffer = tag_ram[buffer_index]
  BY DEF CacheInv, BurstForHeld, TagsCurrent
<1>3. en_r' = TRUE /\ slave_r' = slave_r /\ done' = {} /\ slave_db_mux_reg' \in Slices
  BY <1>1, <1>2, BusySignals DEF SlaveClock, TypeOK
<1>4. slave_db_rd' \in Wide
  <2>1. slave_r.adr.line \in Lines /\ slave_r.adr.word \in Offset
    BY <1>2, RequestType DEF TypeOK
  <2>2. slave_db_rd' = cache_ram[slave_r.adr.line][slave_r.adr.word]
    BY <1>1, BusySignals DEF RamClock
  <2> QED
    BY <1>2, <2>1, <2>2 DEF TypeOK
<1>5. tag_we(bus, ack) <=> ack /\ wbm_state = "wb_finish"
  BY BusySignals DEF tag_we
<1>6. buffer_index' = buffer_index
  BY <1>1, BusySignals DEF TagClock
<1>7. ASSUME ack, wbm_state = "wb_finish"
      PROVE  LET t == [valid |-> ~wbm_we, dirty |-> FALSE, address |-> slave_r.adr.tag]
             IN  tag_ram' = [tag_ram EXCEPT ![buffer_index] = t] /\ tag_buffer' = t
  <2>1. slave_cache_we(bus) = FALSE
    BY BusySignals DEF slave_cache_we
  <2> QED
    BY <1>1, <1>5, <1>7, <2>1, BusySignals DEF TagClock
<1>8. ASSUME ~(ack /\ wbm_state = "wb_finish")
      PROVE  tag_ram' = tag_ram /\ tag_buffer' = tag_buffer
  BY <1>1, <1>2, <1>5, <1>8, BusySignals DEF TagClock
<1> QED
  BY <1>3, <1>4, <1>6, <1>7, <1>8

\* What it does to the data: with the memory's acknowledge, one word goes from
\* the data RAM to memory or the other way.
LEMMA BusyData ==
  ASSUME CacheInv, wbm_enable, NEW bus \in OnBus, NEW ack \in BOOLEAN, Clock(bus, ack)
  PROVE  /\ memory' = IF ack /\ wbm_we
                      THEN [memory EXCEPT ![Cell(tag_buffer.address, buffer_index,
                                                 master_offset_counter)] = master_db_rd]
                      ELSE memory
         /\ cache_ram' = IF ack /\ ~wbm_we
                         THEN [cache_ram EXCEPT ![buffer_index][master_offset_counter] =
                                   memory[Cell(slave_r.adr.tag, buffer_index,
                                               master_offset_counter)]]
                         ELSE cache_ram
         /\ master_db_rd' = IF ack THEN cache_ram[buffer_index][IF wbm_we THEN cache_offset_counter
                                                                ELSE master_offset_counter]
                            ELSE master_db_rd
<1>1. MemoryClock(bus, ack) /\ RamClock(bus, ack)
  BY DEF Clock
<1>2. wbm_state # "wb_idle" /\ wbm_we \in BOOLEAN
  BY DEF CacheInv, MasterState, TypeOK
<1>3. memory' = IF ack /\ wbm_we THEN [memory EXCEPT ![wbm_adr(bus)] = master_db_rd] ELSE memory
  BY <1>1 DEF MemoryClock
<1>4. /\ master_db_rd' = IF ack THEN cache_ram[ram_adr(bus).line][ram_adr(bus).word]
                         ELSE master_db_rd
      /\ cache_ram' = IF ack /\ ~dirty_miss(bus)
                      THEN [cache_ram EXCEPT ![ram_adr(bus).line][ram_adr(bus).word] =
                                memory[wbm_adr(bus)]]
                      ELSE cache_ram
  BY <1>1, <1>2, BusySignals DEF RamClock
<1>5. wbm_we => wbm_adr(bus) = Cell(tag_buffer.address, buffer_index, master_offset_counter)
  BY BusySignals
<1>6. ~wbm_we => /\ wbm_adr(bus) = Cell(slave_r.adr.tag, buffer_index, master_offset_counter)
                 /\ ram_adr(bus).word = master_offset_counter
  BY BusySignals
<1>7. /\ ram_adr(bus).line = buffer_index /\ dirty_miss(bus) = wbm_we
      /\ ram_adr(bus).word = IF wbm_we THEN cache_offset_counter ELSE master_offset_counter
  BY BusySignals
<1> QED
  BY <1>3, <1>4, <1>5, <1>6, <1>7

\* What it does to the state machine.
LEMMA BusyMaster ==
  ASSUME CacheInv, wbm_enable, NEW bus \in OnBus, NEW ack \in BOOLEAN, Clock(bus, ack)
  PROVE  /\ ~ack => UNCHANGED wbmVars
         /\ ack => IF wbm_state = "wb_finish" THEN Finish(TRUE) ELSE Burst(TRUE)
<1>1. MasterClock(bus, ack)
  BY DEF Clock
<1>2. wbm_state \in {"wb_burst_read", "wb_burst_write", "wb_finish"}
  BY DEF CacheInv, MasterState
<1>3. ~StartBurst(bus) /\ ~Retire
  BY <1>2 DEF StartBurst, Retire
<1> QED
  BY <1>1, <1>2, <1>3 DEF MasterClock, Burst, Finish

-----------------------------------------------------------------------------
(* A clock in which the bus master of the cache is not at work: the cache  *)
(* serves a hit, or takes a request, or starts a burst.                    *)

\* What becomes of the request.
LEMMA IdleSlave ==
  ASSUME CacheInv, ~wbm_enable, NEW bus \in OnBus, NEW ack \in BOOLEAN, Clock(bus, ack)
  PROVE  /\ ~ack /\ memory' = memory
         /\ slave_db_mux_reg' \in Slices /\ slave_db_rd' \in Wide
         /\ buffer_index' = bus_input(bus).adr.line
         /\ slave_db_rd' = cache_ram[bus_input(bus).adr.line][bus_input(bus).adr.word]
         /\ hit(bus) => /\ done' = {bus_input(bus)} /\ en_r' = FALSE /\ slave_r' = slave_r
                        /\ slave_db_mux_reg' = bus_input(bus).adr.slice
         /\ ~hit(bus) => /\ done' = {} /\ en_r' = slave_en(bus)
                         /\ slave_r' = IF slave_en(bus) THEN bus_input(bus) ELSE slave_r
<1>1. SlaveClock(bus) /\ TagClock(bus, ack) /\ RamClock(bus, ack) /\ MemoryClock(bus, ack)
  BY DEF Clock
<1>2. TypeOK
  BY DEF CacheInv
<1>3. ~ack /\ memory' = memory
  BY <1>1 DEF MemoryClock
<1>4. buffer_index' = bus_input(bus).adr.line
  BY <1>1 DEF TagClock
<1>5. slave_db_rd' = cache_ram[bus_input(bus).adr.line][bus_input(bus).adr.word]
  BY <1>1 DEF RamClock
<1>6. slave_db_rd' \in Wide
  BY <1>2, <1>5, InputType, RequestType DEF TypeOK
<1>7. slave_db_mux_reg' \in Slices
  BY <1>1, <1>2, InputType, RequestType DEF SlaveClock, TypeOK
<1>8. CASE hit(bus)
  BY <1>1, <1>3, <1>4, <1>5, <1>6, <1>7, <1>8 DEF SlaveClock
<1>9. CASE ~hit(bus)
  <2>1. en_r \in BOOLEAN /\ bus.en \in BOOLEAN
    BY <1>2, InputType DEF TypeOK
  <2>2. done' = {}
    BY <1>1, <1>9 DEF SlaveClock
  <2>3. slave_r' = IF slave_en(bus) THEN bus_input(bus) ELSE slave_r
    BY <1>1, <1>9, <2>1 DEF SlaveClock, slave_en, bus_input
  <2>4. en_r' = slave_en(bus)
    BY <1>1, <1>9, <2>1 DEF SlaveClock, slave_en
  <2> QED
    BY <1>3, <1>4, <1>5, <1>6, <1>7, <1>9, <2>2, <2>3, <2>4
<1> QED
  BY <1>8, <1>9

\* What becomes of the tags and the data: a store that hits changes one word and
\* makes its line dirty.
LEMMA IdleData ==
  ASSUME CacheInv, ~wbm_enable, NEW bus \in OnBus, NEW ack \in BOOLEAN, Clock(bus, ack)
  PROVE  LET in == bus_input(bus)
             t == [valid |-> TRUE, dirty |-> TRUE, address |-> in.adr.tag]
         IN  /\ hit(bus) /\ in.we =>
                    /\ tag_ram' = [tag_ram EXCEPT ![in.adr.line] = t] /\ tag_buffer' = t
                    /\ cache_ram' = [cache_ram EXCEPT
                                        ![in.adr.line][in.adr.word][in.adr.slice] = in.data]
             /\ ~(hit(bus) /\ in.we) =>
                    /\ tag_ram' = tag_ram /\ tag_buffer' = tag_ram[in.adr.line]
                    /\ cache_ram' = cache_ram
             /\ master_db_rd' = IF dirty_miss(bus) /\ wbm_state = "wb_idle"
                                THEN cache_ram[buffer_index][cache_offset_counter]
                                ELSE master_db_rd
<1>1. TagClock(bus, ack) /\ RamClock(bus, ack) /\ TypeOK
  BY DEF Clock, CacheInv
<1>2. ~ack
  BY IdleSlave
<1>3. tag_we(bus, ack) <=> hit(bus) /\ bus_input(bus).we
  BY <1>2 DEF tag_we, slave_cache_we
<1>4. master_db_rd' = IF dirty_miss(bus) /\ wbm_state = "wb_idle"
                      THEN cache_ram[buffer_index][cache_offset_counter]
                      ELSE master_db_rd
  BY <1>1, <1>2 DEF RamClock, ram_adr
<1>5. CASE hit(bus) /\ bus_input(bus).we
  <2>1. slave_cache_we(bus) = TRUE /\ dirty_miss(bus) = FALSE
    <3>1. slave_cache_we(bus) /\ ~dirty_miss(bus)
      BY <1>1, <1>5, InputType DEF slave_cache_we, dirty_miss
    <3>2. slave_cache_we(bus) \in BOOLEAN /\ dirty_miss(bus) \in BOOLEAN
      BY Zenon DEF slave_cache_we, dirty_miss, hit, miss
    <3> QED BY <3>1, <3>2
  <2>2. cache_ram' = [cache_ram EXCEPT ![bus_input(bus).adr.line][bus_input(bus).adr.word]
                                        [bus_input(bus).adr.slice] = bus_input(bus).data]
    BY <1>1, <1>2, <2>1 DEF RamClock
  <2>3. LET t == [valid |-> TRUE, dirty |-> TRUE, address |-> bus_input(bus).adr.tag]
        IN  /\ tag_ram' = [tag_ram EXCEPT ![bus_input(bus).adr.line] = t] /\ tag_buffer' = t
    BY <1>1, <1>3, <1>5, <2>1 DEF TagClock
  <2> QED
    BY <1>4, <1>5, <2>2, <2>3
<1>6. CASE ~(hit(bus) /\ bus_input(bus).we)
  <2>1. tag_ram' = tag_ram /\ tag_buffer' = tag_ram[bus_input(bus).adr.line]
    BY <1>1, <1>3, <1>6 DEF TagClock
  <2>2. cache_ram' = cache_ram
    BY <1>1, <1>2, <1>6 DEF RamClock, slave_cache_we
  <2> QED
    BY <1>4, <1>6, <2>1, <2>2
<1> QED
  BY <1>5, <1>6

\* What becomes of the state machine: a miss starts it.
LEMMA IdleMaster ==
  ASSUME CacheInv, ~wbm_enable, NEW bus \in OnBus, NEW ack \in BOOLEAN, Clock(bus, ack)
  PROVE  IF wbm_state = "wb_idle" /\ miss(bus) THEN StartBurst(bus)
         ELSE /\ wbm_state' = "wb_idle"
              /\ UNCHANGED <<wbm_enable, wbm_we, cache_offset_counter, master_offset_counter>>
<1>1. MasterClock(bus, ack)
  BY DEF Clock
<1>2. wbm_state \in {"wb_idle", "wb_retire"}
  BY DEF CacheInv, MasterState, TypeOK
<1>3. ~Burst(ack) /\ ~Finish(ack)
  BY <1>2 DEF Burst, Finish
<1> QED
  BY <1>1, <1>2, <1>3 DEF MasterClock, StartBurst, Retire, wbmVars

-----------------------------------------------------------------------------
(* The invariant is kept.                                                  *)

\* Where a burst is.
LEMMA BurstPlace ==
  ASSUME CacheInv, wbm_enable
  PROVE  /\ buffer_index \in Lines /\ tag_buffer.address \in Tags /\ slave_r.adr.tag \in Tags
         /\ master_offset_counter \in Offset /\ en_r
         /\ slave_r.adr.line = buffer_index /\ tag_buffer = tag_ram[buffer_index]
         /\ wbm_we \in BOOLEAN /\ wbm_we = tag_buffer.dirty
         /\ wbm_we => tag_buffer.valid /\ tag_buffer.address # slave_r.adr.tag
BY RequestType DEF CacheInv, TypeOK, Tag, TagsCurrent, BurstForHeld

\* A word that arrives or leaves.
LEMMA BusyTypes ==
  ASSUME CacheInv, wbm_enable, NEW bus \in OnBus, NEW ack \in BOOLEAN, Clock(bus, ack)
  PROVE  TypeOK'
<1>1. TypeOK /\ MasterState
  BY DEF CacheInv
<1>2. /\ Cell(tag_buffer.address, buffer_index, master_offset_counter) \in MemAdr
      /\ Cell(slave_r.adr.tag, buffer_index, master_offset_counter) \in MemAdr
  BY BurstPlace, CellType
<1>3. memory' \in [MemAdr -> Wide]
  <2>1. memory \in [MemAdr -> Wide] /\ master_db_rd \in Wide
    BY <1>1 DEF TypeOK
  <2> QED
    BY <1>2, <2>1, BusyData
<1>4. cache_ram' \in [Lines -> [Offset -> Wide]]
  <2>1. /\ cache_ram \in [Lines -> [Offset -> Wide]]
        /\ memory[Cell(slave_r.adr.tag, buffer_index, master_offset_counter)] \in Wide
    BY <1>1, <1>2 DEF TypeOK
  <2> QED
    BY <2>1, BurstPlace, BusyData
<1>5. master_db_rd' \in Wide
  BY <1>1, BurstPlace, BusyData DEF TypeOK
<1>6. tag_ram' \in [Lines -> Tag] /\ tag_buffer' \in Tag
  <2> DEFINE t == [valid |-> ~wbm_we, dirty |-> FALSE, address |-> slave_r.adr.tag]
  <2>1. t \in Tag
    BY BurstPlace DEF Tag
  <2>2. \/ tag_ram' = tag_ram /\ tag_buffer' = tag_buffer
        \/ tag_ram' = [tag_ram EXCEPT ![buffer_index] = t] /\ tag_buffer' = t
    BY BusySlave
  <2> HIDE DEF t
  <2> QED
    BY <1>1, <2>1, <2>2 DEF TypeOK
<1>7. /\ wbm_state' \in {"wb_idle", "wb_burst_read", "wb_burst_write", "wb_finish", "wb_retire"}
      /\ wbm_enable' \in BOOLEAN /\ wbm_we' \in BOOLEAN
      /\ cache_offset_counter' \in Offset /\ master_offset_counter' \in Offset
  <2>1. CASE ~ack
    BY <1>1, <2>1, BusyMaster DEF TypeOK, wbmVars
  <2>2. CASE ack /\ wbm_state = "wb_finish"
    BY <1>1, <2>2, BusyMaster, Counters DEF TypeOK, Finish
  <2>3. CASE ack /\ wbm_state # "wb_finish"
    <3>1. master_offset_counter # LineSize - 1
      BY <1>1, <2>3 DEF MasterState
    <3>2. Burst(TRUE) /\ master_offset_counter \in Offset
      BY <1>1, <2>3, BusyMaster DEF TypeOK
    <3>3. master_offset_counter' = master_offset_counter + 1 /\ master_offset_counter' \in Offset
      BY <3>1, <3>2, Counters DEF Burst
    <3>4. cache_offset_counter' \in Offset
      BY <3>2, <3>3, Counters DEF Burst
    <3> QED
      BY <1>1, <3>2, <3>3, <3>4 DEF TypeOK, Burst
  <2> QED
    BY <2>1, <2>2, <2>3
<1> QED
  BY <1>1, <1>3, <1>4, <1>5, <1>6, <1>7, BusySlave DEF TypeOK

\* A clock of a burst that does not end it.
LEMMA BurstInv ==
  ASSUME CacheInv, wbm_enable, NEW bus \in OnBus, NEW ack \in BOOLEAN, Clock(bus, ack),
         ~(ack /\ wbm_state = "wb_finish")
  PROVE  CacheInv'
<1>1. /\ TypeOK /\ TagsCurrent /\ MasterState /\ BurstForHeld
      /\ WriteBackProgress /\ RefillProgress /\ CleanLines
  BY DEF CacheInv
<1>2. /\ en_r' = TRUE /\ slave_r' = slave_r /\ buffer_index' = buffer_index
      /\ tag_ram' = tag_ram /\ tag_buffer' = tag_buffer
  BY BusySlave
<1>3. TypeOK' /\ TypeOK
  BY <1>1, BusyTypes
<1>4. TagsCurrent'
  BY <1>1, <1>2 DEF TagsCurrent
<1>5. CASE ~ack
  <2>1. UNCHANGED <<memory, cache_ram, master_db_rd, wbm_state, wbm_enable, wbm_we,
                    cache_offset_counter, master_offset_counter>>
    BY <1>5, BusyData, BusyMaster DEF wbmVars
  <2>2. MasterState' /\ BurstForHeld' /\ WriteBackProgress' /\ RefillProgress'
    BY <1>1, <1>2, <2>1 DEF MasterState, BurstForHeld, WriteBackProgress, RefillProgress
  <2>3. CleanLines'
    BY <1>1, <1>2, <2>1 DEF CleanLines, LineIsCurrent, Refilled
  <2> QED
    BY <1>3, <1>4, <2>2, <2>3 DEF CacheInv
<1>6. CASE ack
  <2> DEFINE n == master_offset_counter
  <2>1. /\ wbm_state \in {"wb_burst_read", "wb_burst_write"}
        /\ n \in Offset /\ n # LineSize - 1 /\ n + 1 \in Offset
    BY <1>1, <1>6, Counters DEF MasterState, TypeOK
  <2>2. /\ wbm_state' = IF n + 1 = LineSize - 1 THEN "wb_finish" ELSE wbm_state
        /\ master_offset_counter' = n + 1 /\ cache_offset_counter' = (n + 1 + 1) % LineSize
        /\ wbm_enable' = wbm_enable /\ wbm_we' = wbm_we
    BY <1>6, BusyMaster DEF Burst
  <2>3. MasterState' /\ BurstForHeld'
    BY <1>1, <1>2, <2>1, <2>2 DEF MasterState, BurstForHeld
  <2>4. WriteBackProgress'
    <3> SUFFICES ASSUME wbm_we
                 PROVE  WriteBackProgress'
      BY <2>2 DEF WriteBackProgress
    <3>1. /\ cache_ram' = cache_ram
          /\ memory' = [memory EXCEPT ![Cell(tag_buffer.address, buffer_index, n)] =
                            cache_ram[buffer_index][n]]
          /\ master_db_rd' = cache_ram[buffer_index][n + 1]
      BY <1>1, <1>6, <2>1, BusyData, Counters DEF WriteBackProgress
    <3>2. ASSUME NEW o \in Offset, o < n + 1
          PROVE  memory'[Cell(tag_buffer.address, buffer_index, o)] = cache_ram[buffer_index][o]
      <4>1. /\ Cell(tag_buffer.address, buffer_index, o) \in MemAdr
            /\ Cell(tag_buffer.address, buffer_index, n) \in MemAdr
        BY <2>1, BurstPlace, CellType
      <4>2. CASE o = n
        BY <1>3, <3>1, <4>1, <4>2 DEF TypeOK
      <4>3. CASE o # n
        <5>1. o < n
          BY <2>1, <3>2, <4>3, Counters DEF Offset
        <5>2. Cell(tag_buffer.address, buffer_index, o) # Cell(tag_buffer.address, buffer_index, n)
          BY <4>3, CellsDiffer
        <5> QED
          BY <1>1, <1>3, <3>1, <4>1, <5>1, <5>2 DEF TypeOK, WriteBackProgress
      <4> QED
        BY <4>2, <4>3
    <3> QED
      BY <1>2, <2>2, <3>1, <3>2 DEF WriteBackProgress
  <2>5. RefillProgress'
    <3> SUFFICES ASSUME ~wbm_we
                 PROVE  RefillProgress'
      BY <2>2 DEF RefillProgress
    <3>1. /\ memory' = memory
          /\ cache_ram' = [cache_ram EXCEPT ![buffer_index][n] =
                               memory[Cell(slave_r.adr.tag, buffer_index, n)]]
      BY <1>6, BusyData
    <3>2. ASSUME NEW o \in Offset, o < n + 1
          PROVE  cache_ram'[buffer_index][o] = memory[Cell(slave_r.adr.tag, buffer_index, o)]
      <4>1. o # n => o < n
        BY <2>1, <3>2, Counters DEF Offset
      <4> QED
        BY <1>1, <1>3, <2>1, <3>1, <4>1, BurstPlace DEF TypeOK, RefillProgress
    <3> QED
      BY <1>2, <2>2, <3>1, <3>2 DEF RefillProgress
  <2>6. CleanLines'
    <3> SUFFICES ASSUME NEW l \in Lines, tag_ram[l].valid, ~tag_ram[l].dirty, ~Refilled(l)
                 PROVE  LineIsCurrent(l)'
      BY <1>2, <2>2 DEF CleanLines, Refilled
    <3>1. LineIsCurrent(l)
      BY <1>1 DEF CleanLines
    <3>2. l # buffer_index
      BY BurstPlace DEF Refilled
    <3>3. cache_ram'[l] = cache_ram[l]
      BY <1>3, <3>2, BurstPlace, BusyData DEF TypeOK
    <3>4. ASSUME NEW o \in Offset
          PROVE  memory'[Cell(tag_ram[l].address, l, o)] = memory[Cell(tag_ram[l].address, l, o)]
      <4>1. Cell(tag_ram[l].address, l, o) # Cell(tag_buffer.address, buffer_index, n)
        BY <3>2, CellsDiffer
      <4>2. Cell(tag_ram[l].address, l, o) \in MemAdr
        BY <1>3, CellType DEF TypeOK, Tag
      <4> QED
        BY <1>3, <4>1, <4>2, BusyData DEF TypeOK
    <3> QED
      BY <1>2, <3>1, <3>3, <3>4 DEF LineIsCurrent
  <2> QED
    BY <1>3, <1>4, <2>3, <2>4, <2>5, <2>6 DEF CacheInv
<1> QED
  BY <1>5, <1>6

\* The clock that ends a burst: a line that was written back is invalid and in
\* memory, one that was refilled is what memory holds.
LEMMA EndOfBurst ==
  ASSUME CacheInv, wbm_enable, NEW bus \in OnBus, Clock(bus, TRUE), wbm_state = "wb_finish"
  PROVE  /\ wbm_we => \A o \in Offset :
                memory'[Cell(tag_buffer.address, buffer_index, o)] = cache_ram[buffer_index][o]
         /\ ~wbm_we => \A o \in Offset :
                cache_ram'[buffer_index][o] = memory[Cell(slave_r.adr.tag, buffer_index, o)]
<1> DEFINE n == master_offset_counter
<1>1. /\ TypeOK /\ WriteBackProgress /\ RefillProgress
      /\ n = LineSize - 1 /\ n \in Offset
  BY DEF CacheInv, TypeOK, MasterState
<1>2. ASSUME NEW o \in Offset
      PROVE  o < n \/ o = n
  BY <1>1, Counters DEF Offset
<1>3. ASSUME wbm_we, NEW o \in Offset
      PROVE  memory'[Cell(tag_buffer.address, buffer_index, o)] = cache_ram[buffer_index][o]
  <2>1. /\ Cell(tag_buffer.address, buffer_index, o) \in MemAdr
        /\ Cell(tag_buffer.address, buffer_index, n) \in MemAdr
    BY <1>1, BurstPlace, CellType
  <2>2. memory' = [memory EXCEPT ![Cell(tag_buffer.address, buffer_index, n)] =
                       cache_ram[buffer_index][n]]
    BY <1>1, <1>3, BusyData DEF WriteBackProgress
  <2>3. CASE o = n
    BY <1>1, <2>1, <2>2, <2>3 DEF TypeOK
  <2>4. CASE o # n
    <3>1. Cell(tag_buffer.address, buffer_index, o) # Cell(tag_buffer.address, buffer_index, n)
      BY <2>4, CellsDiffer
    <3> QED
      BY <1>1, <1>2, <1>3, <2>1, <2>2, <2>4, <3>1 DEF TypeOK, WriteBackProgress
  <2> QED
    BY <2>3, <2>4
<1>4. ASSUME ~wbm_we, NEW o \in Offset
      PROVE  cache_ram'[buffer_index][o] = memory[Cell(slave_r.adr.tag, buffer_index, o)]
  <2>1. cache_ram' = [cache_ram EXCEPT ![buffer_index][n] =
                          memory[Cell(slave_r.adr.tag, buffer_index, n)]]
    BY <1>4, BusyData
  <2> QED
    BY <1>1, <1>2, <1>4, <2>1, BurstPlace DEF TypeOK, RefillProgress
<1> QED
  BY <1>3, <1>4

\* The clock that ends a burst keeps the invariant.
LEMMA EndInv ==
  ASSUME CacheInv, wbm_enable, NEW bus \in OnBus, Clock(bus, TRUE), wbm_state = "wb_finish"
  PROVE  CacheInv'
<1>1. /\ TypeOK /\ TagsCurrent /\ CleanLines
  BY DEF CacheInv
<1>2. TypeOK'
  BY BusyTypes
<1>3. /\ wbm_state' = "wb_retire" /\ wbm_enable' = FALSE /\ wbm_we' = FALSE
      /\ master_offset_counter' = 0 /\ cache_offset_counter' = 0
  BY BusyMaster DEF Finish
<1> DEFINE t == [valid |-> ~wbm_we, dirty |-> FALSE, address |-> slave_r.adr.tag]
<1>4. /\ tag_ram' = [tag_ram EXCEPT ![buffer_index] = t] /\ tag_buffer' = t
      /\ buffer_index' = buffer_index
  BY BusySlave
<1>5. t.valid <=> ~wbm_we
  OBVIOUS
<1>6. t.dirty = FALSE /\ t.address = slave_r.adr.tag
  OBVIOUS
<1> HIDE DEF t
<1>7. /\ tag_ram'[buffer_index] = t
      /\ \A l \in Lines : l # buffer_index => tag_ram'[l] = tag_ram[l]
  BY <1>1, <1>4, BurstPlace DEF TypeOK
<1>8. TagsCurrent'
  BY <1>1, <1>4, <1>6, <1>7 DEF TagsCurrent
<1>9. MasterState'
  BY <1>3, CacheAssumption DEF MasterState
<1>10. BurstForHeld' /\ WriteBackProgress' /\ RefillProgress'
  BY <1>3 DEF BurstForHeld, WriteBackProgress, RefillProgress
<1>11. CleanLines'
  <2> SUFFICES ASSUME NEW l \in Lines, tag_ram'[l].valid, ~tag_ram'[l].dirty
               PROVE  LineIsCurrent(l)'
    BY DEF CleanLines
  <2>1. CASE l = buffer_index
    <3>1. ~wbm_we
      BY <1>5, <1>7, <2>1
    <3>2. memory' = memory
      BY <3>1, BusyData
    <3> QED
      BY <1>6, <1>7, <2>1, <3>1, <3>2, EndOfBurst DEF LineIsCurrent
  <2>2. CASE l # buffer_index
    <3>1. tag_ram'[l] = tag_ram[l]
      BY <1>7, <2>2
    <3>2. LineIsCurrent(l)
      BY <1>1, <2>2, <3>1, BurstPlace DEF CleanLines, Refilled
    <3>3. cache_ram'[l] = cache_ram[l]
      BY <1>1, <2>2, BurstPlace, BusyData DEF TypeOK
    <3>4. ASSUME NEW o \in Offset
          PROVE  memory'[Cell(tag_ram[l].address, l, o)] = memory[Cell(tag_ram[l].address, l, o)]
      <4>1. Cell(tag_ram[l].address, l, o)
              # Cell(tag_buffer.address, buffer_index, master_offset_counter)
        BY <2>2, CellsDiffer
      <4>2. Cell(tag_ram[l].address, l, o) \in MemAdr
        BY <1>1, CellType DEF TypeOK, Tag
      <4> QED
        BY <1>1, <4>1, <4>2, BusyData DEF TypeOK
    <3> QED
      BY <3>1, <3>2, <3>3, <3>4 DEF LineIsCurrent
  <2> QED
    BY <2>1, <2>2
<1> QED
  BY <1>2, <1>8, <1>9, <1>10, <1>11 DEF CacheInv

\* A clock without a burst keeps the types.
LEMMA IdleTypes ==
  ASSUME CacheInv, ~wbm_enable, NEW bus \in OnBus, NEW ack \in BOOLEAN, Clock(bus, ack)
  PROVE  TypeOK'
<1> DEFINE in == bus_input(bus)
           t == [valid |-> TRUE, dirty |-> TRUE, address |-> in.adr.tag]
<1>1. TypeOK /\ MasterState
  BY DEF CacheInv
<1>2. /\ in \in Requests /\ in.adr.tag \in Tags /\ in.adr.line \in Lines
      /\ in.adr.word \in Offset /\ in.adr.slice \in Slices /\ in.data \in Words
      /\ slave_en(bus) \in BOOLEAN
  BY <1>1, InputType, RequestType
<1>3. t \in Tag
  BY <1>2 DEF Tag
<1> HIDE DEF in, t
<1>4. tag_ram' \in [Lines -> Tag] /\ tag_buffer' \in Tag
  <2>1. \/ tag_ram' = [tag_ram EXCEPT ![in.adr.line] = t] /\ tag_buffer' = t
        \/ tag_ram' = tag_ram /\ tag_buffer' = tag_ram[in.adr.line]
    BY IdleData DEF in, t
  <2> QED
    BY <1>1, <1>2, <1>3, <2>1 DEF TypeOK
<1>5. cache_ram' \in [Lines -> [Offset -> Wide]]
  <2>1. CASE hit(bus) /\ in.we
    <3>1. cache_ram' = [cache_ram EXCEPT ![in.adr.line][in.adr.word][in.adr.slice] = in.data]
      BY <2>1, IdleData DEF in
    <3>2. cache_ram \in [Lines -> [Offset -> [Slices -> Words]]]
      BY <1>1 DEF TypeOK, Wide
    <3> QED
      BY <1>2, <3>1, <3>2 DEF Wide
  <2>2. CASE ~(hit(bus) /\ in.we)
    BY <1>1, <2>2, IdleData DEF TypeOK, in
  <2> QED
    BY <2>1, <2>2
<1>6. master_db_rd' \in Wide
  <2>1. \/ master_db_rd' = cache_ram[buffer_index][cache_offset_counter]
        \/ master_db_rd' = master_db_rd
    BY IdleData
  <2> QED
    BY <1>1, <2>1 DEF TypeOK
<1>7. /\ buffer_index' \in Lines /\ memory' \in [MemAdr -> Wide]
      /\ slave_db_mux_reg' \in Slices /\ slave_db_rd' \in Wide
  BY <1>1, <1>2, IdleSlave DEF TypeOK, in
<1>8. en_r' \in BOOLEAN /\ slave_r' \in Requests
  BY <1>1, <1>2, IdleSlave DEF TypeOK, in
<1>9. /\ wbm_state' \in {"wb_idle", "wb_burst_read", "wb_burst_write", "wb_finish", "wb_retire"}
      /\ wbm_enable' \in BOOLEAN /\ wbm_we' \in BOOLEAN
      /\ cache_offset_counter' \in Offset /\ master_offset_counter' \in Offset
  <2>1. CASE wbm_state = "wb_idle" /\ miss(bus)
    <3>1. StartBurst(bus) /\ master_offset_counter = 0 /\ cache_offset_counter = 0
      BY <1>1, <2>1, IdleMaster DEF MasterState
    <3>2. dirty_miss(bus) \in BOOLEAN
      BY Zenon DEF dirty_miss, miss
    <3> QED
      BY <3>1, <3>2, Counters DEF StartBurst
  <2>2. CASE ~(wbm_state = "wb_idle" /\ miss(bus))
    BY <1>1, <2>2, IdleMaster DEF TypeOK
  <2> QED
    BY <2>1, <2>2
<1> QED
  BY <1>4, <1>5, <1>6, <1>7, <1>8, <1>9 DEF TypeOK

\* A clock without a burst keeps the invariant; a burst starts with everything
\* still to do.
LEMMA IdleInv ==
  ASSUME CacheInv, ~wbm_enable, NEW bus \in OnBus, NEW ack \in BOOLEAN, Clock(bus, ack)
  PROVE  CacheInv'
<1> DEFINE in == bus_input(bus)
           t == [valid |-> TRUE, dirty |-> TRUE, address |-> in.adr.tag]
<1>1. /\ TypeOK /\ TagsCurrent /\ MasterState /\ CleanLines
  BY DEF CacheInv
<1>2. in.adr.line \in Lines /\ in.adr.tag \in Tags
  BY <1>1, InputType, RequestType
<1>3. t.dirty = TRUE /\ t.valid = TRUE
  OBVIOUS
<1> HIDE DEF in, t
<1>4. buffer_index' = in.adr.line /\ memory' = memory
  BY IdleSlave DEF in
<1>5. \/ hit(bus) /\ tag_ram' = [tag_ram EXCEPT ![in.adr.line] = t] /\ tag_buffer' = t
      \/ /\ tag_ram' = tag_ram /\ tag_buffer' = tag_ram[in.adr.line]
         /\ cache_ram' = cache_ram
  BY IdleData DEF in, t
<1>6. TypeOK'
  BY IdleTypes
<1>7. TagsCurrent'
  BY <1>1, <1>2, <1>3, <1>4, <1>5 DEF TypeOK, TagsCurrent
<1>8. CleanLines'
  <2> SUFFICES ASSUME NEW l \in Lines, tag_ram'[l].valid, ~tag_ram'[l].dirty
               PROVE  LineIsCurrent(l)'
    BY DEF CleanLines
  <2>1. tag_ram'[l] = tag_ram[l]
    BY <1>1, <1>2, <1>3, <1>5 DEF TypeOK
  <2>2. cache_ram'[l] = cache_ram[l]
    <3>1. CASE hit(bus) /\ in.we
      <4>1. l # in.adr.line
        BY <1>1, <1>2, <1>3, <3>1, IdleData DEF TypeOK, in, t
      <4>2. cache_ram' = [cache_ram EXCEPT ![in.adr.line][in.adr.word][in.adr.slice] = in.data]
        BY <3>1, IdleData DEF in
      <4> QED
        BY <1>1, <4>1, <4>2 DEF TypeOK
    <3>2. CASE ~(hit(bus) /\ in.we)
      BY <3>2, IdleData DEF in
    <3> QED
      BY <3>1, <3>2
  <2>3. LineIsCurrent(l)
    BY <1>1, <2>1 DEF CleanLines, Refilled
  <2> QED
    BY <1>4, <2>1, <2>2, <2>3 DEF LineIsCurrent
<1>9. MasterState' /\ BurstForHeld' /\ WriteBackProgress' /\ RefillProgress'
  <2>1. CASE wbm_state = "wb_idle" /\ miss(bus)
    <3>1. StartBurst(bus) /\ master_offset_counter = 0 /\ cache_offset_counter = 0
      BY <1>1, <2>1, IdleMaster DEF MasterState
    <3>2. /\ slave_en(bus) /\ ~hit(bus) /\ buffer_index = in.adr.line
          /\ ~(tag_buffer.valid /\ tag_buffer.address = in.adr.tag)
      BY <1>1, <2>1, InputType DEF miss, index_match, tag_match, in
    <3>3. /\ en_r' = slave_en(bus) /\ slave_r' = in
          /\ tag_buffer' = tag_buffer /\ cache_ram' = cache_ram
      BY <1>1, <1>5, <3>2, IdleSlave DEF TagsCurrent, in
    <3>4. dirty_miss(bus) = tag_buffer.dirty
      <4>1. dirty_miss(bus) <=> tag_buffer.dirty
        BY <2>1 DEF dirty_miss
      <4>2. dirty_miss(bus) \in BOOLEAN /\ tag_buffer.dirty \in BOOLEAN
        <5>1. dirty_miss(bus) \in BOOLEAN
          BY Zenon DEF dirty_miss, miss
        <5> QED
          BY <1>1, <5>1 DEF TypeOK, Tag
      <4> QED
        BY <4>1, <4>2
    <3>5. /\ wbm_enable' = TRUE /\ wbm_we' = tag_buffer.dirty /\ master_offset_counter' = 0
          /\ wbm_state' = IF tag_buffer.dirty THEN "wb_burst_write" ELSE "wb_burst_read"
          /\ tag_buffer.dirty => cache_offset_counter' = 1
      BY <3>1, <3>4 DEF StartBurst
    <3>6. tag_buffer.dirty => master_db_rd' = cache_ram[buffer_index][0]
      BY <2>1, <3>1, <3>4, IdleData
    <3>7. LineSize - 1 # 0 /\ (0 + 1) % LineSize = 1 /\ \A o \in Offset : ~(o < 0)
      BY CacheAssumption, Counters DEF Offset
    <3>8. MasterState'
      BY <3>5, <3>7 DEF MasterState
    <3>9. BurstForHeld'
      BY <1>4, <3>2, <3>3, <3>5 DEF BurstForHeld
    <3>10. WriteBackProgress' /\ RefillProgress'
      BY <1>4, <3>2, <3>3, <3>5, <3>6, <3>7 DEF WriteBackProgress, RefillProgress
    <3> QED
      BY <3>8, <3>9, <3>10
  <2>2. CASE ~(wbm_state = "wb_idle" /\ miss(bus))
    <3>1. /\ wbm_state' = "wb_idle" /\ ~wbm_enable'
          /\ UNCHANGED <<wbm_we, cache_offset_counter, master_offset_counter>>
      BY <2>2, IdleMaster
    <3> QED
      BY <1>1, <3>1 DEF MasterState, BurstForHeld, WriteBackProgress, RefillProgress
  <2> QED
    BY <2>1, <2>2
<1> QED
  BY <1>6, <1>7, <1>8, <1>9 DEF CacheInv

\* Power up.
LEMMA InitCache == Init => CacheInv
<1> SUFFICES ASSUME Init PROVE CacheInv
  OBVIOUS
<1> DEFINE empty == [valid |-> FALSE, dirty |-> FALSE, address |-> 0]
           zero == [s \in Slices |-> CHOOSE w \in Words : TRUE]
<1>1. empty \in Tag /\ empty.valid = FALSE /\ empty.dirty = FALSE
  BY CacheAssumption DEF Tag
<1>2. [tag |-> 0, line |-> 0, word |-> 0, slice |-> 0] \in Adr
  BY CacheAssumption, Counters DEF Adr
<1>3. zero \in Wide
  <2>1. Content[[tag |-> 0, line |-> 0, word |-> 0, slice |-> 0]] \in Words
    BY <1>2, CacheAssumption
  <2>2. (CHOOSE w \in Words : TRUE) \in Words
    BY <2>1, Zenon
  <2> QED
    BY <2>2 DEF Wide
<1>4. (CHOOSE r \in Requests : TRUE) \in Requests
  <2>1. \E r \in Requests : TRUE
    BY CacheAssumption
  <2> QED
    BY <2>1, Zenon
<1>5. memory \in [MemAdr -> Wide]
  <2>1. ASSUME NEW a \in MemAdr
        PROVE  [s \in Slices |-> Content[[tag |-> a.tag, line |-> a.line,
                                          word |-> a.word, slice |-> s]]] \in Wide
    <3>1. ASSUME NEW s \in Slices
          PROVE  Content[[tag |-> a.tag, line |-> a.line, word |-> a.word, slice |-> s]] \in Words
      <4>1. [tag |-> a.tag, line |-> a.line, word |-> a.word, slice |-> s] \in Adr
        BY DEF MemAdr, Adr
      <4> QED
        BY <4>1, CacheAssumption
    <3> QED
      BY <3>1 DEF Wide
  <2> QED
    BY <2>1 DEF Init, MemAdr
<1> HIDE DEF empty, zero
<1>6. /\ en_r = FALSE /\ slave_r \in Requests /\ slave_db_rd \in Wide /\ slave_db_mux_reg = 0
      /\ buffer_index = 0 /\ tag_buffer = empty /\ tag_ram = [l \in Lines |-> empty]
      /\ cache_ram = [l \in Lines |-> [o \in Offset |-> zero]]
      /\ wbm_state = "wb_idle" /\ wbm_enable = FALSE /\ wbm_we = FALSE
      /\ cache_offset_counter = 0 /\ master_offset_counter = 0 /\ master_db_rd \in Wide
  BY <1>3, <1>4 DEF Init, empty, zero
<1>7. TypeOK
  BY <1>1, <1>3, <1>5, <1>6, CacheAssumption, Counters DEF TypeOK
<1>8. TagsCurrent /\ CleanLines
  BY <1>1, <1>6, CacheAssumption DEF TagsCurrent, CleanLines
<1> QED
  BY <1>6, <1>7, <1>8
  DEF CacheInv, MasterState, BurstForHeld, WriteBackProgress, RefillProgress

\* The invariant, in every state of every execution.
THEOREM Invariant == Spec => []CacheInv
<1>1. CacheInv /\ [Next]_vars => CacheInv'
  <2> SUFFICES ASSUME CacheInv, [Next]_vars
               PROVE  CacheInv'
    OBVIOUS
  <2>1. ASSUME NEW bus \in OnBus, NEW ack \in BOOLEAN, Clock(bus, ack)
        PROVE  CacheInv'
    BY <2>1, IdleInv, BurstInv, EndInv
  <2>2. CASE UNCHANGED vars
    <3>1. /\ UNCHANGED <<en_r, slave_r, slave_db_mux_reg, buffer_index, tag_buffer, tag_ram>>
          /\ UNCHANGED <<cache_ram, slave_db_rd, master_db_rd, memory, wbm_state, wbm_enable>>
          /\ UNCHANGED <<wbm_we, cache_offset_counter, master_offset_counter>>
      BY <2>2 DEF vars, busVars, tagVars, ramVars, wbmVars
    <3>2. TypeOK' /\ TagsCurrent' /\ MasterState' /\ BurstForHeld'
      BY <3>1 DEF CacheInv, TypeOK, TagsCurrent, MasterState, BurstForHeld
    <3>3. WriteBackProgress' /\ RefillProgress'
      BY <3>1 DEF CacheInv, WriteBackProgress, RefillProgress
    <3>4. CleanLines'
      BY <3>1 DEF CacheInv, CleanLines, LineIsCurrent, Refilled
    <3> QED
      BY <3>2, <3>3, <3>4 DEF CacheInv
  <2> QED
    BY <2>1, <2>2 DEF Next
<1> QED
  BY <1>1, InitCache, PTL DEF Spec

\* A dirty line does not leave the cache before all of it is in memory, whatever
\* wait states the memory inserts: the write back and the refill of
\* rtl/cache/cache.py with the tags of rtl/cache/tag_ram.py.
THEOREM SpecCleanIsCurrent == Spec => []CleanIsCurrent
<1>1. CacheInv => CleanIsCurrent
  <2> SUFFICES ASSUME CacheInv, NEW a \in Adr,
                      tag_ram[a.line].valid, ~tag_ram[a.line].dirty,
                      tag_ram[a.line].address = a.tag, ~Refilled(a.line)
               PROVE  cache_ram[a.line][a.word][a.slice] =
                          memory[Cell(a.tag, a.line, a.word)][a.slice]
    BY DEF CleanIsCurrent, Cell
  <2>1. a.line \in Lines /\ a.word \in Offset
    BY DEF Adr
  <2> QED
    BY <2>1 DEF CacheInv, CleanLines, LineIsCurrent
<1> QED
  BY <1>1, Invariant, PTL

-----------------------------------------------------------------------------
(* The cache implements a memory.                                          *)

\* The cell an address is in, and what cache and memory hold together.
LEMMA HeldIs ==
  ASSUME TypeOK, NEW a \in Adr
  PROVE  /\ a.tag \in Tags /\ a.line \in Lines /\ a.word \in Offset /\ a.slice \in Slices
         /\ Cell(a.tag, a.line, a.word) \in MemAdr
         /\ Held(a) = IF /\ tag_ram[a.line].valid /\ tag_ram[a.line].address = a.tag
                         /\ ~Refilled(a.line)
                      THEN cache_ram[a.line][a.word][a.slice]
                      ELSE memory[Cell(a.tag, a.line, a.word)][a.slice]
BY CellType DEF Held, Cell, Adr

\* No wait state, no transfer and no change of a tag changes what is held.
LEMMA HeldBusy ==
  ASSUME CacheInv, wbm_enable, NEW bus \in OnBus, NEW ack \in BOOLEAN, Clock(bus, ack),
         NEW a \in Adr
  PROVE  Held(a)' = Held(a)
<1> DEFINE b == buffer_index
           n == master_offset_counter
           c == Cell(a.tag, a.line, a.word)
           own == tag_ram[a.line].valid /\ tag_ram[a.line].address = a.tag
<1>1. /\ TypeOK /\ MasterState /\ CacheInv'
  BY BurstInv, EndInv DEF CacheInv
<1>2. TypeOK'
  BY <1>1 DEF CacheInv
<1>3. /\ a.tag \in Tags /\ a.line \in Lines /\ a.word \in Offset /\ a.slice \in Slices
      /\ c \in MemAdr
      /\ Held(a) = IF own /\ ~Refilled(a.line)
                   THEN cache_ram[a.line][a.word][a.slice] ELSE memory[c][a.slice]
  BY <1>1, HeldIs
<1>4. Held(a)' = IF own' /\ ~Refilled(a.line)'
                 THEN cache_ram'[a.line][a.word][a.slice] ELSE memory'[c][a.slice]
  BY DEF Held, Cell
<1>5. /\ Refilled(a.line) <=> ~wbm_we /\ a.line = b
      /\ slave_r' = slave_r /\ slave_r.adr.line = b
  BY BurstPlace, BusySlave DEF Refilled
<1>6. a.line # b => /\ tag_ram'[a.line] = tag_ram[a.line]
                    /\ cache_ram'[a.line] = cache_ram[a.line]
  <2>1. a.line # b => tag_ram'[a.line] = tag_ram[a.line]
    BY <1>1, <1>3, BusySlave, BurstPlace DEF TypeOK
  <2>2. a.line # b => cache_ram'[a.line] = cache_ram[a.line]
    BY <1>1, <1>3, BusyData, BurstPlace DEF TypeOK
  <2> QED
    BY <2>1, <2>2
<1>7. ~(wbm_we /\ a.line = b /\ a.tag = tag_buffer.address) => memory'[c] = memory[c]
  <2> SUFFICES ASSUME wbm_we, ~(a.line = b /\ a.tag = tag_buffer.address)
               PROVE  memory'[c] = memory[c]
    BY BusyData
  <2>1. c # Cell(tag_buffer.address, b, n)
    BY CellsDiffer
  <2> QED
    BY <1>1, <1>3, <2>1, BusyData DEF TypeOK
<1>8. CASE a.line # b
  <2>1. ~Refilled(a.line) /\ ~Refilled(a.line)'
    BY <1>5, <1>8 DEF Refilled
  <2> QED
    BY <1>3, <1>4, <1>6, <1>7, <1>8, <2>1
<1>9. CASE a.line = b /\ ~(ack /\ wbm_state = "wb_finish")
  <2>1. /\ tag_ram' = tag_ram /\ wbm_enable' = wbm_enable /\ wbm_we' = wbm_we
    BY <1>9, BusySlave, BusyMaster DEF Burst, wbmVars
  <2>2. Refilled(a.line)' <=> Refilled(a.line)
    BY <1>5, <2>1 DEF Refilled
  <2>3. CASE wbm_we
    <3>1. cache_ram' = cache_ram
      BY <2>3, BusyData
    <3>2. own <=> a.tag = tag_buffer.address
      BY <1>9, <2>3, BurstPlace
    <3> QED
      BY <1>3, <1>4, <1>5, <1>7, <2>1, <2>2, <2>3, <3>1, <3>2
  <2>4. CASE ~wbm_we
    BY <1>3, <1>4, <1>5, <1>7, <1>9, <2>2, <2>4
  <2> QED
    BY <2>3, <2>4
<1>10. CASE a.line = b /\ ack /\ wbm_state = "wb_finish"
  <2>1. ~Refilled(a.line)'
    BY <1>10, BusyMaster DEF Finish, Refilled
  <2>2. tag_ram'[b] = [valid |-> ~wbm_we, dirty |-> FALSE, address |-> slave_r.adr.tag]
    BY <1>1, <1>10, BusySlave, BurstPlace DEF TypeOK
  <2>3. own' <=> ~wbm_we /\ a.tag = slave_r.adr.tag
    <3>1. tag_ram'[b].valid = ~wbm_we /\ tag_ram'[b].address = slave_r.adr.tag
      BY <2>2
    <3> QED
      BY <1>10, <3>1
  <2>4. CASE wbm_we
    <3>1. own <=> a.tag = tag_buffer.address
      BY <1>10, <2>4, BurstPlace
    <3>2. own => memory'[c] = cache_ram[b][a.word]
      BY <1>3, <1>10, <2>4, <3>1, EndOfBurst
    <3> QED
      BY <1>3, <1>4, <1>5, <1>7, <1>10, <2>1, <2>3, <2>4, <3>1, <3>2
  <2>5. CASE ~wbm_we
    <3>1. own' => cache_ram'[b][a.word] = memory[c]
      BY <1>3, <1>10, <2>3, <2>5, EndOfBurst
    <3> QED
      BY <1>3, <1>4, <1>5, <1>7, <1>10, <2>1, <2>5, <3>1
  <2> QED
    BY <2>4, <2>5
<1> QED
  BY <1>8, <1>9, <1>10

\* Where the request that hits is.
LEMMA HitPlace ==
  ASSUME CacheInv, NEW bus \in OnBus, hit(bus)
  PROVE  /\ ~wbm_enable /\ slave_en(bus)
         /\ tag_ram[bus_input(bus).adr.line].valid
         /\ tag_ram[bus_input(bus).adr.line].address = bus_input(bus).adr.tag
         /\ Held(bus_input(bus).adr) =
                cache_ram[bus_input(bus).adr.line][bus_input(bus).adr.word][bus_input(bus).adr.slice]
<1>1. TypeOK /\ tag_buffer = tag_ram[buffer_index]
  BY DEF CacheInv, TagsCurrent
<1>2. ~wbm_enable
  BY BusySignals
<1>3. slave_en(bus) /\ index_match(bus) /\ tag_match(bus)
  BY <1>1, InputType
<1>4. bus_input(bus).adr \in Adr
  BY <1>1, InputType, RequestType
<1> QED
  BY <1>1, <1>2, <1>3, <1>4, HeldIs DEF index_match, tag_match, Refilled

\* Without a burst, a store that hits changes what is held at its address, and
\* nothing else changes.
LEMMA HeldIdle ==
  ASSUME CacheInv, ~wbm_enable, NEW bus \in OnBus, NEW ack \in BOOLEAN, Clock(bus, ack),
         NEW a \in Adr
  PROVE  Held(a)' = IF hit(bus) /\ bus_input(bus).we /\ a = bus_input(bus).adr
                    THEN bus_input(bus).data ELSE Held(a)
<1> DEFINE in == bus_input(bus)
           c == Cell(a.tag, a.line, a.word)
           own == tag_ram[a.line].valid /\ tag_ram[a.line].address = a.tag
<1>1. TypeOK /\ CleanLines /\ TagsCurrent /\ MasterState
  BY DEF CacheInv
<1>2. /\ a.tag \in Tags /\ a.line \in Lines /\ a.word \in Offset /\ a.slice \in Slices
      /\ Held(a) = IF own THEN cache_ram[a.line][a.word][a.slice] ELSE memory[c][a.slice]
  BY <1>1, HeldIs DEF Refilled
<1>3. Held(a)' = IF own' /\ ~Refilled(a.line)'
                 THEN cache_ram'[a.line][a.word][a.slice] ELSE memory[c][a.slice]
  BY IdleSlave DEF Held, Cell
<1>4. /\ in.adr \in Adr /\ in.adr.tag \in Tags /\ in.adr.line \in Lines /\ in.adr.word \in Offset
      /\ in.adr.slice \in Slices
  BY <1>1, InputType, RequestType
<1>5. a = in.adr <=> /\ a.tag = in.adr.tag /\ a.line = in.adr.line
                     /\ a.word = in.adr.word /\ a.slice = in.adr.slice
  BY <1>4 DEF Adr
<1>6. CASE hit(bus) /\ in.we
  <2>1. ~Refilled(a.line)'
    BY <1>6, InputType, IdleMaster, <1>1 DEF Refilled
  <2>2. /\ tag_ram' = [tag_ram EXCEPT ![in.adr.line] =
                          [valid |-> TRUE, dirty |-> TRUE, address |-> in.adr.tag]]
        /\ cache_ram' = [cache_ram EXCEPT ![in.adr.line][in.adr.word][in.adr.slice] = in.data]
    BY <1>6, IdleData
  <2>3. tag_ram[in.adr.line].valid /\ tag_ram[in.adr.line].address = in.adr.tag
    BY <1>6, HitPlace
  <2>4. own' <=> own
    BY <1>1, <1>2, <1>4, <2>2, <2>3 DEF TypeOK
  <2>5. own => cache_ram'[a.line][a.word][a.slice] =
                   IF a = in.adr THEN in.data ELSE cache_ram[a.line][a.word][a.slice]
    <3>1. cache_ram \in [Lines -> [Offset -> [Slices -> Words]]]
      BY <1>1 DEF TypeOK, Wide
    <3>2. own => (a = in.adr <=> /\ a.line = in.adr.line /\ a.word = in.adr.word
                                 /\ a.slice = in.adr.slice)
      BY <1>5, <2>3
    <3>3. cache_ram'[a.line][a.word][a.slice] =
              IF a.line = in.adr.line /\ a.word = in.adr.word /\ a.slice = in.adr.slice
              THEN in.data ELSE cache_ram[a.line][a.word][a.slice]
      BY <1>2, <1>4, <2>2, <3>1
    <3> QED
      BY <3>2, <3>3
  <2>6. a = in.adr => own
    BY <2>3
  <2> QED
    BY <1>2, <1>3, <1>6, <2>1, <2>4, <2>5, <2>6
<1>7. CASE ~(hit(bus) /\ in.we)
  <2>1. tag_ram' = tag_ram /\ cache_ram' = cache_ram
    BY <1>7, IdleData
  <2>2. CASE own /\ Refilled(a.line)'
    <3>1. wbm_state = "wb_idle" /\ miss(bus)
      BY <2>2, IdleMaster DEF Refilled
    <3>2. /\ StartBurst(bus) /\ ~hit(bus) /\ slave_en(bus) /\ buffer_index = in.adr.line
      BY <1>1, <3>1, IdleMaster, InputType DEF miss, index_match
    <3>3. a.line = in.adr.line
      BY <2>2, <3>2, IdleSlave DEF Refilled
    <3>4. ~tag_ram[a.line].dirty
      BY <1>1, <2>2, <3>1, <3>2, <3>3 DEF Refilled, StartBurst, dirty_miss, TagsCurrent
    <3>5. cache_ram[a.line][a.word] = memory[c]
      BY <1>1, <1>2, <2>2, <3>4 DEF CleanLines, LineIsCurrent, Refilled
    <3> QED
      BY <1>2, <1>3, <1>7, <2>2, <3>5
  <2>3. CASE ~(own /\ Refilled(a.line)')
    BY <1>2, <1>3, <1>7, <2>1, <2>3
  <2> QED
    BY <2>2, <2>3
<1> QED
  BY <1>6, <1>7

\* The refinement mapping of Memory, by name.
Store == [a \in Adr |-> Held(a)]
Waiting == IF en_r THEN {slave_r} ELSE {}
Answer == {[request |-> r, data |-> IF r.we THEN {} ELSE {slave_db_rd[slave_db_mux_reg]}]
               : r \in done}

\* What a request finds in the memory, by name.
Finds(r) == [request |-> r, data |-> IF r.we THEN {} ELSE {Store[r.adr]}]

\* A burst is invisible.
LEMMA BusyIsPause ==
  ASSUME CacheInv, wbm_enable, NEW bus \in OnBus, NEW ack \in BOOLEAN, Clock(bus, ack)
  PROVE  Memory!Pause
<1>1. Store' = Store
  BY HeldBusy DEF Store
<1>2. Waiting' = Waiting
  BY BurstPlace, BusySlave DEF Waiting
<1>3. Answer' = {}
  BY BusySlave DEF Answer
<1> QED
  BY <1>1, <1>2, <1>3 DEF Memory!Pause, Store, Waiting, Answer

\* A request that hits is performed, at once or after it has waited.
LEMMA HitPerforms ==
  ASSUME CacheInv, NEW bus \in OnBus, NEW ack \in BOOLEAN, Clock(bus, ack), hit(bus)
  PROVE  Memory!Immediate \/ Memory!Late
<1> DEFINE in == bus_input(bus)
<1>1. /\ ~wbm_enable /\ TypeOK /\ in \in Requests /\ in.adr \in Adr /\ in.we \in BOOLEAN
      /\ in.adr.line \in Lines /\ in.adr.word \in Offset /\ in.adr.slice \in Slices
  BY HitPlace, InputType, RequestType DEF CacheInv
<1>2. Store' = IF in.we THEN [Store EXCEPT ![in.adr] = in.data] ELSE Store
  <2>1. \A a \in Adr : Held(a)' = IF in.we /\ a = in.adr THEN in.data ELSE Held(a)
    BY <1>1, HeldIdle
  <2> QED
    BY <2>1 DEF Store
<1>3. done' = {in} /\ slave_db_rd'[slave_db_mux_reg'] = Store[in.adr]
  <2>1. /\ done' = {in} /\ slave_db_mux_reg' = in.adr.slice
        /\ slave_db_rd' = cache_ram[in.adr.line][in.adr.word]
    BY <1>1, IdleSlave
  <2> QED
    BY <1>1, <2>1, HitPlace DEF Store
<1>4. Answer' = {Finds(in)}
  BY <1>3 DEF Answer, Finds
<1>5. Waiting' = {}
  BY <1>1, IdleSlave DEF Waiting
<1>6. Memory!Perform(in)
  BY <1>2, <1>4 DEF Memory!Perform, Memory!Found, Store, Answer, Finds
<1>7. CASE en_r
  <2>1. Waiting = {in}
    BY <1>7 DEF Waiting, bus_input
  <2> QED
    <3>1. \E r \in Waiting : Memory!Perform(r)
      BY <1>6, <2>1 DEF Memory!Perform, Memory!Found
    <3> QED
      BY <1>5, <3>1, Zenon DEF Memory!Late, Waiting
<1>8. CASE ~en_r
  <2>1. Waiting = {}
    BY <1>8 DEF Waiting
  <2> QED
    <3>1. \E r \in Requests : Memory!Perform(r)
      BY <1>1, <1>6 DEF Memory!Perform, Memory!Found
    <3>2. Answer' # {} /\ Waiting' = Waiting
      BY <1>4, <1>5, <2>1
    <3> QED
      BY <2>1, <3>1, <3>2, Zenon DEF Memory!Immediate, Waiting, Answer
<1> QED
  BY <1>7, <1>8

\* A request that does not hit waits; a clock without one does nothing.
LEMMA MissWaits ==
  ASSUME CacheInv, ~wbm_enable, NEW bus \in OnBus, NEW ack \in BOOLEAN, Clock(bus, ack),
         ~hit(bus)
  PROVE  Memory!Accept \/ Memory!Pause
<1>1. TypeOK /\ bus_input(bus) \in Requests
  BY InputType DEF CacheInv
<1>2. Store' = Store
  BY HeldIdle DEF Store
<1>3. Answer' = {}
  BY IdleSlave DEF Answer
<1>4. Waiting' = IF slave_en(bus) THEN {bus_input(bus)} ELSE {}
  BY IdleSlave DEF Waiting
<1>5. CASE en_r
  <2>1. Waiting' = Waiting
    BY <1>4, <1>5 DEF Waiting, slave_en, bus_input
  <2> QED
    BY <1>2, <1>3, <2>1 DEF Memory!Pause, Store, Waiting, Answer
<1>6. CASE ~en_r /\ slave_en(bus)
  <2>1. Waiting = {} /\ Waiting' = {bus_input(bus)}
    BY <1>4, <1>6 DEF Waiting
  <2> QED
    BY <1>1, <1>2, <1>3, <2>1 DEF Memory!Accept, Store, Waiting, Answer
<1>7. CASE ~en_r /\ ~slave_en(bus)
  <2>1. Waiting' = Waiting
    BY <1>4, <1>7 DEF Waiting
  <2> QED
    BY <1>2, <1>3, <2>1 DEF Memory!Pause, Store, Waiting, Answer
<1> QED
  BY <1>5, <1>6, <1>7

\* At power up, memory holds everything.
LEMMA InitMemory == Init => Memory!Init
<1> SUFFICES ASSUME Init PROVE Memory!Init
  OBVIOUS
<1>1. \A a \in Adr : Held(a) = Content[a]
  <2> SUFFICES ASSUME NEW a \in Adr PROVE Held(a) = Content[a]
    OBVIOUS
  <2>1. /\ a.tag \in Tags /\ a.line \in Lines /\ a.word \in Offset /\ a.slice \in Slices
        /\ Cell(a.tag, a.line, a.word) \in MemAdr
        /\ a = [tag |-> a.tag, line |-> a.line, word |-> a.word, slice |-> a.slice]
    BY CellType DEF Adr
  <2>2. ~tag_ram[a.line].valid
    BY <2>1 DEF Init
  <2>3. memory[Cell(a.tag, a.line, a.word)][a.slice] = Content[a]
    BY <2>1 DEF Init, Cell, MemAdr
  <2> QED
    BY <2>2, <2>3 DEF Held, Cell
<1>2. Store = Content
  BY <1>1, CacheAssumption DEF Store
<1> QED
  BY <1>2 DEF Memory!Init, Store, Init

\* The cache of rtl/cache is a memory to the master in front of it: each request
\* is performed once and in order on one store, a read returns what it found
\* there, and write backs, refills and wait states are invisible.
THEOREM Refinement == Spec => MemorySpec
<1>1. CacheInv /\ [Next]_vars => [Memory!Next]_(Memory!vars)
  <2> SUFFICES ASSUME CacheInv, [Next]_vars
               PROVE  [Memory!Next]_(Memory!vars)
    OBVIOUS
  <2>1. ASSUME NEW bus \in OnBus, NEW ack \in BOOLEAN, Clock(bus, ack)
        PROVE  Memory!Next
    BY <2>1, BusyIsPause, HitPerforms, MissWaits DEF Memory!Next
  <2>2. CASE UNCHANGED vars
    <3>1. UNCHANGED <<en_r, slave_r, slave_db_rd, slave_db_mux_reg, done, tag_ram>>
          /\ UNCHANGED <<cache_ram, memory, wbm_enable, wbm_we>>
      BY <2>2 DEF vars, busVars, tagVars, ramVars, wbmVars
    <3>2. Store' = Store /\ Waiting' = Waiting /\ Answer' = Answer
      BY <3>1 DEF Store, Waiting, Answer, Held, Refilled
    <3> QED
      BY <3>2 DEF Memory!vars, Store, Waiting, Answer
  <2> QED
    BY <2>1, <2>2 DEF Next
<1> QED
  BY <1>1, InitMemory, Invariant, PTL DEF Spec, MemorySpec, Memory!Spec
=============================================================================
