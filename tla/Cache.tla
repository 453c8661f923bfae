------------------------------- MODULE Cache -------------------------------
(***************************************************************************)
(* The write-back cache (rtl/cache): its bus side (cache_businterface.py), *)
(* the tag RAM and the hit logic of its one way (tag_ram.py, cache_way.py),*)
(* the two-port data RAM (cache_ram.py), the refill and write-back machine *)
(* (cache.py), and the burst memory behind it.                             *)
(*                                                                         *)
(* Every step is one clock.  The request on the bus is an input of the     *)
(* clock: the cache reads the master's signals directly, and holds what it *)
(* cannot serve at once in registers of its own.  A memory word is wider   *)
(* than a word of the master: it has Slices.  Byte lanes are abstracted, a *)
(* store writes one word of the master.                                    *)
(***************************************************************************)
EXTENDS Naturals

CONSTANTS
    Tags, Lines,    \* tag values and line indices
    LineSize,       \* memory words per line (config.line_size)
    Slices,         \* words of the master per memory word (config.mux_size)
    Words,          \* contents of a word
    Requests,       \* what the master may ask: [adr, we, data]
    Parked,         \* what it leaves on the bus while it asks nothing
    Content         \* the memory at power up, a function on Adr

Offset == 0 .. LineSize - 1
Adr == [tag : Tags, line : Lines, word : Offset, slice : Slices]

ASSUME CacheAssumption ==
    /\ 0 \in Tags /\ 0 \in Lines /\ 0 \in Slices
    /\ LineSize \in Nat /\ LineSize > 1
    /\ Requests \subseteq [adr : Adr, we : BOOLEAN, data : Words]
    /\ Parked \subseteq Requests /\ Parked # {}
    /\ Content \in [Adr -> Words]

VARIABLES
    en_r, slave_r,          \* a request that is held, and its registers
    slave_ack,              \* acknowledge to the master
    slave_db_rd, slave_db_mux_reg,  \* data RAM output and its slice
    buffer_index, tag_buffer,       \* tag RAM output and the index it is of
    tag_ram, cache_ram,
    wbm_state, wbm_enable, wbm_we,  \* the bus master of the cache
    cache_offset_counter, master_offset_counter,
    master_db_rd,           \* data RAM output of the memory side
    memory,                 \* external: the memory
    done                    \* history: the request acknowledged in this clock

busVars == <<en_r, slave_r, slave_ack, slave_db_mux_reg, done>>
tagVars == <<buffer_index, tag_buffer, tag_ram>>
ramVars == <<cache_ram, slave_db_rd, master_db_rd>>
wbmVars == <<wbm_state, wbm_enable, wbm_we, cache_offset_counter,
             master_offset_counter>>
vars == <<busVars, tagVars, ramVars, wbmVars, memory>>

Tag == [valid : BOOLEAN, dirty : BOOLEAN, address : Tags]
Line == [Offset -> [Slices -> Words]]

-----------------------------------------------------------------------------
(* Combinational signals.  bus.request is on the bus, valid if bus.en.     *)

slave_en(bus) == en_r \/ bus.en

\* The request at work: the held one, else the one on the bus.
bus_input(bus) == IF en_r THEN slave_r ELSE bus.request

index_match(bus) == buffer_index = bus_input(bus).adr.line
tag_match(bus) == tag_buffer.valid /\ tag_buffer.address = bus_input(bus).adr.tag

\* mutant: a held request is not looked up
hitBus(bus) == bus.en /\ index_match(bus) /\ tag_match(bus)

hit(bus) == slave_en(bus) /\ index_match(bus) /\ tag_match(bus)
miss(bus) == slave_en(bus) /\ index_match(bus) /\ ~tag_match(bus)
dirty_miss(bus) == miss(bus) /\ tag_buffer.dirty

slave_cache_we(bus) == hit(bus) /\ bus_input(bus).we

\* mutant: a write back reads the word that is on the bus
ram_adrSame(bus) ==
    IF dirty_miss(bus)
    THEN [line |-> buffer_index, word |-> master_offset_counter]
    ELSE [line |-> bus_input(bus).adr.line, word |-> master_offset_counter]

\* Where the bus master of the cache is in memory and in the data RAM.
wbm_adr(bus) ==
    IF dirty_miss(bus)
    THEN [tag |-> tag_buffer.address, line |-> buffer_index,
          word |-> master_offset_counter]
    ELSE [tag |-> bus_input(bus).adr.tag, line |-> bus_input(bus).adr.line,
          word |-> master_offset_counter]
ram_adr(bus) ==
    IF dirty_miss(bus)
    THEN [line |-> buffer_index, word |-> cache_offset_counter]
    ELSE [line |-> bus_input(bus).adr.line, word |-> master_offset_counter]

-----------------------------------------------------------------------------
(* The clock of each part; ack is the memory's acknowledge.                *)

\* cache_businterface.py, and the slice register of cache.py.
SlaveClock(bus) ==
    LET keep == bus.en /\ ~en_r /\ ~hit(bus)
    IN  /\ slave_r' = IF keep THEN bus_input(bus) ELSE slave_r
        /\ en_r' = ((en_r \/ keep) /\ ~hit(bus))
        /\ slave_ack' = hit(bus)
        /\ slave_db_mux_reg' =
               IF hit(bus) THEN bus_input(bus).adr.slice ELSE slave_db_mux_reg
        /\ done' = IF hit(bus) THEN {bus_input(bus)} ELSE {}

\* mutant: a store leaves the tag as it is
tag_weRefill(bus, ack) == ack /\ wbm_state = "wb_finish"

tag_we(bus, ack) == (ack /\ wbm_state = "wb_finish") \/ slave_cache_we(bus)

\* tag_ram.py: a write shows at the output at once.
TagClock(bus, ack) ==
    LET line == bus_input(bus).adr.line
        tag_in == [valid |-> ~dirty_miss(bus), dirty |-> slave_cache_we(bus),
                   address |-> bus_input(bus).adr.tag]
    IN  /\ buffer_index' = line
        /\ IF tag_we(bus, ack)
           THEN tag_ram' = [tag_ram EXCEPT ![line] = tag_in] /\ tag_buffer' = tag_in
           ELSE tag_buffer' = tag_ram[line] /\ UNCHANGED tag_ram

\* cache_ram.py: the two ports read what was there before the clock.
RamClock(bus, ack) ==
    LET slave == bus_input(bus).adr
        m == ram_adr(bus)
        written == IF slave_cache_we(bus)
                   THEN [cache_ram EXCEPT ![slave.line][slave.word][slave.slice] =
                             bus_input(bus).data]
                   ELSE cache_ram
        reads == (ack /\ wbm_enable) \/ (dirty_miss(bus) /\ wbm_state = "wb_idle")
    IN  /\ slave_db_rd' = cache_ram[slave.line][slave.word]
        /\ master_db_rd' = IF reads THEN cache_ram[m.line][m.word] ELSE master_db_rd
        /\ cache_ram' = IF ack /\ wbm_enable /\ ~dirty_miss(bus)
                        THEN [written EXCEPT ![m.line][m.word] = memory[wbm_adr(bus)]]
                        ELSE written

StartBurst(bus) ==
    /\ wbm_state = "wb_idle" /\ miss(bus)
    /\ wbm_enable' = TRUE /\ wbm_we' = dirty_miss(bus)
    /\ wbm_state' = IF dirty_miss(bus) THEN "wb_burst_write" ELSE "wb_burst_read"
    /\ cache_offset_counter' = IF dirty_miss(bus) THEN master_offset_counter + 1
                               ELSE cache_offset_counter
    /\ UNCHANGED master_offset_counter

Burst(ack) ==
    LET n == master_offset_counter + 1
    IN  /\ wbm_state \in {"wb_burst_read", "wb_burst_write"} /\ ack
        /\ wbm_state' = IF n = LineSize - 1 THEN "wb_finish" ELSE wbm_state
        /\ master_offset_counter' = n
        /\ cache_offset_counter' = (n + 1) % LineSize
        /\ UNCHANGED <<wbm_enable, wbm_we>>

Finish(ack) ==
    /\ wbm_state = "wb_finish" /\ ack
    /\ wbm_enable' = FALSE /\ wbm_we' = FALSE
    /\ master_offset_counter' = 0 /\ cache_offset_counter' = 0
    /\ wbm_state' = "wb_retire"

Retire ==
    /\ wbm_state = "wb_retire" /\ wbm_state' = "wb_idle"
    /\ UNCHANGED <<wbm_enable, wbm_we, cache_offset_counter, master_offset_counter>>

MasterClock(bus, ack) ==
    \/ StartBurst(bus) \/ Burst(ack) \/ Finish(ack) \/ Retire
    \/ wbm_state = "wb_idle" /\ ~miss(bus) /\ UNCHANGED wbmVars
    \/ wbm_enable /\ ~ack /\ UNCHANGED wbmVars

\* The memory takes the word that is on the bus in the clock in which it
\* acknowledges; it may insert wait states.
MemoryClock(bus, ack) ==
    /\ ack => wbm_enable
    /\ memory' = IF ack /\ wbm_we THEN [memory EXCEPT ![wbm_adr(bus)] = master_db_rd]
                 ELSE memory

Clock(bus, ack) ==
    /\ MemoryClock(bus, ack) /\ MasterClock(bus, ack)
    /\ SlaveClock(bus) /\ TagClock(bus, ack) /\ RamClock(bus, ack)

Init ==
    LET empty == [valid |-> FALSE, dirty |-> FALSE, address |-> 0]
        zero == [s \in Slices |-> CHOOSE w \in Words : TRUE]
    IN  /\ en_r = FALSE /\ slave_r = (CHOOSE r \in Requests : TRUE)
        /\ slave_ack = FALSE /\ slave_db_rd = zero /\ slave_db_mux_reg = 0
        /\ buffer_index = 0
        /\ tag_buffer = empty /\ tag_ram = [l \in Lines |-> empty]
        /\ cache_ram = [l \in Lines |-> [o \in Offset |-> zero]]
        /\ wbm_state = "wb_idle" /\ wbm_enable = FALSE /\ wbm_we = FALSE
        /\ cache_offset_counter = 0 /\ master_offset_counter = 0
        /\ master_db_rd = zero
        /\ memory = [a \in [tag : Tags, line : Lines, word : Offset] |->
                        [s \in Slices |->
                            Content[[tag |-> a.tag, line |-> a.line,
                                     word |-> a.word, slice |-> s]]]]
        /\ done = {}

\* The master may raise any request in any clock; a stalled one is not
\* accepted and may change.
OnBus == [en : {TRUE}, request : Requests] \cup [en : {FALSE}, request : Parked]

Next == \E bus \in OnBus, ack \in BOOLEAN : Clock(bus, ack)

Spec == Init /\ [][Next]_vars

\* The clock runs whether or not the master has a further request; a memory
\* that is asked does not insert wait states for ever.
ClockRuns == \E r \in Parked, ack \in BOOLEAN : Clock([en |-> FALSE, request |-> r], ack)
MemoryAnswers == \E bus \in OnBus : wbm_enable /\ Clock(bus, TRUE)

FairSpec == Spec /\ WF_vars(ClockRuns) /\ WF_vars(MemoryAnswers)

-----------------------------------------------------------------------------
(* Properties. *)

\* A line is being refilled: its old content is gone, its tag still there.
Refilled(line) ==
    /\ wbm_enable /\ ~wbm_we
    /\ line = slave_r.adr.line

\* What cache and memory together hold at an address.
Held(a) ==
    IF tag_ram[a.line].valid /\ tag_ram[a.line].address = a.tag /\ ~Refilled(a.line)
    THEN cache_ram[a.line][a.word][a.slice]
    ELSE memory[[tag |-> a.tag, line |-> a.line, word |-> a.word]][a.slice]

\* The cache is a memory: whatever is written back, replaced and refilled in
\* between, with whatever wait states, each request that the cache holds is
\* performed once, in order, on one store, like those it performs at once, and a
\* read returns what it found there.  A request that is presented and not yet
\* held may be withdrawn.
Memory == INSTANCE CacheMemory WITH
    Word <- Words,
    store <- [a \in Adr |-> Held(a)],
    waiting <- IF en_r THEN {slave_r} ELSE {},
    answer <- {[request |-> r,
                data |-> IF r.we THEN {} ELSE {slave_db_rd[slave_db_mux_reg]}] : r \in done}

MemorySpec == Memory!Spec

\* A request that is held is performed: no write back or refill goes on for
\* ever or ends in another miss of the same request.
Performed == en_r ~> ~en_r

\* A valid line that is not dirty equals memory, word for word: a refill has
\* filled all of it, and a store that follows at once makes it dirty
\* (rtl/cache/cache.py:158-160).  A write back ends in an invalid line: what it
\* has written is the matter of MemorySpec.
CleanIsCurrent ==
    \A a \in Adr : LET t == tag_ram[a.line] IN
        t.valid /\ ~t.dirty /\ t.address = a.tag /\ ~Refilled(a.line) =>
            cache_ram[a.line][a.word][a.slice] =
                memory[[tag |-> a.tag, line |-> a.line, word |-> a.word]][a.slice]

=============================================================================
