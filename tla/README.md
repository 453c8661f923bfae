# A verification development for bonfire-core

bonfire-core (`src/`) is a RISC-V RV32I core with its system on chip, written in MyHDL. This
directory holds TLA+ models of its control logic, TLC configurations that check them on small
instances, and TLAPS proofs of what matters most. Every definition is translated from the source;
`PROJECT.json` maps each one to the lines it stands for.

Contents: [inventory](#1-inventory), [modelling style](#2-modelling-style),
[modules and code](#3-modules-and-code), [runs](#4-runs), [fairness](#5-fairness),
[proofs](#6-proofs), [known restrictions](#7-known-restrictions),
[not modelled](#8-not-modelled), [plan](#9-plan).

## 1. Inventory

Everything in the design is a clocked process (`@always_seq`) that reads signals and sets registers,
or a combinational process (`@always_comb`) that computes signals. All processes take each clock edge
together. Concurrency is therefore not interleaving of threads: it is what a dozen small state
machines do to each other in *one and the same* clock, with inputs (stalls, answers, halt requests,
debugger accesses) that may arrive in any clock. The hard cases are coincidences — an answer that
arrives in the clock of a jump, a halt request in the clock of an EBREAK — and a directed test hits
them only by luck.

| Component (`src/rtl/...`) | State | Operations | Talks to | What makes it correct | Status |
|---|---|---|---|---|---|
| Fetch (`fetch.py`) | `ip`, word at work and a skid entry, `outstanding`, `jump_taken` | request, take answer, park it in the skid entry, redirect | instruction bus; decode (`valid`/stall); execute (jump) | words in program order, each once, with its own address; never hangs | modelled, safety proved |
| Front-end control (`decode.py`, `execute.py`, `pipeline_control.py`) | decode `valid`, jump registers, busy | decode, execute, kill, jump | fetch, units | nothing on a wrong path is executed, no jump is lost | modelled (control), proved |
| Load/store unit (`loadstore.py`) | pipe of operations, `outstanding`, result and flag registers | take an operation, request, answer, retire | execute, data bus | each operation retires once, in order, with its own data and flags, with up to three at work; the unit frees | modelled, in all of its settings |
| Interconnect (`uncore/dbus_interconnect.py`) | address windows, `busy`, selected slave, register stages | decode, select, stall, pass the answer | master, slaves | a request reaches its own slave only, its answer comes back | modelled, safety proved |
| Bus slaves and bridge (`uncore/ram_dp.py`, `bonfire_interfaces.py`, `soc/bonfire_core_soc.py`) | RAM word and its output register, read acknowledge, LED register, `cyc` | read, write, convert a request to a Wishbone cycle | interconnect, external Wishbone slave | a load returns what was stored last; a Wishbone cycle stands until its acknowledge | modelled, but for byte lanes and the pipelined Wishbone mode; safety proved |
| Back end (`regfile.py`, `decode.py`, `execute.py`, `alu.py`, `barrel_shifter.py`, `pipelined_backend.py`) | registers, operands, shifter stages, write back stage | read, stall or forward, compute, write back | decode, units | the pipeline is a sequential machine | modelled (data one bit wide), proved |
| Hart debug control (`debug/hart_debug.py`, `debug/debug_csrs.py`) | hart state, `dpc`, `dcsr`, redirect, acknowledge | halt, EBREAK, single step, resume, CSR writes | adapter, DMI registers, sequencer | transparent to the program; `dpc` is exact; one instruction per step | modelled, safety proved |
| Pipeline adapter (`debug/pipeline_adapter.py`) | boundary tracker (active, next pc) | choose the instruction source, report events | fetch, decode, execute, hart control, sequencer | reports a boundary when one is there | modelled, proved with the hart |
| Abstract commands (`debug/abstract_command.py`) | command state, result | transfer register, run the Program Buffer, report | DMI registers, adapter, register file | reads and writes the registers when they are settled; ends | modelled, safety proved |
| DMI registers (`debug/dmi.py`, `debug/dm_registers.py`) | `dmcontrol`, `abstractcs`, `command`, `abstractauto`, data, Program Buffer | read, write, busy and error handling, autoexec | transport, sequencer, hart control | a conflict is reported, a request is honoured | modelled |
| Debug API (`tb/debug/debug_api.py`, `dmi_api.py`) | what is left of a call, saved registers | read and write registers, CSRs and memory; halt, resume, reset | DMI registers | a call does what it is for and nothing else, and returns | modelled |
| Debug transport (`debug/tap_fsm.py`, `jtag_dtm.py`, `dtm_transport.py`, `ecp5_jtagg_client.py`, `ecp5_jtagg_tap.py`) | TAP state, shift registers, toggles across clocks | scan, request, answer, resets | host, DMI | a request crosses once and takes effect once, its answer is its own | modelled, safety proved |
| GDB server (`gdbserver/main.py`, `gdb_rsp.py`) | breakpoints, pending resume address, socket, resume loop | packets, Break, connections | GDB, debug API | memory is the client's but for breakpoints; the program goes on where it stopped; packets are answered, the stops the server waits for are reported | modelled, safety proved |
| CSR and trap (`csr.py`, `trap.py`) | CSRs, trap registers | CSR read/write, trap, mret | execute, fetch | who wins when both write | not modelled |
| Cache (`cache/`) | tags, data RAM, burst counters, held request | hit, refill, write back | data bus, burst memory | it is a memory | modelled, but for resets; proved |
| UART (`uncore/uart/uart.py`) | shift registers, counters, flags | send, receive, registers | data bus, line | no byte lost, doubled or announced twice | modelled |
| Divider (`divider.py`) | remainder, quotient, counter | start, step, finish | not instantiated yet | equals division | modelled |
| SoC top level (`soc/bonfire_core_soc.py`, `uncore/bonfire_core_ex.py`) | resets | wiring | all | — | wiring of the data bus only |
| OpenOCD bitbang, generators, firmware, test benches | | | | | not modelled |

### What is hard here

`PROJECT.json` lists 40 hazards at their lines. By theme:

- **Redirects meet answers.** A jump or a debugger's resume arrives while a fetch is outstanding,
  decode is stalled and the skid entry is full (`fetch.py:82-107`). Without `jump_bypass` the jump is
  registered and `kill_i` lasts one clock (`execute.py:234`).
- **Slots against answers.** The load/store unit picks register, flags and width from fixed slots of
  a shifting pipe (`loadstore.py:139`); the interconnect remembers one target (`dbus_interconnect.py:149`)
  while the master may already present the next request.
- **Operands against results.** Decode reads a register while its result is in a shifter, in the load
  unit or in write back (`regfile.py:126`, `pipelined_backend.py:124`).
- **Halt against everything.** A halt request arrives in any clock of a fetch, a jump, a load or a
  hazard stall, is abandoned again, or coincides with an EBREAK or the end of a step
  (`hart_debug.py:53-91`, `pipeline_adapter.py:120`).
- **Errors.** A slave answers with an error (`dbus_interconnect.py:158`), a Program Buffer word fails
  (`execute.py:147`), an access is misaligned (`loadstore.py:167`).
- **Two clocks.** JTAG and core clock run freely; requests and answers cross as toggles, and either
  side may be reset, or told to give up by `dtmhardreset`, between any two edges
  (`dtm_transport.py:119`, `jtag_dtm.py:154`).
- **Long sequences.** A call of the debug API is up to a dozen commands that borrow registers of the
  program (`debug_api.py:199`); the GDB server steps over its own breakpoints, patches memory and polls
  a hart that may stop by itself (`gdb_rsp.py:323`, `gdb_rsp.py:383`).
- **Bursts.** The cache reads its RAM one word ahead of a burst (`cache.py:206`), and a refill ends in
  the clock of a store (`cache.py:158`).
- **Numbers at a boundary.** Bit times of the UART (`uart.py:288`), signs and zero of the divider
  (`divider.py:158`), windows of the address map (`dbus_interconnect.py:52`).
- **Liveness.** Everything waits for an answer: fetch, the unit, the interconnect, the sequencer.

## 2. Modelling style

- Registers are `VARIABLES`, combinational signals are operators of the same name; a signal that
  depends on inputs takes them as parameters. One clock edge of all processes of a component is **one
  action** (`FetchClock`, `LsuClock`, `IcClock`, `HartClock`, ...), and a composition is the
  conjunction of the clocks of its components with signals passed as arguments. Every step of every
  specification is one clock edge, so each action stands for the whole process, in all its branches.
- Inputs are chosen with `\E`, from what the other side can really drive in that clock.
- Reset is the initial state. `jump_bypass`, `RegisteredReadStage`, pipeline length and the like are
  settings of elaboration: CONSTANTS, or a variable that never changes where one run checks several.
- Data is abstract. A memory word is the address it is stored at; the data of a bus transfer is the
  name of its request; a register holds one bit and the units compute a bit that depends on both
  operands; an instruction of `DebugCore` is the class of its effect on control. Wrong pairings stay
  visible, widths and encodings do not.
- Variables marked "history" are not registers. They record what happened so that a property can
  refer to it, and no action of the design reads them.
- Names end in what a fault would do (`SuccUnwrapped`, `kill_iNever`) for the variants used by
  mutation: each property is shown to fail for at least one of them.

## 3. Modules and code

| Module | Models | Notes |
|---|---|---|
| `FetchUnit` | `fetch.py` and its bus slave: `uncore/ram_dp.py` (`FastBus`) or `tb/sim_ram.py` (any latency) | `FetchClock` is all the registers of fetch, every branch; `en_o` and `new_jump` are its combinational signals; used by `FrontEnd` and `DebugCore` |
| `FrontEnd` | decode's valid bit, execute's jump registers, kill and stall | what an instruction decides is a choice; conditions on it in `Decides` |
| `InstructionStream` | *abstract*: instructions arrive one after the other, each with its own word | `FrontEnd!StreamSpec` maps `pc` to the oldest address in the pipe |
| `LoadStoreUnit` | `loadstore.py` | generic in `MaxOutstanding` and the two read/write stage settings |
| `LoadStorePort` | *abstract*: operations retire once, in order, with their own outcome | |
| `LoadStoreBus` | the unit in all of its settings (`setting` never changes) between an execute stage that offers operations at any time and a slave: any slave with one outstanding operation, that of `tb/sim_ram.py` with more | refinement, liveness; `Joins` and `SlaveMay` name what a unit with several slots is not given (section 7) |
| `DbusInterconnect` | `uncore/dbus_interconnect.py`: `AdrMask`, the validation of a mapping, `MasterNSlaveSignals` | bit vectors are sets of bits; `Mappings` is what passes `_validate_and_log_mapping`; the map and the choice of register stages are variables that never change |
| `InterconnectBus` | the interconnect between a master as eager as the bus protocol allows and any slaves, one request each | |
| `SocSlaves` | block RAM with its port, LED register, `DbusToWishbone` and the windows of the SoC | the external Wishbone slave is nondeterministic |
| `DataBus` | load/store unit, interconnect and `SocSlaves` composed | the data side of the SoC |
| `RegisterFile` | `regfile.py` | the collision registers replace a read of the old value |
| `Backend`, `MCBackend` | operand read, hazards and forwarding, shifter, load/store unit (`INSTANCE LoadStoreUnit`), write back, for both pipeline lengths | `config` selects the pipeline |
| `HartDebug` | `debug/hart_debug.py`, `debug/debug_csrs.py` | `HartClock` = state machine + CSR write priority |
| `PipelineAdapter` | `debug/pipeline_adapter.py`, boundary tracker | |
| `AbstractCommand` | `debug/abstract_command.py` | |
| `DmiRegisters` | `debug/dmi.py`, `debug/dm_registers.py` | one access per clock at most |
| `DebugCore`, `MCDebugCore` | the core with all of the debug modules | wired as `simple_pipeline.py` and `pipelined_backend.py` do |
| `DebugApi` | `tb/debug/debug_api.py` | a call is a sequence of accesses, polls and tests |
| `HartAccess` | *abstract*: what the debug API promises; a call takes effect as a whole | |
| `DebugModule`, `MCDebugModule` | the API over the DMI registers, sequencer and hart control (`INSTANCE` of the four modules above), with a pipeline of one instruction at a time | `ApiSpec` maps it to `HartAccess` |
| `DmiCdcBridge` | `debug/dtm_transport.py` | toggles and their synchronisers on both sides |
| `JtagDTM` | `debug/tap_fsm.py`, `jtag_dtm.py`, `ecp5_jtagg_client.py`, `ecp5_jtagg_tap.py` | both front ends |
| `DmiChannel` | *abstract*: one request at a time, performed once, or given up by a reset | |
| `DebugTransport`, `MCDebugTransport` | host, front end, bridge and DMI on two free clocks | `ChannelSpec` maps the toggles to `DmiChannel` |
| `GdbServer`, `MCGdbServer` | `gdbserver/main.py`, `gdb_rsp.py`, a client and the program | the hart through whole calls, as `HartAccess` has them |
| `Cache`, `MCCache` | `cache/*.py` | one action per clock; the memory behind it is external |
| `CacheMemory` | *abstract*: a memory with an optional delay | |
| `Uart` | `uncore/uart/uart.py` | registers, receiver, transmitter; 16 bits and 8 bits are `Width` and `Bits` |
| `UartLoop`, `MCUartLoop` | transmitter wired to receiver over a line with noise, and the program that uses both | |
| `Divider`, `MCDivider` | `divider.py` | operands of `W` bits |
| `FrontEndProofs`, `InterconnectBusProofs`, `DataBusProofs`, `BackendProofs`, `DebugCoreProofs`, `DebugTransportProofs`, `GdbServerProofs`, `CacheProofs` | — | theorems about the module of that name ([section 6](#6-proofs)) |

## 4. Runs

All runs are expected to pass. Each property has a mutant in `PROJECT.json`, a plausible fault in the
code that makes it fail under the same configuration.

| Run | What it asks | Bounds, and why they suffice |
|---|---|---|
| `front_end_bypass` | Does the front end implement `InstructionStream`, and always go on, on a bus of any latency? (`PathInv`, `StreamSpec`, `AlwaysIssues`) | 6 word addresses that wrap. At most five consecutive ones are in the pipe (request, two entries, decode, next), so a sixth tells a repetition from progress. The proof drops the bound |
| `load_store` | Does every operation retire once, in order, with its data and flags (`PortSpec`), does every operation end (`Completes`)? | the six settings of `loadstore.py:70-73`: one, two or three outstanding operations, registered reads, stores that end early; 6 names: three in the pipe, bus, result register and a new one |
| `interconnect_bus` | Is each transfer served by its own slave only (`OwnersOnly`) and answered once with its own data (`AnswerMatches`, `Answered`), for every address map that passes the validation? | addresses of 2 bits and every valid map of three windows on them, so that windows touch and leave holes; no register stage or two of them; 3 requests, as many as one register stage and the bus can hold and one more |
| `data_bus` | Does a load return what the program stored last, or the word of its own Wishbone access (`OwnData`)? Does a Wishbone cycle stand, unchanged, until its acknowledge (`WishboneHeld`)? Are errors those of unmapped addresses (`ErrorIffUnmapped`), and does every access end (`Answered`)? | one word of RAM, the LED register, one Wishbone address, one that is in a window and assigned to nothing and one in no window; an access that waits for the selection an error has left behind is `HeldUp` (section 7); with and without the register stage of the Wishbone slot; 2 names, so that an old value differs from the one stored last |
| `backend` | Does each instruction read the results of all before it (`OperandsCurrent`), is the pipeline a sequential machine (`Sequential`), is it settled when it says empty (`EmptyIsSettled`), and does it go on (`NeverStuck`)? | registers x0, x1, x2, values of one bit, a program in which every unit appears as producer and as consumer through either operand; four settings of the pipeline. At most two results are under way, so two registers besides x0 show every dependency |
| `debug_core` | Is the debugger transparent (`Transparent`), is `dpc` exact and stored (`EntryPc`), does a step take one instruction (`StepsOne`), do commands find settled registers (`Quiet`)? | three addresses (one in decode, one in fetch, one elsewhere), jumps to two of them, `dpc` set to the third, two Program Buffers (a word then a write of `dpc`; a write of `dcsr`, which arms stepping, then EBREAK), five DMI accesses in any order; the three-stage pipeline with `jump_bypass` and the four-stage one without |
| `debug_module` | Does each call of the debug API do what it is for and nothing else (`ApiSpec`), return (`Returns`), and never meet a command that is still at work (`NeverRefused`)? | any sequence of nine kinds of calls; one bit per register and two addresses, as every call concerns one register or word |
| `debug_transport` | Does every request take effect once (`ChannelSpec`), is none lost (`NothingLost`), is the answer that a scan reads its own (`AnswerIsOwn`)? | one register of one bit; JTAG DTM and ECP5 client; any interleaving of the two clocks; TRST, TAP resets, `dtmhardreset` and reset at any edge. The crossing holds one request, whatever its width |
| `gdb_server` | Is memory what the client wrote, but for breakpoints (`Patched`)? Is a hart the client takes for stopped halted (`StoppedIsHalted`)? Does the program go on where it stopped (`GoesOn`)? Is every packet answered (`Answered`)? Is the stop of a hart that the server waits for reported, and a Break that finds the server out of its loop (`Reported`)? | three words, one of them a loop; every packet the server knows; a Break whenever the client takes the hart to run, also while the server polls it in the loop of `s` or `c`; a client that sends the next packet, or lets the hart run again, before the second reply of such a Break (`hasty`, section 7); disconnects and connects when nothing is under way; a Break only while fewer than `Replies` = 2 replies are on their way: a stop and the reply to a Break are two |
| `cache` | Is the cache a memory for every request that it holds or performs at once (`MemorySpec`; one that is presented may be withdrawn before), is every held request performed (`Performed`), and does a clean line equal memory after refills and stores (`CleanIsCurrent`; a write back that drops words shows in `MemorySpec`)? | two tags on two lines of four words of two slices: replacement, both lines, bursts long enough for a first, middle and last word |
| `uart` | Does every byte arrive once, in order, with a good frame (`InOrder`, `Arrives`), and is it announced once (`ReadOnce`)? | 3 data bits, 4-bit counters, dividers 5 and 8 only, a line that is disturbed for at most one clock in each bit but start bits (a disturbed one is dropped as a short pulse, `uart.py:239`) |
| `divider` | Are quotient and remainder those of RISC-V, for division by zero and overflow, too (`Correct`), and does every division end (`Ends`)? | 4-bit operands, all of them, signed and unsigned; a second division right after the first |

The restrictions of `DebugCore`'s environment, so that nobody reads more into `debug_core` than it
shows. The Program Buffer does not jump, the program does not write `dpc` or `dcsr`, and a load of the
program does not fail. There is no hart or ndm reset during a run, and every word is a valid
instruction. The debugger keeps the order a client keeps: commands go to a halted hart only, an error
is cleared before the hart resumes, a resume request is honoured before the next access (the DMI bridge
needs several clocks for one), and the module is made inactive only while a halt request is pending.
The instruction bus answers in the next clock. Single register transfers and the accesses of the debug
API are in `debug_module`; autoexec is in `DmiRegisters`, and no client in `src/` uses it. `EntryPc`
excludes a halt request right after a jump, `Transparent` the EBREAK of an abandoned halt request and what
follows a wrong `dpc`, and `Quiet` a word that is reported as failed too early (section 7).

The other environments, in the same spirit. The debugger of `debug_module` makes one call at a time and
the calls that need a halted hart on a halted hart. The host of `debug_transport` does not scan DMI
while a request is pending and leaves the core side five clocks after a reset of the scan side,
because the toggles still have to cross: `AnswerIsOwn` needs three of them (section 6) and fails with
two, `ChannelSpec` needs five. The client of `gdb_server` keeps the rules of
section 7. The program of `uart` programs the divider once, writes when it knows the transmitter to be ready, and
reads when it knows of a byte, both as late as it likes; the divider's user waits for `ce_o` before it starts again, as the tests do.

No counter grows without bound: `toggle` bits tell events apart, `executed` stops at 2, queues are as
long as what the hardware holds.

## 5. Fairness

- **The clock runs** (`WF(Next)`, `ClockRuns`). A step is a clock edge and inputs are always
  possible. Where the master has nothing more to request, the clock runs nevertheless.
- **A slave answers what it has accepted, and accepts what it sees** (`BusAnswers`, `SlaveAnswers`).
  All slaves of the SoC do within a few clocks (`ram_dp.py`, the Wishbone dummies); the core has no
  bus timeout and relies on it.
- **A unit completes** (`UnitCompletes`), only in `FrontEnd`, where units are abstract. `Backend` and
  `DataBus` contain them and assume no such thing.
- **The Wishbone slave acknowledges** (`SlaveAnswers` of `DataBus`) and **the burst memory does**
  (`MemoryAnswers` of `Cache`): neither has a timeout.
- **The instruction at work ends and fetch gets the next one** (`Finishing`, `Fetching` of
  `DebugModule`): the hart's units and its bus, as above. The poll loops of the API end only because
  of this.
- **The server's loop runs, and the hart executes** (`GdbServer`): both are processes of one simulator.

- **The clients go on.** A debugger that has begun a call makes its next access some time (`Return` or
  `Access` of `DebugModule`), which is what the client code does; nothing says that it begins a call.
  A GDB client takes the replies that arrive (`Reply`); nothing is assumed of what it sends.

Weak fairness is enough where an action stays enabled until it is taken. Two assumptions of
`DebugModule` are strong: the debugger must leave a clock between two accesses, so that `Access` is
disabled again and again, and a fetch gets its instruction although the debugger may discard it and
start another. `DebugTransport` has no liveness property: the host may stop TCK.

## 6. Proofs

Eight modules of theorems, each about the module of the same name. Each has an inductive invariant
(`DebugCoreProofs` has two), `Init => Inv` and `Inv /\ [Next]_vars => Inv'` by one lemma per action (or
per part of a clock, or per part of the invariant), and the properties of the runs as consequences. TLC
has checked every one of the invariants on the configuration of its run before it was proved; those of
`DebugCoreProofs` also with every Program Buffer and with all four pipelines.

| Module | Theorems | For every |
|---|---|---|
| `FrontEndProofs` | `TypeCorrect`; `PathCorrect`: `[]PathInv`; `StreamCorrect`: the refinement `StreamSpec` | memory size, reset address, bus latency, program |
| `InterconnectBusProofs` | `SpecOwnersOnly`: `[]OwnersOnly`; `SpecAnswerMatches`: `[]AnswerMatches`; `Invariant`: `[]BusInv` | set of slaves, width of addresses, valid map, choice of register stages, timing of the slaves |
| `DataBusProofs` | `SpecOwnData`: `[]OwnData`; `SpecWishboneHeld`: `[]WishboneHeld`; `SpecErrorIffUnmapped`: `[]ErrorIffUnmapped`; `Invariant`: `[]DataBusInv` | program, set of register names, timing of the Wishbone slave, with and without its register stage and early termination of writes |
| `BackendProofs` | `SpecOperandsCurrent`: `[]OperandsCurrent`; `SpecEmptyIsSettled`: `[]EmptyIsSettled`; `SpecSequential`: `Sequential`; `Invariant`: `[]PipelineInv` | program, number of registers, pipeline that `config.py` allows |
| `DebugCoreProofs` | `SpecStepsOne`: `[]StepsOne`; `SpecQuiet`: `[]Quiet`; `ControlInvariant`: `[]ControlInv`; `SpecTransparent`: `[]Transparent`; `SpecEntryPc`: `EntryPc`; `PathInvariant`: `[]PathInv` | memory size, program, Program Buffer, pipeline, timing of units and hazards, accesses of the debugger; the first three for every bus latency, the others for a bus that answers in the next clock |
| `CacheProofs` | `SpecCleanIsCurrent`: `[]CleanIsCurrent`; `Refinement`: `MemorySpec`; `Invariant`: `[]CacheInv` | number of tags, lines, words and slices, content of memory, requests, wait states |
| `DebugTransportProofs` | `SpecNothingLost`: `[]NothingLost`; `SpecAnswerIsOwn`: `[]AnswerIsOwn`; `SpecChannel`: the refinement `ChannelSpec`; `BridgeInvariant`: `[]BridgeInv`; `Invariant`: `[]TransportInv`; `ChannelInvariant`: `[]ChannelInv` | set of registers and values, requests of the host, front end, interleaving of the clocks |
| `GdbServerProofs` | `SpecPatched`: `[]Patched`; `SpecStoppedIsHalted`: `[]StoppedIsHalted`; `SpecGoesOn`: `GoesOn`; `Invariant`: `[]GdbInv` | number of words, program, set of packets, timing of hart, server and client |

### Assumptions

Every proof uses the named `ASSUME`s of its modules: types of the constants (`N` is positive, `0` is a
register, a program consists of instructions) and what elaboration of the design guarantees
(`ConfigsAssumption`: only a four-stage pipeline forwards from write back; `SocAssumption`: the three
slots of the SoC and its address map; `OutstandingAssumption`). `AccessAssumption` of `DebugCore` is
about the debugger: any accesses but a reset of the core, and a release of the module that asks for
nothing else; when they are made is `Offered` (section 4). Some theorems have a hypothesis of their
own, stated in the theorem:

- `Supported == JumpBypass \/ FastBus` (`FrontEndProofs`): the jump is not registered, or the bus
  answers in the next clock. Without it `StreamSpec` fails (section 7).
- `FastBus` (`SpecTransparent`, `SpecEntryPc`): the instruction bus answers in the next clock, as the
  RAM of the SoC does. Without it `Transparent` fails (section 7).
- `NoOverlap` (`InterconnectBusProofs`): the master waits for an answer before it addresses the same
  slave without register stage again, as the unit with one outstanding operation does. Without it
  `OwnersOnly` fails (section 7). `SpecOwnersOnly` lets slaves fail; `SpecAnswerMatches` does not, as an
  error of a slave is one at a mapped address. `Requests # {}` says that there is something to request.
- `SocConfig` (`DataBusProofs`): `MaxOutstanding = 1` (`execute.py:88`), registered reads
  (`config.py:10`), and at most the Wishbone slot has a register stage (`bonfire_core_ex.py:66`).
- `SettleEdges >= 3` (`SpecAnswerIsOwn`) and `SettleEdges >= 5` (`SpecChannel`): core clocks that the
  host leaves the core side after a reset of the scan side or `dtmhardreset`. `tb/debug/jtag_api.py:90`
  waits for three and `ecp5_jtagg_api.py:62` for six after each clock of TCK, and from either event to
  the next DMI scan it takes several clocks of TCK: out of Test-Logic-Reset, or through a scan of the
  instruction register. With two TLC finds an answer that belongs to another request. Five is what a
  request takes from the front end to the end of its access: two flip-flops, then it is seen, then
  taken, then carried out. `SpecNothingLost` needs neither.
- `DataAssumption`, `ScannedAssumption` (`DebugTransport`): the values are numbers, one of them 1, and
  what is shifted in is a request.

### The inductive invariants

No property of a run is inductive as it stands: each speaks of what is seen at the end of a path, and
the invariant has to say what is right everywhere on it.

- **Front end.** Which address comes next depends on what lies in decode, in the two fetch entries and
  on the bus. `PathInv` says that the occupied places hold consecutive addresses in the order bus, skid
  entry, fetch, decode (`Consecutive`), each with the word of its own address (`WordsMatch`), unless a
  jump is due; then nothing younger than the jump is left except the answer to be thrown away
  (`Bookkeeping`). `StepPath` goes by cases on who redirects and on the places that move; `StepStream`
  shows that a step issues the instruction at `pc` or leaves the stream alone.
- **Interconnect.** First a lemma on the map: two windows that decode one address overlap, so that in a
  valid map at most one does (`OneWindow`). Then `BusInv`: nothing is at work (`Rest`; a selection
  may be left over from a request that is stalled, or from an error), or one transfer is (`Serves`),
  in the selected slave (`Direct`) or in its register stage (`Staged`), and every other slot is free.
- **Data bus.** `DataBusInv` has six phases of the one request of the load/store unit: idle, offered,
  read from RAM, waiting in the bridge, waiting in the register stage, answered by it. In each it says
  what unit, interconnect, stage and slave hold of it. `Stored` says that RAM and LED register are
  up to date but for a store that is on offer.
- **Back end.** `PipelineInv`: at most one result is on its way out of a unit (`Underway`), the unit
  works on the operation of `execute` and its answer is that word (`OwnWord`), the pending registers of
  the three-stage pipeline name it (`Pending`), and the read ports show the register file
  (`PortsCurrent`). `OperandsCurrent` follows: what is neither in the register file nor on the way is
  hidden from decode by a stall or forwarded. For `Sequential`, each retirement writes what the
  sequential machine computes.
- **Debugged core.** Two invariants, as there are two questions. `ControlInv` is about who is at work:
  commands only while the hart stays halted (`CommandsHalted`), a word of the Program Buffer in decode
  only while the sequencer waits for it (`WordAtWork`), nothing of the program in a halted hart, and the
  units at rest between two words unless one of them was reported as failed too early (`HaltedPipe`), an
  instruction of a step counted when it leaves decode (`Stepping`), and the redirect in the clock after
  the resume, with nothing of the program behind it (`Resuming`). `StepsOne` and `Quiet` follow. `PathInv`
  says where the place at which the program goes on is kept, in every state of the hart (`Path`): in
  decode, as the target of a jump in the registers, as the word fetch offers next, in `dpc`, or in the
  redirect; that where `dpc` is wrong, after a halt right behind a jump, the jump is still in the registers
  (`Leftover`) and `GoesOn` is its target; that what fetch holds and asks for are consecutive (`Chain`) and follow the instruction in
  decode (`Behind`); and that a jump stays in the registers until fetch has acted on it and decode has
  taken what follows (`Jumping`, `Stalled`). The last is the difficult one: a halt freezes decode in any
  clock of a jump, and a resume has to win over the jump that is left. The step lemma for `Path` goes by
  the state: halted, redirected, an instruction executed, none executed.
- **Cache.** `CacheInv` says how far a burst is: below the counter the words are copied, at the counter
  the data RAM shows the next one (`WriteBackProgress`, `RefillProgress`); a burst is for the request
  that is held (`BurstForHeld`); and lines that are clean and not being refilled equal memory
  (`CleanLines`). The refinement maps the cache and the memory behind it to one store: a line's word if
  its tag is valid, memory otherwise; a hit performs the request, everything else stutters.
- **Debug transport.** A request is a toggle that goes round through seven registers in two clock
  domains. `Travelling` says that at most one edge is under way and where everything behind it still
  has the old value; `Expecting`, what will be the answer at each place; `Calm`, that nothing is under
  way when a scan is about to send. After a reset of the scan side `Travelling` does not hold;
  `Following` says, for each remaining clock of the host's wait, which registers have followed.
  `ChannelInv` adds what the refinement needs: the ECP5 client keeps its request from the rising edge of
  a reset to the falling one, in which time the core side may take it, carry it out or neither
  (`Overtaken`); the host waits for as long as something may be under way (`LettingGo`); and after that
  nothing moves (`Settled`). `StepMaps` maps every edge to an action of `DmiChannel`: the edge that
  sends to `Send`; the clock that carries a request out or drops it to `Perform` or `Abort`; the arrival
  of the answer's toggle to `Free`; every edge between a reset of the scan side and the end of the wait
  to `LetGo`, the last one to `Settle`.
- **GDB server.** `GdbInv` has two parts. `DataInv` holds for every client: `Saved` says that the server
  keeps what a breakpoint has replaced, `Where` what a pending resume address stands for, `Carried` that
  what the server reads is a question the client has asked, a part of one, or a Break. For a client that is
  not `hasty`, the dialogue is in one of five situations (`Unknown`, `Stopped`, `Resumed`, `Running`,
  `Awaited`), each with what may be in the two queues, a Break that waits for the loop and its second stop
  reply included, and whether the hart is halted. A Break and the packet behind it may be received
  together: `RecvHolding` says what is left of them.

### Model-checked only

- All liveness (`AlwaysIssues`, `Completes`, `Answered`, `NeverStuck`, `Returns`, `Reported`,
  `Performed`, `Arrives`, `Ends`): the prover handles neither `ENABLED` nor fairness.
- `Divider!Correct`: for every width it is an induction over the bits of a number, out of the
  prover's reach. No module uses a RECURSIVE operator.
- `PortSpec`, `ApiSpec`, `InOrder`, `ReadOnce`, `NeverRefused`: not proved so far
  (section 9).

## 7. Known restrictions

What the models show not to hold. The settings and environments of section 4 leave these cases out, and
each can be made to appear by the change named in brackets.

| Where | What happens |
|---|---|
| `fetch.py:93`, `execute.py:234` | Without `jump_bypass`, on a bus slower than one clock, the word behind a jump stays valid in fetch after the one-clock `kill_i`, is executed, and the jump is lost. `config.py:7` describes the setting as a matter of latency only (`JumpBypass` and `FastBus` FALSE: `StreamSpec`) |
| `loadstore.py:139`, `:196-204`, `:242` | Several outstanding operations (`loadstore.py:70-73` admits and `tests/pure/core/test_loadstore.py` runs two and three, the core sets one, `execute.py:88`): the fixed slots are not right for every mix. With registered reads and two, an answer in the clock after another one finds width and validity of the operation before it in its slot, so that mixed widths or an invalid operation come out wrong; with three, the slot that decides between load and store may hold the operation behind, so that loads and stores in flight together hide each other, and an invalid operation is judged by a stale slot. The tests stream operations of one kind (`Mixed` TRUE: `PortSpec`) |
| `loadstore.py:301` | Without registered reads a full unit of two makes room for an acknowledge but not for an error, after which the next operation gets the register of the one before (`Mixed` TRUE: `PortSpec`) |
| `loadstore.py:167` | A misaligned access starts no bus cycle but counts as outstanding, so it never ends; the exception that `execute.py:145-147` expects needs an answer (`Misaligned` TRUE: `Completes`) |
| `dbus_interconnect.py:158` | A request to the selected slave that is accepted in the clock of the previous acknowledge is not remembered, although line 149 says "remembers one selected target until its response"; its acknowledge is lost (`Pipelined` TRUE: `OwnersOnly`). The core's load/store unit, with one outstanding operation, never does this |
| `dbus_interconnect.py:158` | An error of a selected slave, as from an unassigned native address, does not release the selection: the next access to another window waits for ever, although `docs/soc/SOC.md:83-84` promises an error only (`Answered` of `DataBus` without `HeldUp`) |
| `bonfire_interfaces.py:200` | With a pipelined Wishbone master `cyc` is dropped two clocks after the request, acknowledged or not. No configuration in `src/` uses the mode |
| `pipeline_adapter.py:120` | A halt request right after a jump that was accepted in the clock in which the previous instruction completed stores the fall-through address in `dpc`; `docs/debug/modules/DEBUG_MODULE_README.md:115` promises the next architectural PC. After the resume the target is still in the jump registers and the program goes on there, not at `dpc`, unless an instruction of the debugger was executed in between (`EntryPc` without its exception, `Transparent` with `expected` alone) |
| `hart_debug.py:53` | An EBREAK that is executed in the clock in which a halt request is abandoned (`dmactive` is cleared while the request is pending) is lost: line 53 returns to the running state before line 56 looks at the EBREAK, which neither halts the hart nor is executed again. The same document, line 118, says that it enters Debug Mode (`Transparent` with `expected` alone) |
| `hart_debug.py:53`, `fetch.py:93` | On a bus slower than one clock, a halt request that is made right after a jump and abandoned again lets decode take the word behind the jump: fetch waits for an answer before it acts on the jump, and the halt has kept that word in its output (`FastBus` FALSE: `Transparent`) |
| `execute.py:147` | After one failed access, the next Program Buffer word is reported as failed while still at work; the same document, line 160, promises completion after all stages are empty. Until the pipeline is empty again, a register transfer may wait in decode behind the word and be overwritten by the one of the next command (`Quiet` without its exception) |
| `pipeline_adapter.py:113` | `architectural_next_pc` is not reset: a halt right after a core reset stores a `dpc` from before it |
| `debug_api.py:199-213` | `readMemory` and `writeMemory` leave their operands in x8 and x9, unlike the CSR calls, which save a register (`HartAccess` says so) |
| `jtag_dtm.py:154`, `ecp5_jtagg_client.py:103-119` | A DMI scan while a request is pending overwrites it; a client that leaves ER1 selected sends a request with a scan meant for another register |
| `main.py:118` | The server reads with one `recv(1024)` although `gdb_rsp.py:153` announces packets of 4096: a longer packet is dropped in parts and the client waits for ever (`LargePackets` TRUE: `Answered`). A Break is not acknowledged, so that the next packet may be read together with it: only the Break is served, the packet is lost (`Answered` without `swallowed`) |
| `gdb_rsp.py:295-302`, `:322-329` | The loops of `s` and `c` poll the hart and never read the socket: a Break sent meanwhile does nothing while the hart runs on (`Reported` without its `serve = "c"`). When the hart stops by itself the loop reports the stop and then the Break is served, with a second stop reply. A client that lets the hart run before it has that reply takes it for a new stop, and its next access ends the server with an assertion (`StoppedIsHalted` and `Answered` without `hasty`) |
| `gdb_rsp.py:175-178`, `:317-321` | What `monitor resume` or `c` without breakpoints has let run is not watched: when it stops, at a breakpoint that was left or inserted before, nobody is told until the client sends a Break |
| `gdb_rsp.py` | The client has to attach first, send no Break to a hart it takes to be stopped, write no memory over an inserted breakpoint, and not use `monitor resume` after `monitor reset` (an old resume address is kept). Closing the connection leaves breakpoints in memory |
| `cache/tag_ram.py:38` | A reset of a running cache does not clear its tags, and the assignment below overrides the reset of the tag output: a request right after it may hit with the tag of another line, and a refill that was cut off leaves an old tag over a partly overwritten line |
| `uart.py:288` | Dividers below 2 wrap the bit counter; with 2 the loopback fails, with 3 and 4 it works on an undisturbed line only (`Dividers` {2}, {4}: `InOrder`). A byte that is not read in time is replaced without a flag |
| `divider.py` | A division that is started while one is under way raises `ce_o` for a wrong result |

## 8. Not modelled

- What instructions compute (ALU arithmetic, encodings, immediate formats, CSR contents): the control
  does not depend on it beyond the choices the models leave open.
- `csr.py` and `trap.py`: registers that one instruction or one trap writes in one clock. The debug CSRs
  are in `HartDebug`.
- Byte lanes, widths and sign extension of the load/store unit and the RAM: an operation carries its
  width through the pipe, and the multiplexer's result is named by it.
- The read-only status views of the debug registers, wording of diagnostics.
- TDO, IDCODE and BYPASS of the TAP; the stored bits of the UART's control register.
- The instruction bus slave that stalls although it owes nothing: none in `src/` does.
- Reset sequencing of the SoC, resets of a running cache, UART or divider.
- The file generators, sockets of the OpenOCD bitbang server, firmware and test benches: no state of
  the running hardware.

## 9. Plan

The modules are complete as far as section 8 says. What is left is proving, in this order:

1. `UartLoop`: `ReadOnce`.
2. `LoadStoreBus`: `PortSpec` for one outstanding operation, the setting of the core, from an invariant
   that ties pipe slots to the queue; then for more.
3. `DebugModule`: `NeverRefused`, then `ApiSpec`.
