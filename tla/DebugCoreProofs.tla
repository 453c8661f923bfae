-------------------------- MODULE DebugCoreProofs --------------------------
(***************************************************************************)
(* The debugger is transparent to the program, steps execute one           *)
(* instruction, and commands find the pipeline empty: for every program,   *)
(* every contents of the Program Buffer and everything the debugger does.  *)
(* ControlInv is about the pipeline and the debug module, PathInv about    *)
(* the addresses in the front end.                                         *)
(***************************************************************************)
EXTENDS DebugCore, TLAPS

-----------------------------------------------------------------------------
(* The invariant of the control. *)

InProgram == valid_o /\ source = "fetch"

\* A command is at work only while the hart stays halted.
CommandsHalted == state # "halted" \/ resumereq \/ ~dmactive => ~command_busy

\* What is in decode that is not the program's belongs to the command at work, or
\* is flushed by the resume redirect.
WordAtWork ==
    /\ valid_o /\ source # "fetch" => halted \/ redirect_valid
    /\ valid_o /\ source \in Words => command_state = "wait_retire"
    /\ active /\ active_progbuf => command_state = "wait_retire"

\* Nothing of the program is left in a halted hart, and outside the execution of a
\* word the units are at rest, unless a word was reported as failed too early.
HaltedPipe ==
    /\ halted => ~InProgram /\ ~jump_busy
    /\ halted /\ ~failed_early =>
          /\ command_state # "wait_retire" =>
                /\ unit = "idle"
                /\ valid_o => command_state = "taken" /\ source = "transfer"
          /\ command_request \/ command_state = "taken" => ~wb_valid

\* The instruction of a step is counted when it leaves decode.
Stepping ==
    /\ state = "step_issue" => executed = 0 /\ ~InProgram /\ ~jump_busy
    /\ state = "step_wait" =>
          IF valid_o THEN InProgram /\ executed = 0 /\ ~jump_busy ELSE executed = 1

\* The redirect follows a resume at once, when nothing of the program is in decode.
Resuming ==
    /\ redirect_valid => /\ state \in {"running", "step_issue"} /\ req_ack
                         /\ ~InProgram /\ ~jump_busy
    /\ resumereq /\ ~halted => redirect_valid

ControlInv ==
    CommandsHalted /\ WordAtWork /\ HaltedPipe /\ Stepping /\ Resuming /\ StepsOne

-----------------------------------------------------------------------------
(* Lemmas about the constants and the choices. *)

\* The successor of an address is an address, whatever N is.
LEMMA SuccIsAddr == ASSUME NEW a \in Addr PROVE Succ(a) \in Addr
  BY AddressAssumption DEF Succ, Addr

\* N, which stands for no request and for no program counter, is not an address.
LEMMA NotAnAddress == NoRequest \notin Addr /\ NoPc \notin Addr /\ NoRequest = NoPc
  BY AddressAssumption DEF NoRequest, NoPc, Addr

\* Registers are reset to addresses.
LEMMA ZeroIsAddr == 0 \in Addr /\ ResetAddress \in Addr
  BY AddressAssumption DEF Addr

\* The program goes on at an address.
LEMMA GoesOnIsAddr == ASSUME TypeOK PROVE GoesOn \in Addr
  BY DEF GoesOn, TypeOK

\* What an instruction may do, whose it is.
EffectOf(e) ==
    /\ e.pc \in Addr /\ e.step \in BOOLEAN /\ e.unit \in {"idle", "access", "last"}
    /\ e.does \in {"plain", "jump", "csr", "ebreak", "exception", "dpc", "dcsr"}
    /\ e.does \in {"jump", "csr", "ebreak"} => source = "fetch"
    /\ e.does = "ebreak" => ebreakm
    /\ e.does = "exception" => source = "insn"
    /\ e.does = "dpc" => source = "dpc"
    /\ e.does = "dcsr" => source = "dcsr"
    /\ e.unit # "idle" => e.does = "plain" /\ source \in {"fetch", "insn"}

\* The effects are those of the instruction in decode (rtl/decode.py).
LEMMA EffectFacts == ASSUME NEW e \in Effects PROVE EffectOf(e)
<1> USE ZeroIsAddr, DebugAssumption
<1>1. \A un \in {"idle", "access", "last"} :
          source \in {"fetch", "insn"} => EffectOf(Effect("plain", 0, FALSE, un))
  BY DEF EffectOf, Effect
<1>2. CASE source = "fetch"
  <2>1. Effects = Computes \cup {Effect("jump", pc, FALSE, "idle") : pc \in Targets}
                     \cup {Effect("csr", 0, FALSE, "idle")}
                     \cup {Effect("ebreak", 0, FALSE, "idle") : t \in {TRUE} \cap {ebreakm}}
    BY <1>2, Zenon DEF Effects
  <2>2. CASE e \in Computes
    BY <1>1, <1>2, <2>2 DEF Computes
  <2>3. CASE \E pc \in Targets : e = Effect("jump", pc, FALSE, "idle")
    BY <1>2, <2>3 DEF EffectOf, Effect
  <2>4. CASE e = Effect("csr", 0, FALSE, "idle")
    BY <1>2, <2>4 DEF EffectOf, Effect
  <2>5. CASE e = Effect("ebreak", 0, FALSE, "idle") /\ ebreakm
    BY <1>2, <2>5 DEF EffectOf, Effect
  <2> QED BY <2>1, <2>2, <2>3, <2>4, <2>5
<1>3. CASE source = "insn"
  <2>1. Effects = Computes \cup {Effect("exception", 0, FALSE, "idle")}
    BY <1>3, Zenon DEF Effects
  <2>2. CASE e \in Computes
    BY <1>1, <1>3, <2>2 DEF Computes
  <2>3. CASE e = Effect("exception", 0, FALSE, "idle")
    BY <1>3, <2>3 DEF EffectOf, Effect
  <2> QED BY <2>1, <2>2, <2>3
<1>4. CASE source = "dpc"
  <2>1. Effects = {Effect("dpc", pc, FALSE, "idle") : pc \in Dpcs}
    <3>1. ~(source = "fetch") /\ ~(source = "insn")
      BY <1>4
    <3> QED BY <1>4, <3>1, Zenon DEF Effects
  <2>2. PICK pc \in Dpcs : e = Effect("dpc", pc, FALSE, "idle")
    BY <2>1
  <2> QED BY <1>4, <2>2 DEF EffectOf, Effect
<1>5. CASE source = "dcsr"
  <2>1. Effects = {Effect("dcsr", 0, st, "idle") : st \in BOOLEAN}
    <3>1. ~(source = "fetch") /\ ~(source = "insn") /\ ~(source = "dpc")
      BY <1>5
    <3> QED BY <1>5, <3>1, Zenon DEF Effects
  <2> QED BY <1>5, <2>1 DEF EffectOf, Effect
<1>6. CASE ~(source = "fetch") /\ ~(source = "insn") /\ ~(source = "dpc") /\ ~(source = "dcsr")
  <2>1. Effects = {Plain}
    BY <1>6, Zenon DEF Effects
  <2>2. e = Effect("plain", 0, FALSE, "idle")
    BY <2>1 DEF Plain
  <2> QED BY <1>6, <2>2 DEF EffectOf, Effect
<1> QED BY <1>2, <1>3, <1>4, <1>5, <1>6

\* What the environment may choose in a clock.
ChoiceOf(c) ==
    /\ c.pc \in Addr /\ c.step \in BOOLEAN /\ c.unit \in {"idle", "access", "last"}
    /\ c.hazard \in BOOLEAN /\ c.error \in BOOLEAN /\ c.wb \in BOOLEAN
    /\ unit = "access" => c.unit # "idle"
    /\ unit = "last" => c.unit = "idle"
    /\ c.hazard => wb_valid /\ c.does = "plain"
    /\ c.unit # "idle" =>
          unit = "access" \/ (valid_o /\ source \in {"fetch", "insn"} /\ ~jump_busy)
    /\ unit = "idle" /\ valid_o /\ ~jump_busy /\ ~c.hazard => EffectOf(c)

\* The choices are those of the state of decode and execute.
LEMMA ChoiceFacts == ASSUME TypeOK, NEW c \in Choices PROVE ChoiceOf(c)
<1> USE ZeroIsAddr DEF TypeOK
<1>1. CASE unit = "access"
  <2>1. Choices = {Choice(Effect("none", 0, FALSE, "access"), FALSE, FALSE, FALSE)}
                  \cup {Choice(Effect("none", 0, FALSE, "last"), FALSE, e, FALSE) :
                          e \in {FALSE, active_progbuf}}
    BY <1>1 DEF Choices
  <2>2. PICK un \in {"access", "last"}, r \in BOOLEAN :
          c = Choice(Effect("none", 0, FALSE, un), FALSE, r, FALSE)
    BY <2>1 DEF AdapterTypeOK
  <2> QED BY <1>1, <2>2 DEF Choice, Effect, ChoiceOf
<1>2. CASE ~(unit = "access") /\ (~valid_o \/ unit = "last" \/ jump_busy)
  <2>1. Choices = {Choice(Plain, FALSE, FALSE, wb) :
                      wb \in {w \in WriteBack : w => unit = "last"}}
    BY <1>2 DEF Choices
  <2>2. PICK w \in BOOLEAN : c = Choice(Plain, FALSE, FALSE, w)
    BY <2>1 DEF WriteBack
  <2> QED BY <1>2, <2>2 DEF Choice, Effect, Plain, ChoiceOf
<1>3. CASE unit = "idle" /\ valid_o /\ ~jump_busy
  <2>1. Choices = {Choice(p[1], FALSE, FALSE, p[2]) : p \in Effects \X WriteBack}
                  \cup {Choice(Plain, h, FALSE, FALSE) : h \in {TRUE} \cap {wb_valid}}
    BY <1>3 DEF Choices
  <2>2. CASE c \in {Choice(p[1], FALSE, FALSE, p[2]) : p \in Effects \X WriteBack}
    <3>1. PICK e \in Effects, w \in BOOLEAN : c = Choice(e, FALSE, FALSE, w)
      BY <2>2 DEF WriteBack
    <3>2. EffectOf(e)
      BY EffectFacts
    <3>3. /\ c.does = e.does /\ c.pc = e.pc /\ c.step = e.step /\ c.unit = e.unit
          /\ c.hazard = FALSE /\ c.error = FALSE /\ c.wb = w
      BY <3>1 DEF Choice
    <3>4. EffectOf(c)
      BY <3>2, <3>3 DEF EffectOf
    <3> QED BY <1>3, <3>3, <3>4 DEF ChoiceOf, EffectOf
  <2>3. CASE wb_valid /\ c = Choice(Plain, TRUE, FALSE, FALSE)
    BY <1>3, <2>3 DEF Choice, Effect, Plain, ChoiceOf
  <2> QED BY <2>1, <2>2, <2>3
<1> QED BY <1>1, <1>2, <1>3

-----------------------------------------------------------------------------
(* Lemmas about the parts of a clock. *)

\* A clock edge, with what the bus and the units do in it.
Edge(c, ack) == ack \in BOOLEAN /\ MayAnswer(ack) /\ c \in Choices /\ Clock(c, ack)

\* What the debugger may do in this state.
AccessOf(access) ==
    /\ access.op \in {"none", "read", "write", "dmcontrol", "command", "abstractcs",
                     "abstractauto"}
    /\ access.op # "none" => ~resumereq
    /\ access.op \notin {"none", "dmcontrol"} => halted
    /\ access.op = "dmcontrol" =>
          /\ access.dmactive \in BOOLEAN /\ access.haltreq \in BOOLEAN
          /\ access.resumereq \in BOOLEAN /\ access.ndmreset = FALSE
          /\ access.ackhavereset \in BOOLEAN
          /\ ~access.dmactive => state = "halt_pending"
    /\ access.op = "write" =>
          \/ access.adr = "data" /\ access.value \in Data
          \/ access.adr \in {"progbuf0", "progbuf1"} /\ access.value \in Words
    /\ access.op = "command" => access.command \in Commands
    /\ access.op = "abstractauto" => access.auto \in SUBSET Buffers

\* The debugger's accesses are those of AccessAssumption, at the times of Offered.
LEMMA AccessFacts == ASSUME NEW access \in Offered PROVE AccessOf(access)
<1>1. CASE access = NoAccess
  BY <1>1 DEF NoAccess, AccessOf
<1>2. CASE ~(access = NoAccess)
  <2>1. access \in Accesses /\ ~resumereq
    BY <1>2 DEF Offered
  <2>2. CASE access = Release
    <3>1. state = "halt_pending"
      BY <1>2, <2>2 DEF Offered
    <3> QED BY <2>1, <2>2, <3>1 DEF Release, Control, AccessOf
  <2>3. CASE access # Release
    <3>1. CASE access \in ControlWrites
      BY <2>1, <2>3, <3>1, AccessAssumption
      DEF BufferReads, DataWrites, ProgbufWrites, CommandWrites, ErrorWrites, AutoWrites,
          ControlWrites, AccessOf
    <3>2. CASE access \notin ControlWrites
      <4>1. access.op # "dmcontrol"
        BY <2>1, <2>3, <3>2, AccessAssumption
        DEF BufferReads, DataWrites, ProgbufWrites, CommandWrites, ErrorWrites, AutoWrites
      <4>2. halted
        BY <1>2, <4>1 DEF Offered
      <4> QED BY <2>1, <2>3, <3>2, <4>1, <4>2, AccessAssumption
          DEF BufferReads, DataWrites, ProgbufWrites, CommandWrites, ErrorWrites, AutoWrites,
              AccessOf
    <3> QED BY <3>1, <3>2
  <2> QED BY <2>2, <2>3
<1> QED BY <1>1, <1>2

\* What becomes of a command, state by state (rtl/debug/abstract_command.py).
LEMMA NextStates ==
  ASSUME NEW completion_
  PROVE  /\ command_state = "none" =>
              NextState(completion_) = IF command_request THEN "taken" ELSE "none"
         /\ command_state = "taken" =>
              NextState(completion_) \in {"regvalid", "exec", "none"}
         /\ command_state = "regvalid" => NextState(completion_) \in {"exec", "none"}
         /\ command_state \in {"exec", "exec2"} =>
              NextState(completion_) =
                  IF completion_.terminated THEN "none"
                  ELSE IF completion_.accepted THEN "wait_retire" ELSE command_state
         /\ command_state = "wait_retire" =>
              NextState(completion_) =
                  IF completion_.exception THEN "failed"
                  ELSE IF completion_.complete THEN (IF issued_last THEN "none" ELSE "exec2")
                  ELSE "wait_retire"
         /\ command_state = "failed" => NextState(completion_) = "none"
  BY DEF NextState, AfterTransfer

-----------------------------------------------------------------------------
(* Types. *)

\* After reset every register is in its range.
LEMMA InitType == Init => TypeOK
<1> SUFFICES ASSUME Init PROVE TypeOK
  OBVIOUS
<1> USE ZeroIsAddr
<1>1. FetchTypeOK
  BY DEF Init, FetchInit, FetchTypeOK
<1>2. AdapterTypeOK /\ HartTypeOK /\ CommandTypeOK
  BY DEF Init, AdapterInit, AdapterTypeOK, HartInit, HartTypeOK, States, CommandInit,
         CommandTypeOK, CommandStates
<1>3. DmiTypeOK
  <2>1. NoCommand \in Commands
    BY DEF NoCommand, Commands
  <2>2. {} \in SUBSET Buffers /\ {} \in SUBSET (0 .. 2)
    OBVIOUS
  <2> QED BY <2>1, <2>2 DEF Init, DmiInit, DmiTypeOK, None
<1>4. /\ config \in Configs /\ pend \in Addr \cup {NoRequest}
      /\ valid_o \in BOOLEAN /\ source \in Sources /\ mepc_o \in Addr
      /\ jump_r \in BOOLEAN /\ jump_dest_r \in Addr /\ jump_busy \in BOOLEAN
  BY DEF Init, Sources
<1>5. unit \in {"idle", "access", "last"} /\ bus_error_o \in BOOLEAN /\ wb_valid \in BOOLEAN
  BY DEF Init
<1>6. expected \in Addr /\ instead \in Addr \cup {NoPc} /\ failed_early \in BOOLEAN
  BY DEF Init
<1>7. executed \in 0 .. 2
  <2>1. executed = 0
    BY DEF Init
  <2> QED BY <2>1
<1> QED BY <1>1, <1>2, <1>3, <1>4, <1>5, <1>6, <1>7 DEF TypeOK

\* The inputs of the fetch stage in a clock.
LEMMA FetchInputs ==
  ASSUME TypeOK, NEW c, NEW ack, Edge(c, ack)
  PROVE  /\ stall_i(c) \in BOOLEAN /\ out_jump_o(c) \in BOOLEAN
         /\ out_jump_dest_o(c) \in Addr
         /\ en_o(stall_i(c), out_jump_o(c)) \in BOOLEAN
         /\ bus_stall_i(en_o(stall_i(c), out_jump_o(c)), ack) \in BOOLEAN
         /\ ack => pend \in Addr
<1>1. ChoiceOf(c)
  BY ChoiceFacts DEF Edge
<1>2. jump_dest_o(c) \in Addr
  <2>1. jump_dest(c) \in Addr
    BY <1>1, ZeroIsAddr DEF jump_dest, ChoiceOf
  <2> QED BY <2>1 DEF jump_dest_o, TypeOK
<1>3. out_jump_dest_o(c) \in Addr
  BY <1>2 DEF out_jump_dest_o, TypeOK, HartTypeOK, redirect_valid
<1>4. ack => pend \in Addr
  BY DEF Edge, MayAnswer, TypeOK
<1>5. stall_i(c) \in BOOLEAN
  BY DEF stall_i, decode_busy, allow_fetch, redirect_valid, issue_valid, TypeOK
<1>6. out_jump_o(c) \in BOOLEAN
  BY DEF out_jump_o, jump_o, jumps, taken, redirect_valid, TypeOK
<1> QED BY <1>3, <1>4, <1>5, <1>6 DEF bus_stall_i, en_o, new_jump

\* The fetch stage keeps its registers in their ranges (rtl/fetch.py).
LEMMA FetchType ==
  ASSUME FetchTypeOK, NEW stall \in BOOLEAN, NEW j \in BOOLEAN, NEW d \in Addr,
         NEW bs \in BOOLEAN, NEW ack \in BOOLEAN, NEW rd, ack => rd \in Addr,
         FetchClock(stall, j, d, bs, ack, rd)
  PROVE  FetchTypeOK'
<1>1. outstanding' \in BOOLEAN
  BY DEF FetchClock, TrackOutstanding, FetchTypeOK, en_o, new_jump
<1>2. CASE LeaveReset
  BY <1>1, <1>2 DEF LeaveReset, FetchTypeOK
<1>3. CASE Redirect(j, d, ack)
  BY <1>1, <1>3 DEF Redirect, FetchTypeOK
<1>4. CASE AdvanceIp(stall, j, bs, ack)
  <2>1. ip' \in Addr /\ jump_taken' \in BOOLEAN /\ run' \in BOOLEAN
    BY <1>4, SuccIsAddr DEF AdvanceIp, FetchTypeOK
  <2>2. CASE Park(stall, ack, rd)
    <3>1. busy' \in BOOLEAN /\ valid' \in BOOLEAN /\ current_word' \in [0 .. 1 -> Addr]
      BY <2>2 DEF Park, FetchTypeOK
    <3>2. current_ip' \in [0 .. 2 -> Addr]
      BY <2>2 DEF Park, FetchTypeOK
    <3> QED BY <1>1, <2>1, <3>1, <3>2 DEF FetchTypeOK
  <2>3. CASE Unpark(stall)
    <3>1. busy' \in BOOLEAN /\ valid' \in BOOLEAN /\ current_word' \in [0 .. 1 -> Addr]
      <4>1. current_word[1] \in Addr
        BY DEF FetchTypeOK
      <4> QED BY <2>3, <4>1 DEF Unpark, FetchTypeOK
    <3>2. current_ip' \in [0 .. 2 -> Addr]
      <4>1. current_ip[1] \in Addr
        BY DEF FetchTypeOK
      <4> QED BY <2>3, <4>1 DEF Unpark, FetchTypeOK
    <3> QED BY <1>1, <2>1, <3>1, <3>2 DEF FetchTypeOK
  <2>4. CASE Receive(stall, j, bs, ack, rd)
    <3>1. current_ip' \in [0 .. 2 -> Addr]
      BY <2>4 DEF Receive, RequestIp, FetchTypeOK
    <3>2. current_word' \in [0 .. 1 -> Addr] /\ busy' \in BOOLEAN /\ valid' \in BOOLEAN
      BY <2>4 DEF Receive, FetchTypeOK
    <3> QED BY <1>1, <2>1, <3>1, <3>2 DEF FetchTypeOK
  <2>5. CASE Bubble(stall, j, bs, ack)
    BY <1>1, <2>1, <2>5 DEF Bubble, RequestIp, FetchTypeOK
  <2> QED BY <1>2, <1>3, <1>4, <2>2, <2>3, <2>4, <2>5 DEF FetchClock, LeaveReset, AdvanceIp, Redirect
<1> QED BY <1>2, <1>3, <1>4 DEF FetchClock

\* The effect of one CSR write.
LEMMA OneWrite ==
  ASSUME NEW x, CsrClock({x})
  PROVE  /\ x.csr = "dpc" => dpc' = x.pc
         /\ x.csr # "dpc" => dpc' = dpc
         /\ x.csr = "dcsr" => step' = x.step /\ ebreakm' = x.ebreakm
         /\ x.csr # "dcsr" => UNCHANGED <<step, ebreakm>>
<1>1. (CHOOSE w \in {x} : TRUE) = x /\ {x} # {}
  OBVIOUS
<1>2. (\E w \in {x} : w.csr = "dpc") <=> x.csr = "dpc"
  OBVIOUS
<1>3. (\E w \in {x} : w.csr = "dcsr") <=> x.csr = "dcsr"
  OBVIOUS
<1>4. (\E w \in {x} : step' = w.step /\ ebreakm' = w.ebreakm)
          <=> step' = x.step /\ ebreakm' = x.ebreakm
  OBVIOUS
<1> QED BY <1>1, <1>2, <1>3, <1>4 DEF CsrClock

\* What an instruction writes to the debug CSRs (rtl/debug/debug_csrs.py:73-83).
LEMMA CsrFacts ==
  ASSUME TypeOK, NEW c, ChoiceOf(c), CsrClock(csr_writes(c))
  PROVE  /\ taken(c) /\ c.does = "dpc" => dpc' = c.pc
         /\ taken(c) /\ c.does \in {"dcsr", "csr"} => dpc' = dpc
         /\ ~(taken(c) /\ c.does \in {"dpc", "dcsr", "csr"}) =>
                dpc' = IF update = NoUpdate THEN dpc ELSE update.dpc
         /\ dpc' \in Addr /\ step' \in BOOLEAN /\ ebreakm' \in BOOLEAN
<1>1. CASE taken(c) /\ c.does = "dpc"
  <2>1. csr_writes(c) = {[csr |-> "dpc", pc |-> c.pc]}
    BY <1>1 DEF csr_writes
  <2>2. dpc' = c.pc /\ UNCHANGED <<step, ebreakm>>
    <3> DEFINE x == [csr |-> "dpc", pc |-> c.pc]
    <3>1. CsrClock({x})
      BY <2>1
    <3>2. x.csr = "dpc" /\ x.pc = c.pc
      OBVIOUS
    <3> HIDE DEF x
    <3> QED BY <3>1, <3>2, OneWrite
  <2> QED BY <1>1, <2>2 DEF ChoiceOf, TypeOK, HartTypeOK
<1>2. CASE taken(c) /\ c.does = "dcsr"
  <2>1. csr_writes(c) = {[csr |-> "dcsr", step |-> c.step, ebreakm |-> TRUE]}
    BY <1>2 DEF csr_writes
  <2>2. dpc' = dpc /\ step' = c.step /\ ebreakm' = TRUE
    <3> DEFINE x == [csr |-> "dcsr", step |-> c.step, ebreakm |-> TRUE]
    <3>1. CsrClock({x})
      BY <2>1
    <3>2. x.csr = "dcsr" /\ x.step = c.step /\ x.ebreakm = TRUE
      OBVIOUS
    <3> HIDE DEF x
    <3> QED BY <3>1, <3>2, OneWrite
  <2> QED BY <1>2, <2>2 DEF ChoiceOf, TypeOK, HartTypeOK
<1>3. CASE taken(c) /\ c.does = "csr"
  <2>1. csr_writes(c) = {[csr |-> "other"]}
    BY <1>3 DEF csr_writes
  <2>2. dpc' = dpc /\ UNCHANGED <<step, ebreakm>>
    <3> DEFINE x == [csr |-> "other"]
    <3>1. CsrClock({x})
      BY <2>1
    <3>2. x.csr = "other"
      OBVIOUS
    <3> HIDE DEF x
    <3> QED BY <3>1, <3>2, OneWrite
  <2> QED BY <1>3, <2>2 DEF ChoiceOf, TypeOK, HartTypeOK
<1>4. CASE ~(taken(c) /\ c.does \in {"dpc", "dcsr", "csr"})
  <2>1. csr_writes(c) = {}
    BY <1>4 DEF csr_writes
  <2>2. dpc' = (IF update = NoUpdate THEN dpc ELSE update.dpc) /\ UNCHANGED <<step, ebreakm>>
    BY <2>1 DEF CsrClock
  <2>3. update # NoUpdate => update.dpc \in Addr
    BY DEF TypeOK, HartTypeOK
  <2> QED BY <1>4, <2>2, <2>3 DEF TypeOK, HartTypeOK
<1> QED BY <1>1, <1>2, <1>3, <1>4

\* The parts of a clock.
LEMMA Parts ==
  ASSUME NEW c, NEW ack, Edge(c, ack)
  PROVE  /\ BusClock(en_o(stall_i(c), out_jump_o(c)), ack)
         /\ FetchClock(stall_i(c), out_jump_o(c), out_jump_dest_o(c),
                       bus_stall_i(en_o(stall_i(c), out_jump_o(c)), ack), ack, pend)
         /\ DecodeClock(c) /\ ExecuteClock(c)
         /\ NextPc(accepted(c), progbuf_source, Succ(current_ip[0]), redirect_pc,
                   jump_o(c), jump_dest_o(c))
         /\ TrackActive(accepted(c), progbuf_source, pipeline_empty(c), progbuf_exception(c))
         /\ StateClock(events(c)) /\ CsrClock(csr_writes(c))
         /\ CommandClock(completion(c), 0)
         /\ Expect(c) /\ CountStep(c) /\ NoteFailure(c) /\ UNCHANGED config
         /\ \E access \in Offered : DmiClock(access, FALSE)
  BY DEF Edge, Clock, AdapterClock, HartClock

\* The next program counter is one, and so is what the adapter keeps.
LEMMA AdapterType ==
  ASSUME TypeOK, NEW c, NEW ack, Edge(c, ack)
  PROVE  AdapterTypeOK' /\ next_pc(jump_o(c), jump_dest_o(c)) \in Addr
<1>1. ChoiceOf(c)
  BY ChoiceFacts DEF Edge
<1>2. jump_dest_o(c) \in Addr
  <2>1. jump_dest(c) \in Addr
    BY <1>1, ZeroIsAddr DEF jump_dest, ChoiceOf
  <2> QED BY <2>1 DEF jump_dest_o, TypeOK
<1>3. next_pc(jump_o(c), jump_dest_o(c)) \in Addr
  BY <1>2 DEF next_pc, TypeOK, AdapterTypeOK
<1>4. Succ(current_ip[0]) \in Addr
  BY SuccIsAddr DEF TypeOK, FetchTypeOK
<1>5. architectural_next_pc' \in Addr
  <2>1. architectural_next_pc' \in {redirect_pc, Succ(current_ip[0]),
                                    next_pc(jump_o(c), jump_dest_o(c))}
    BY Parts DEF NextPc
  <2>2. CASE redirect_pc \in Addr
    BY <1>3, <1>4, <2>1, <2>2
  <2>3. CASE ~(redirect_pc \in Addr)
    <3>1. architectural_next_pc' \in {Succ(current_ip[0]), next_pc(jump_o(c), jump_dest_o(c))}
      BY <2>3, Parts DEF NextPc
    <3> QED BY <1>3, <1>4, <3>1
  <2> QED BY <2>2, <2>3
<1>6. active' \in BOOLEAN /\ active_progbuf' \in BOOLEAN
  <2>1. progbuf_source \in BOOLEAN
    BY DEF progbuf_source, issue_valid
  <2> QED BY <2>1, Parts DEF TrackActive, TypeOK, AdapterTypeOK
<1> QED BY <1>3, <1>5, <1>6 DEF AdapterTypeOK

\* The hart control keeps its registers in their ranges.
LEMMA HartType ==
  ASSUME TypeOK, NEW c, NEW ack, Edge(c, ack)
  PROVE  HartTypeOK'
<1>1. ChoiceOf(c)
  BY ChoiceFacts DEF Edge
<1>2. dpc' \in Addr /\ step' \in BOOLEAN /\ ebreakm' \in BOOLEAN
  BY <1>1, Parts, CsrFacts
<1>3. events(c).next_pc \in Addr /\ events(c).ebreak_pc \in Addr
  BY AdapterType DEF events, TypeOK
<1>4. state' \in States /\ req_ack' \in BOOLEAN /\ redirect_pc' \in Addr \cup {NoPc}
  BY Parts DEF StateClock, AbandonHalt, EnterByEbreak, RequestHalt, EnterByRequest, Resume,
     IssueStep, EnterByStep, Stay, Silent, Enter, States, TypeOK, HartTypeOK
<1>5. update' \in [dpc : Addr, cause : {Ebreak, HaltRequest, Stepped}] \cup {NoUpdate}
  <2>1. \/ update' = NoUpdate
        \/ \E pc \in {events(c).next_pc, events(c).ebreak_pc},
              why \in {Ebreak, HaltRequest, Stepped} : update' = [dpc |-> pc, cause |-> why]
    BY Parts
    DEF StateClock, AbandonHalt, EnterByEbreak, RequestHalt, EnterByRequest, Resume,
        IssueStep, EnterByStep, Stay, Silent, Enter
  <2> QED BY <1>3, <2>1
<1> QED BY <1>2, <1>4, <1>5 DEF HartTypeOK

\* The sequencer keeps its registers in their ranges.
LEMMA CommandType ==
  ASSUME TypeOK, NEW c, NEW ack, Edge(c, ack)
  PROVE  CommandTypeOK'
<1>1. NextState(completion(c)) \in CommandStates
  BY NextStates DEF TypeOK, CommandTypeOK, CommandStates
<1>2. issue_last \in BOOLEAN /\ 0 \in Data
  BY DEF issue_last, Data
<1> QED BY <1>1, <1>2, Parts DEF CommandClock, CommandTypeOK, TypeOK, CommandStates

\* The DMI registers keep their ranges.
LEMMA DmiType ==
  ASSUME TypeOK, NEW access \in Offered, DmiClock(access, FALSE)
  PROVE  DmiTypeOK'
<1> USE DEF TypeOK, DmiTypeOK
<1>1. AccessOf(access)
  BY AccessFacts
<1>2. CASE Inactive(access)
  <2>1. NoCommand \in Commands
    BY DEF NoCommand, Commands
  <2>2. {} \in SUBSET Buffers /\ {} \in SUBSET (0 .. 2)
    OBVIOUS
  <2> QED BY <1>1, <1>2, <2>1, <2>2 DEF Inactive, None, AccessOf
<1>3. CASE Active(access, FALSE)
  <2>1. dmactive' \in BOOLEAN
    BY <1>3 DEF Active
  <2>2. haltreq' \in BOOLEAN /\ resumereq' \in BOOLEAN /\ resumeack' \in BOOLEAN
    BY <1>1, <1>3 DEF Active, RequestClock, AccessOf
  <2>3. ndmreset' \in BOOLEAN /\ havereset' \in BOOLEAN
    BY <1>1, <1>3 DEF Active, ResetClock, AccessOf
  <2>4. abstract_command_new' \in BOOLEAN /\ abstract_busy_error' \in BOOLEAN
    BY <1>3 DEF Active, CommandClocked, BusyErrorClock
  <2>5. cmderr' \in SUBSET (0 .. 2)
    <3>1. /\ HartRunning \in SUBSET (0 .. 2) /\ NotSupported \in SUBSET (0 .. 2)
          /\ Busy \in SUBSET (0 .. 2) /\ Exception \in SUBSET (0 .. 2)
      BY DEF HartRunning, NotSupported, Busy, Exception
    <3>2. Reported \in SUBSET (0 .. 2) /\ cmderr \ access.clear \in SUBSET (0 .. 2)
      BY <3>1 DEF Reported
    <3> QED BY <1>3, <3>1, <3>2 DEF Active, CmderrClock
  <2>6. command' \in Commands
    BY <1>1, <1>3 DEF Active, CommandClocked, Asks, AccessOf
  <2>7. auto' \in SUBSET Buffers
    BY <1>1, <1>3 DEF Active, BufferClock, AccessOf
  <2>8. data_regs' \in Data
    BY <1>1, <1>3 DEF Active, BufferClock, Writes, AccessOf, CommandTypeOK
  <2>9. progbuf' \in [0 .. 1 -> Words]
    BY <1>1, <1>3 DEF Active, BufferClock, Writes, AccessOf
  <2> QED BY <2>1, <2>2, <2>3, <2>4, <2>5, <2>6, <2>7, <2>8, <2>9
<1> QED BY <1>2, <1>3 DEF DmiClock

\* Decode, execute and the history stay in their ranges.
LEMMA CoreType ==
  ASSUME TypeOK, NEW c, NEW ack, Edge(c, ack)
  PROVE  /\ valid_o' \in BOOLEAN /\ source' \in Sources /\ mepc_o' \in Addr
         /\ jump_r' \in BOOLEAN /\ jump_dest_r' \in Addr /\ jump_busy' \in BOOLEAN
         /\ unit' \in {"idle", "access", "last"}
         /\ bus_error_o' \in BOOLEAN /\ wb_valid' \in BOOLEAN
         /\ expected' \in Addr /\ instead' \in Addr \cup {NoPc}
         /\ executed' \in 0 .. 2 /\ failed_early' \in BOOLEAN
<1>1. ChoiceOf(c)
  BY ChoiceFacts DEF Edge
<1>2. valid_o' \in BOOLEAN /\ source' \in Sources /\ mepc_o' \in Addr
  <2>1. issue_word \in Words /\ current_ip[0] \in Addr
    BY DEF issue_word, TypeOK, DmiTypeOK, FetchTypeOK
  <2> QED BY <2>1, Parts DEF DecodeClock, TypeOK, Sources
<1>3. jump_r' \in BOOLEAN /\ jump_dest_r' \in Addr /\ jump_busy' \in BOOLEAN
  BY <1>1, Parts, ZeroIsAddr DEF ExecuteClock, jump_dest, jumps, ChoiceOf, TypeOK
<1>4. unit' \in {"idle", "access", "last"} /\ bus_error_o' \in BOOLEAN /\ wb_valid' \in BOOLEAN
  BY <1>1, Parts DEF ExecuteClock, ChoiceOf, TypeOK
<1>5. expected' \in Addr /\ instead' \in Addr \cup {NoPc}
  <2>1. Expect(c) /\ c.pc \in Addr /\ Succ(mepc_o) \in Addr
    BY <1>1, Parts, SuccIsAddr DEF ChoiceOf, TypeOK
  <2>2. update # NoUpdate => update.dpc \in Addr
    BY DEF TypeOK, HartTypeOK
  <2>3. GoesOn \in Addr
    BY GoesOnIsAddr
  <2> QED BY <2>1, <2>2, <2>3 DEF Expect, TypeOK
<1>6. executed' \in 0 .. 2 /\ failed_early' \in BOOLEAN
  <2>1. executed' \in {0, executed} \/ (executed < 2 /\ executed' = executed + 1)
    BY Parts DEF CountStep
  <2>2. executed' \in 0 .. 2
    BY <2>1 DEF TypeOK
  <2>3. failed_early' \in BOOLEAN
    BY Parts DEF NoteFailure
  <2> QED BY <2>2, <2>3
<1> QED BY <1>2, <1>3, <1>4, <1>5, <1>6

\* A clock edge keeps every register in its range.
LEMMA StepType == TypeOK /\ [Next]_vars => TypeOK'
<1> SUFFICES ASSUME TypeOK, [Next]_vars PROVE TypeOK'
  OBVIOUS
<1>1. CASE UNCHANGED vars
  BY <1>1 DEF vars, fetchVars, coreVars, adapterVars, hartVars, commandVars, dmiVars, TypeOK,
     FetchTypeOK, AdapterTypeOK, HartTypeOK, CommandTypeOK, DmiTypeOK
<1>2. CASE Next
  <2>1. PICK ack \in BOOLEAN, c \in Choices : Edge(c, ack)
    BY <1>2 DEF Next, Edge
  <2>2. FetchTypeOK'
    <3> DEFINE bs == bus_stall_i(en_o(stall_i(c), out_jump_o(c)), ack)
    <3>1. /\ stall_i(c) \in BOOLEAN /\ out_jump_o(c) \in BOOLEAN /\ out_jump_dest_o(c) \in Addr
          /\ bs \in BOOLEAN /\ ack \in BOOLEAN /\ (ack => pend \in Addr)
      BY <2>1, FetchInputs DEF Edge
    <3>2. FetchClock(stall_i(c), out_jump_o(c), out_jump_dest_o(c), bs, ack, pend)
      BY <2>1, Parts
    <3> HIDE DEF bs
    <3> QED BY <3>1, <3>2, FetchType DEF TypeOK
  <2>3. AdapterTypeOK' /\ HartTypeOK' /\ CommandTypeOK'
    BY <2>1, AdapterType, HartType, CommandType
  <2>4. DmiTypeOK'
    BY <2>1, Parts, DmiType
  <2>5. config' \in Configs /\ pend' \in Addr \cup {NoRequest}
    BY <2>1, Parts DEF BusClock, TypeOK, FetchTypeOK
  <2> QED BY <2>1, <2>2, <2>3, <2>4, <2>5, CoreType DEF TypeOK
<1> QED BY <1>1, <1>2

\* Every register of the core and of its debug module stays in its range.
THEOREM TypeCorrect == Spec => []TypeOK
<1>1. Init => TypeOK
  BY InitType
<1>2. TypeOK /\ [Next]_vars => TypeOK'
  BY StepType
<1> QED BY <1>1, <1>2, PTL DEF Spec

-----------------------------------------------------------------------------
(* What a clock does to the control. *)

\* The transitions of the hart (rtl/debug/hart_debug.py).
LEMMA HartMoves ==
  ASSUME TypeOK, NEW c, NEW ack, Edge(c, ack)
  PROVE  /\ halted /\ ~halted' => resumereq /\ redirect_valid'
         /\ redirect_valid' => /\ halted /\ resumereq /\ redirect_pc' = dpc /\ req_ack'
                              /\ state' \in {"running", "step_issue"}
         /\ ~halted /\ halted' =>
               \/ /\ debug_ebreak(c) /\ ~Abandoned
                  /\ update' = [dpc |-> mepc_o, cause |-> Ebreak]
               \/ /\ state = "halt_pending" /\ pipeline_empty(c)
                  /\ update' = [dpc |-> next_pc(jump_o(c), jump_dest_o(c)),
                                cause |-> HaltRequest]
               \/ /\ state = "step_wait" /\ complete(c) /\ ~active_progbuf
                  /\ update' = [dpc |-> next_pc(jump_o(c), jump_dest_o(c)), cause |-> Stepped]
         /\ update' # NoUpdate => ~halted /\ halted'
         /\ state' = "step_issue" => halted \/ (state = "step_issue" /\ ~(accepted(c) /\ ~progbuf_source))
         /\ state' = "step_wait" => \/ state = "step_issue" /\ accepted(c) /\ ~progbuf_source
                                   \/ state = "step_wait"
         /\ state' = "halt_pending" => (state = "running" /\ haltreq) \/ state = "halt_pending"
         /\ state' = "running" => \/ halted \/ (state = "running" /\ ~haltreq)
                                 \/ (state = "halt_pending" /\ ~dmactive)
         /\ state = "running" /\ haltreq /\ ~debug_ebreak(c) => state' = "halt_pending"
<1> USE Parts
    DEF StateClock, AbandonHalt, EnterByEbreak, RequestHalt, EnterByRequest, Resume,
        IssueStep, EnterByStep, Stay, Silent, Enter, events, AtEbreak, Abandoned, halted
<1>1. ASSUME halted, ~halted' PROVE resumereq /\ redirect_valid'
  BY <1>1, NotAnAddress DEF redirect_valid, TypeOK, HartTypeOK
<1>2. ASSUME redirect_valid'
      PROVE  /\ halted /\ resumereq /\ redirect_pc' = dpc /\ req_ack'
             /\ state' \in {"running", "step_issue"}
  BY <1>2 DEF redirect_valid
<1>3. ASSUME ~halted, halted'
      PROVE  \/ /\ debug_ebreak(c) /\ ~Abandoned
                /\ update' = [dpc |-> mepc_o, cause |-> Ebreak]
             \/ /\ state = "halt_pending" /\ pipeline_empty(c)
                /\ update' = [dpc |-> next_pc(jump_o(c), jump_dest_o(c)), cause |-> HaltRequest]
             \/ /\ state = "step_wait" /\ complete(c) /\ ~active_progbuf
                /\ update' = [dpc |-> next_pc(jump_o(c), jump_dest_o(c)), cause |-> Stepped]
  BY <1>3
<1>4. ASSUME update' # NoUpdate PROVE ~halted /\ halted'
  BY <1>4
<1>5. /\ state' = "step_issue" => halted \/ (state = "step_issue" /\ ~(accepted(c) /\ ~progbuf_source))
      /\ state' = "step_wait" => \/ state = "step_issue" /\ accepted(c) /\ ~progbuf_source
                                \/ state = "step_wait"
  OBVIOUS
<1>6. /\ state' = "halt_pending" => (state = "running" /\ haltreq) \/ state = "halt_pending"
      /\ state' = "running" => \/ halted \/ (state = "running" /\ ~haltreq)
                              \/ (state = "halt_pending" /\ ~dmactive)
      /\ state = "running" /\ haltreq /\ ~debug_ebreak(c) => state' = "halt_pending"
  OBVIOUS
<1> QED BY <1>1, <1>2, <1>3, <1>4, <1>5, <1>6

\* What an access does to the requests (rtl/debug/dmi.py).
LEMMA RequestMoves ==
  ASSUME TypeOK, NEW c, NEW ack, Edge(c, ack)
  PROVE  /\ abstract_command_new' =>
               /\ dmactive
               /\ \/ halted /\ ~resumereq /\ ~command_busy
                  \/ abstract_command_new /\ command_state # "taken"
         /\ resumereq' =>
               /\ dmactive
               /\ \/ halted /\ ~resumereq /\ ~command_busy /\ ~abstract_command_new'
                  \/ resumereq /\ ~req_ack
         /\ ~dmactive' => ~dmactive \/ state = "halt_pending"
         /\ haltreq' => dmactive /\ (haltreq \/ dmactive')
         /\ resumereq /\ haltreq' => haltreq
         /\ resumereq' /\ haltreq' => resumereq
<1>1. PICK access \in Offered : DmiClock(access, FALSE)
  BY Parts
<1>2. AccessOf(access)
  BY AccessFacts
<1>3. CASE Inactive(access)
  BY <1>3 DEF Inactive
<1>4. CASE Active(access, FALSE)
  <2> USE <1>2, <1>4 DEF Active, AccessOf
  <2>1. abstract_command_new' =>
               /\ dmactive
               /\ \/ halted /\ ~resumereq /\ ~command_busy /\ access.op \in {"read", "write", "command"}
                  \/ abstract_command_new /\ command_state # "taken"
    BY DEF CommandClocked, Starts, Repeats, Asks, IsBuffer, halted
  <2>2. resumereq' =>
               /\ dmactive
               /\ \/ halted /\ ~resumereq /\ ~command_busy /\ ~abstract_command_new'
                  \/ resumereq /\ ~req_ack
    BY <2>1 DEF RequestClock, halted, command_busy
  <2>3. ~dmactive' => ~dmactive \/ state = "halt_pending"
    OBVIOUS
  <2>4. /\ haltreq' => dmactive /\ (haltreq \/ dmactive')
        /\ resumereq /\ haltreq' => haltreq
        /\ resumereq' /\ haltreq' => resumereq
    BY DEF RequestClock
  <2> QED BY <2>1, <2>2, <2>3, <2>4
<1> QED BY <1>1, <1>3, <1>4 DEF DmiClock

\* What becomes of the command (rtl/debug/abstract_command.py).
LEMMA CommandMoves ==
  ASSUME TypeOK, NEW c, NEW ack, Edge(c, ack)
  PROVE  /\ ~dmactive => command_state' = "none"
         /\ dmactive /\ ~halted => command_state' = command_state
         /\ dmactive /\ halted => command_state' = NextState(completion(c))
  BY Parts DEF CommandClock, halted

\* Commands stay with a halted hart.
LEMMA StepCommandsHalted ==
  ASSUME TypeOK, ControlInv, NEW c, NEW ack, Edge(c, ack)
  PROVE  CommandsHalted'
<1> USE HartMoves, RequestMoves DEF ControlInv, CommandsHalted
<1>1. ~command_busy => command_state' = "none"
  BY CommandMoves, NextStates DEF command_busy, command_request
<1>2. CASE state # "halted"
  BY <1>1, <1>2 DEF command_busy, halted
<1>3. CASE state = "halted" /\ resumereq
  BY <1>1, <1>3 DEF command_busy, halted
<1>4. CASE state = "halted" /\ ~resumereq
  <2>1. state' = "halted"
    BY <1>4 DEF halted
  <2>2. resumereq' => ~command_busy'
    BY <1>1, <1>4 DEF command_busy
  <2>3. ~dmactive' => ~command_busy'
    BY <1>1, <1>4 DEF command_busy
  <2> QED BY <2>1, <2>2, <2>3
<1> QED BY <1>2, <1>3, <1>4

\* What decode holds after a clock (rtl/decode.py, rtl/debug/pipeline_adapter.py).
LEMMA DecodeMoves ==
  ASSUME TypeOK, NEW c, NEW ack, Edge(c, ack)
  PROVE  /\ valid_o' => \/ register_write /\ source' = "transfer"
                        \/ /\ ~register_write /\ ~kill_i(c) /\ decode_busy(c)
                           /\ UNCHANGED <<source, mepc_o>>
                        \/ /\ ~register_write /\ ~kill_i(c) /\ accepted(c) /\ progbuf_source
                           /\ source' = issue_word /\ issue_word \in Words
                        \/ /\ ~register_write /\ ~kill_i(c) /\ accepted(c) /\ ~progbuf_source
                           /\ source' = "fetch" /\ mepc_o' = current_ip[0]
         /\ accepted(c) /\ ~progbuf_source =>
               /\ ~issue_valid /\ valid /\ allow_fetch /\ ~redirect_pending /\ ~redirect_valid
               /\ ~decode_busy(c)
               /\ ~register_write /\ ~kill_i(c) => InProgram' /\ mepc_o' = current_ip[0]
         /\ decode_busy(c) /\ ~register_write /\ ~kill_i(c) =>
               UNCHANGED <<valid_o, source, mepc_o>>
<1>1. issue_word \in Words /\ "fetch" \notin Words /\ "transfer" \notin Words
  BY DebugAssumption DEF issue_word, TypeOK, DmiTypeOK
<1>2. accepted(c) => ~decode_busy(c)
  BY DEF accepted
<1>3. accepted(c) /\ ~progbuf_source =>
          ~issue_valid /\ valid /\ allow_fetch /\ ~redirect_pending /\ ~redirect_valid
  BY DEF accepted, source_valid
<1> QED BY <1>1, <1>2, <1>3, Parts DEF DecodeClock, accepted, InProgram

\* What execute does belongs to the instruction in decode (rtl/execute.py).
LEMMA TakenMoves ==
  ASSUME TypeOK, NEW c, NEW ack, Edge(c, ack)
  PROVE  /\ taken(c) => valid_o /\ unit = "idle" /\ ~jump_busy /\ EffectOf(c)
         /\ valid_o => (taken(c) <=> ~decode_busy(c))
         /\ debug_ebreak(c) => taken(c) /\ InProgram /\ c.does = "ebreak" /\ c.unit = "idle"
         /\ jumps(c) => taken(c) /\ InProgram /\ c.unit = "idle"
         /\ jump_busy' => jumps(c)
         /\ ~taken(c) /\ unit = "idle" => unit' = "idle"
         /\ taken(c) => unit' = c.unit
         /\ wb_valid' => taken(c) \/ unit = "last"
         /\ pipeline_empty(c) => /\ ~valid_o /\ unit = "idle" /\ ~jump_busy /\ ~wb_valid
                                 /\ ~decode_busy(c) /\ ~taken(c)
<1>1. ChoiceOf(c)
  BY ChoiceFacts DEF Edge
<1>2. taken(c) => valid_o /\ unit = "idle" /\ ~jump_busy /\ EffectOf(c)
  BY <1>1 DEF taken, exec_busy, ChoiceOf, TypeOK
<1>3. debug_ebreak(c) => taken(c) /\ InProgram /\ c.does = "ebreak" /\ c.unit = "idle"
  BY <1>2 DEF debug_ebreak, EffectOf, InProgram
<1>4. jumps(c) => taken(c) /\ InProgram /\ c.unit = "idle"
  BY <1>2 DEF jumps, EffectOf, InProgram
<1>5. /\ jump_busy' => jumps(c)
      /\ ~taken(c) /\ unit = "idle" => unit' = "idle"
      /\ taken(c) => unit' = c.unit
      /\ wb_valid' => taken(c) \/ unit = "last"
  BY Parts DEF ExecuteClock
<1>6. valid_o => (taken(c) <=> ~decode_busy(c))
  BY DEF taken, decode_busy
<1>7. pipeline_empty(c) => /\ ~valid_o /\ unit = "idle" /\ ~jump_busy /\ ~wb_valid
                           /\ ~decode_busy(c) /\ ~taken(c)
  BY DEF pipeline_empty, exec_busy, decode_busy, taken
<1> QED BY <1>2, <1>3, <1>4, <1>5, <1>6, <1>7

\* A command at work has a halted hart to itself.
LEMMA CommandFacts ==
  ASSUME ControlInv
  PROVE  /\ command_busy => halted /\ ~resumereq /\ dmactive
         /\ issue_valid \/ register_write => command_busy
         /\ progbuf_source => issue_valid
         /\ active /\ active_progbuf => command_state = "wait_retire" /\ command_busy
BY DEF ControlInv, CommandsHalted, WordAtWork, command_busy, issue_valid, register_write,
   transfer_valid, command_request, progbuf_source, halted

\* While the hart runs, only the program is in decode, and an EBREAK, a jump or the
\* resume redirect is all that empties it.
LEMMA RunningMoves ==
  ASSUME TypeOK, ControlInv, ~halted, NEW c, NEW ack, Edge(c, ack)
  PROVE  /\ ~register_write /\ ~issue_valid /\ ~progbuf_source /\ ~progbuf_exception(c)
         /\ valid_o /\ ~redirect_valid => InProgram
         /\ kill_i(c) => \/ debug_ebreak(c) \/ redirect_valid
                         \/ IF config.jump_bypass THEN jumps(c) ELSE jump_busy
         /\ valid_o' => \/ decode_busy(c) /\ UNCHANGED <<source, mepc_o>>
                        \/ accepted(c) /\ source' = "fetch" /\ mepc_o' = current_ip[0]
         /\ ~decode_busy(c) /\ ~allow_fetch => ~valid_o'
<1>1. ~register_write /\ ~issue_valid /\ ~progbuf_source /\ ~progbuf_exception(c)
  BY CommandFacts DEF progbuf_exception
<1>2. valid_o /\ ~redirect_valid => InProgram
  BY DEF ControlInv, WordAtWork, InProgram
<1>3. kill_i(c) => \/ debug_ebreak(c) \/ redirect_valid
                   \/ IF config.jump_bypass THEN jumps(c) ELSE jump_busy
  BY <1>1 DEF kill_i, flush
<1>4. valid_o' => \/ decode_busy(c) /\ UNCHANGED <<source, mepc_o>>
                  \/ accepted(c) /\ source' = "fetch" /\ mepc_o' = current_ip[0]
  BY <1>1, DecodeMoves
<1>5. ~decode_busy(c) /\ ~allow_fetch => ~valid_o'
  BY <1>1, <1>4, DecodeMoves
<1> QED BY <1>1, <1>2, <1>3, <1>4, <1>5

\* While the hart is halted no instruction of the program gets into decode.
LEMMA HaltedMoves ==
  ASSUME TypeOK, ControlInv, halted, NEW c, NEW ack, Edge(c, ack)
  PROVE  /\ ~InProgram' /\ ~jump_busy' /\ ~jumps(c) /\ ~debug_ebreak(c)
         /\ valid_o' => \/ register_write /\ source' = "transfer"
                        \/ decode_busy(c) /\ ~kill_i(c) /\ UNCHANGED source
                        \/ issue_valid /\ accepted(c) /\ progbuf_source /\ source' \in Words
<1>1. ~InProgram /\ ~jump_busy /\ ~allow_fetch
  BY DEF ControlInv, HaltedPipe, allow_fetch, halted
<1>2. ~jump_busy' /\ ~jumps(c) /\ ~debug_ebreak(c)
  BY <1>1, TakenMoves
<1>3. valid_o' => \/ register_write /\ source' = "transfer"
                  \/ decode_busy(c) /\ ~kill_i(c) /\ UNCHANGED source
                  \/ issue_valid /\ accepted(c) /\ progbuf_source /\ source' \in Words
  BY <1>1, DecodeMoves DEF progbuf_source
<1>4. ~InProgram'
  <2>1. "fetch" \notin Words
    BY DebugAssumption
  <2>2. decode_busy(c) => valid_o
    BY DEF decode_busy
  <2> QED BY <1>1, <1>3, <2>1, <2>2 DEF InProgram
<1> QED BY <1>2, <1>3, <1>4

\* The word in decode belongs to the command that waits for it.
LEMMA StepWordAtWork ==
  ASSUME TypeOK, ControlInv, NEW c, NEW ack, Edge(c, ack)
  PROVE  WordAtWork'
<1> USE CommandFacts
<1>1. command_busy => halted' /\ command_state' = NextState(completion(c))
  BY HartMoves, CommandMoves
<1>2. ASSUME accepted(c), progbuf_source PROVE command_state' = "wait_retire"
  <2>1. command_state \in {"exec", "exec2"} /\ command_busy
    BY <1>2 DEF progbuf_source, issue_valid
  <2>2. completion(c).accepted /\ ~completion(c).terminated
    BY <1>2 DEF completion, progbuf_source
  <2> QED BY <1>1, <2>1, <2>2, NextStates
<1>3. ASSUME command_state = "wait_retire", ~pipeline_empty(c), ~progbuf_exception(c)
      PROVE  command_state' = "wait_retire"
  <2>1. ~completion(c).exception /\ ~completion(c).complete
    BY <1>3 DEF completion, complete
  <2>2. command_busy
    BY <1>3 DEF command_busy
  <2> QED BY <1>1, <1>3, <2>1, <2>2, NextStates
<1>4. ASSUME valid_o', source' # "fetch" PROVE halted' \/ redirect_valid'
  <2>1. CASE halted
    BY <2>1, HartMoves
  <2>2. CASE ~halted
    <3>1. decode_busy(c) /\ UNCHANGED source /\ ~kill_i(c)
      BY <1>4, <2>2, RunningMoves, DecodeMoves
    <3>2. ~redirect_valid /\ valid_o
      BY <3>1 DEF kill_i, flush, decode_busy
    <3> QED BY <1>4, <2>2, <3>1, <3>2 DEF ControlInv, WordAtWork
  <2> QED BY <2>1, <2>2
<1>5. ASSUME valid_o', source' \in Words PROVE command_state' = "wait_retire"
  <2>1. "fetch" \notin Words /\ "transfer" \notin Words
    BY DebugAssumption
  <2>2. CASE decode_busy(c) /\ ~kill_i(c) /\ UNCHANGED source
    <3>1. valid_o /\ ~pipeline_empty(c) /\ ~progbuf_exception(c)
      BY <2>2 DEF decode_busy, pipeline_empty, kill_i, flush
    <3> QED BY <1>3, <1>5, <2>2, <3>1 DEF ControlInv, WordAtWork
  <2>3. CASE accepted(c) /\ progbuf_source
    BY <1>2, <2>3
  <2> QED BY <1>5, <2>1, <2>2, <2>3, DecodeMoves
<1>6. ASSUME active', active_progbuf' PROVE command_state' = "wait_retire"
  <2>1. CASE accepted(c) /\ active_progbuf' = progbuf_source
    BY <1>2, <1>6, <2>1
  <2>2. CASE /\ active /\ active_progbuf
             /\ ~pipeline_empty(c) /\ ~progbuf_exception(c)
    BY <1>3, <2>2 DEF ControlInv, WordAtWork
  <2> QED BY <1>6, <2>1, <2>2, Parts DEF TrackActive
<1> QED BY <1>4, <1>5, <1>6 DEF WordAtWork

\* The hart enters Debug Mode with an empty decode stage.
LEMMA EntryMoves ==
  ASSUME TypeOK, ControlInv, ~halted, halted', NEW c, NEW ack, Edge(c, ack)
  PROVE  ~valid_o' /\ ~jump_busy' /\ unit' = "idle"
<1>1. CASE debug_ebreak(c)
  <2>1. ~jumps(c)
    BY <1>1, TakenMoves DEF jumps
  <2>2. kill_i(c)
    BY <1>1 DEF kill_i, flush
  <2>3. ~valid_o'
    BY <2>2, RunningMoves, DecodeMoves
  <2> QED BY <1>1, <2>1, <2>3, TakenMoves
<1>2. CASE state \in {"halt_pending", "step_wait"} /\ pipeline_empty(c)
  <2>1. ~allow_fetch
    BY <1>2 DEF allow_fetch
  <2>2. ~jump_busy'
    BY <1>2, TakenMoves DEF jumps
  <2> QED BY <1>2, <2>1, <2>2, RunningMoves, TakenMoves
<1> QED BY <1>1, <1>2, HartMoves DEF complete

\* A halted pipeline is empty but for the command at work.
LEMMA StepHaltedPipe ==
  ASSUME TypeOK, ControlInv, NEW c, NEW ack, Edge(c, ack)
  PROVE  HaltedPipe'
<1> DEFINE Empty == ~valid_o' /\ unit' = "idle" /\ ~wb_valid'
<1>1. CASE ~halted /\ halted'
  <2>1. ~valid_o' /\ ~jump_busy' /\ unit' = "idle"
    BY <1>1, EntryMoves
  <2>2. ~command_busy
    BY <1>1, CommandFacts
  <2>3. command_state' = "none" /\ ~abstract_command_new'
    BY <1>1, <2>2, CommandMoves, RequestMoves DEF command_busy
  <2> QED BY <2>1, <2>3 DEF HaltedPipe, InProgram, command_request
<1>2. CASE halted /\ halted' /\ (failed_early \/ progbuf_exception(c))
  <2>1. ~failed_early' => Empty
    BY <1>2, Parts, CoreType DEF NoteFailure
  <2> QED BY <1>2, <2>1, HaltedMoves DEF HaltedPipe
<1>3. CASE halted /\ halted' /\ ~failed_early /\ ~progbuf_exception(c)
  <2>1. /\ command_state # "wait_retire" =>
              unit = "idle" /\ (valid_o => command_state = "taken" /\ source = "transfer")
        /\ command_request \/ command_state = "taken" => ~wb_valid
        /\ ~jump_busy
    BY <1>3 DEF ControlInv, HaltedPipe
  <2>2. CASE command_state = "wait_retire"
    <3>1. CASE pipeline_empty(c)
      <4>1. ~decode_busy(c) /\ ~register_write /\ ~issue_valid
        BY <2>2, <3>1, TakenMoves DEF register_write, transfer_valid, command_request, issue_valid
      <4>2. Empty
        BY <1>3, <3>1, <4>1, HaltedMoves, TakenMoves
      <4> QED BY <4>2, <1>3, HaltedMoves DEF HaltedPipe
    <3>2. CASE ~pipeline_empty(c)
      <4>1. ~completion(c).exception /\ ~completion(c).complete
        BY <1>3, <3>2 DEF completion, complete
      <4>2. command_busy
        BY <2>2 DEF command_busy
      <4>3. command_state' = "wait_retire"
        BY <1>3, <2>2, <4>1, <4>2, CommandFacts, CommandMoves, NextStates
      <4> QED BY <4>3, <1>3, HaltedMoves DEF HaltedPipe, command_request
    <3> QED BY <3>1, <3>2
  <2>3. CASE command_state # "wait_retire" /\ ~(command_request \/ command_state = "taken")
    <3>1. ~valid_o /\ unit = "idle" /\ ~taken(c) /\ ~decode_busy(c) /\ ~register_write
      BY <2>1, <2>3 DEF taken, decode_busy, register_write, transfer_valid
    <3>2. unit' = "idle" /\ ~wb_valid'
      BY <3>1, TakenMoves
    <3>3. command_state' # "taken"
      BY <1>3, <2>3, CommandMoves, NextStates DEF TypeOK, CommandTypeOK, CommandStates
    <3>4. valid_o' => command_state' = "wait_retire"
      <4> SUFFICES ASSUME valid_o' PROVE command_state' = "wait_retire"
        OBVIOUS
      <4>1. issue_valid /\ accepted(c) /\ progbuf_source
        BY <1>3, <3>1, HaltedMoves
      <4>2. completion(c).accepted /\ ~completion(c).terminated
        BY <4>1 DEF completion, progbuf_source
      <4> QED BY <1>3, <4>1, <4>2, CommandFacts, CommandMoves, NextStates DEF issue_valid
    <3> QED BY <3>2, <3>3, <3>4, <1>3, HaltedMoves DEF HaltedPipe
  <2>4. CASE command_request \/ command_state = "taken"
    <3>1. ~wb_valid /\ unit = "idle" /\ ~issue_valid
      BY <2>1, <2>4 DEF command_request, issue_valid
    <3>2. command_busy /\ dmactive
      BY <2>4, CommandFacts DEF command_busy, command_request
    <3>3. CASE command_request
      <4>1. ~valid_o /\ ~taken(c) /\ ~decode_busy(c)
        BY <2>1, <3>3 DEF command_request, taken, decode_busy
      <4>2. unit' = "idle" /\ ~wb_valid'
        BY <3>1, <4>1, TakenMoves
      <4>3. valid_o' => source' = "transfer"
        BY <1>3, <3>1, <4>1, HaltedMoves
      <4>4. command_state' = "taken"
        BY <1>3, <3>2, <3>3, CommandMoves, NextStates DEF command_request
      <4> QED BY <4>2, <4>3, <4>4, <1>3, HaltedMoves DEF HaltedPipe, command_request
    <3>4. CASE command_state = "taken"
      <4>1. ~register_write
        BY <3>4 DEF register_write, transfer_valid, command_request
      <4>2. valid_o => taken(c)
        <5>1. ChoiceOf(c)
          BY ChoiceFacts DEF Edge
        <5>2. ~exec_busy(c)
          BY <2>1, <3>1, <5>1 DEF exec_busy, ChoiceOf
        <5> QED BY <5>2 DEF taken
      <4>3. valid_o => c.unit = "idle"
        <5>1. valid_o => source = "transfer" /\ EffectOf(c)
          BY <2>1, <3>4, <4>2, TakenMoves
        <5> QED BY <5>1, CoreType, <4>2, ChoiceFacts DEF EffectOf, ChoiceOf, Edge
      <4>4. unit' = "idle"
        BY <3>1, <4>2, <4>3, TakenMoves DEF taken
      <4>5. ~valid_o'
        BY <1>3, <3>1, <4>1, <4>2, TakenMoves, HaltedMoves DEF decode_busy
      <4>6. command_state' # "taken" /\ ~command_request'
        <5>1. command_state' \in {"regvalid", "exec", "none"}
          BY <1>3, <3>2, <3>4, CommandMoves, NextStates
        <5>2. ~abstract_command_new'
          BY <3>2, <3>4, RequestMoves
        <5> QED BY <5>1, <5>2 DEF command_request
      <4> QED BY <4>4, <4>5, <4>6, <1>3, HaltedMoves DEF HaltedPipe
    <3> QED BY <2>4, <3>3, <3>4
  <2> QED BY <2>2, <2>3, <2>4
<1>4. CASE ~halted'
  BY <1>4 DEF HaltedPipe, command_request
<1> QED BY <1>1, <1>2, <1>3, <1>4

\* The instruction of a step is counted once.
LEMMA StepStepping ==
  ASSUME TypeOK, ControlInv, NEW c, NEW ack, Edge(c, ack)
  PROVE  Stepping' /\ StepsOne'
<1>1. CASE state = "step_issue"
  <2>1. ~halted /\ executed = 0 /\ ~InProgram /\ ~jump_busy
    BY <1>1 DEF ControlInv, Stepping, halted
  <2>2. ~jumps(c) /\ ~debug_ebreak(c) /\ ~jump_busy'
    BY <2>1, TakenMoves
  <2>3. executed' = 0
    <3>1. ~(taken(c) /\ source = "fetch")
      BY <2>1, TakenMoves DEF InProgram
    <3> QED BY <2>1, <3>1, Parts DEF CountStep
  <2>4. ~progbuf_source /\ ~register_write
    BY <2>1, RunningMoves
  <2>5. ASSUME state' = "step_wait" PROVE InProgram'
    <3>1. accepted(c)
      BY <1>1, <2>5, HartMoves
    <3>2. ~kill_i(c)
      BY <2>1, <2>2, <2>4, <3>1, RunningMoves, DecodeMoves
    <3> QED BY <2>4, <3>1, <3>2, DecodeMoves
  <2>6. ASSUME state' = "step_issue" PROVE ~InProgram'
    <3>1. ~accepted(c)
      BY <2>1, <2>4, <2>6, HartMoves
    <3>2. valid_o' => decode_busy(c) /\ UNCHANGED source
      BY <2>1, <3>1, RunningMoves
    <3> QED BY <2>1, <3>2 DEF InProgram, decode_busy
  <2>7. update'.cause # Stepped
    BY <1>1, <2>1, <2>2, HartMoves DEF NoUpdate, Stepped
  <2> QED BY <2>2, <2>3, <2>5, <2>6, <2>7 DEF Stepping, StepsOne, InProgram
<1>2. CASE state = "step_wait"
  <2>1. /\ ~halted /\ ~redirect_valid /\ ~allow_fetch
        /\ IF valid_o THEN InProgram /\ executed = 0 /\ ~jump_busy ELSE executed = 1
    BY <1>2 DEF ControlInv, Stepping, Resuming, halted, allow_fetch
  <2>2. state' # "step_issue"
    BY <1>2, <2>1, HartMoves
  <2>3. CASE taken(c)
    <3>1. ~decode_busy(c) /\ valid_o /\ ~pipeline_empty(c)
      BY <2>3, TakenMoves
    <3>2. ~valid_o'
      BY <2>1, <3>1, RunningMoves
    <3>3. executed' = 1
      <4>1. source = "fetch" /\ executed = 0
        BY <2>1, <3>1 DEF InProgram
      <4>2. CountStep(c)
        BY Parts
      <4>3. executed' = executed + 1
        BY <1>2, <2>3, <4>1, <4>2 DEF CountStep
      <4> QED BY <4>1, <4>3
    <3> QED BY <2>2, <3>2, <3>3 DEF Stepping, StepsOne
  <2>4. CASE valid_o /\ ~taken(c)
    <3>1. decode_busy(c) /\ ~pipeline_empty(c) /\ ~debug_ebreak(c) /\ ~jumps(c)
      BY <2>4, TakenMoves
    <3>2. ~kill_i(c) /\ ~register_write
      BY <2>1, <2>4, <3>1, RunningMoves
    <3>3. UNCHANGED <<valid_o, source, mepc_o>>
      BY <3>1, <3>2, DecodeMoves
    <3>4. executed' = 0 /\ ~jump_busy'
      BY <1>2, <2>1, <2>4, <3>1, Parts, TakenMoves DEF CountStep
    <3>5. update'.cause # Stepped
      BY <1>2, <2>1, <3>1, HartMoves DEF NoUpdate, Stepped, complete
    <3> QED BY <2>1, <2>2, <2>4, <3>3, <3>4, <3>5 DEF Stepping, StepsOne, InProgram
  <2>5. CASE ~valid_o
    <3>1. ~taken(c) /\ ~decode_busy(c)
      BY <2>5 DEF taken, decode_busy
    <3>2. ~valid_o' /\ executed' = 1
      BY <1>2, <2>1, <2>5, <3>1, RunningMoves, Parts DEF CountStep
    <3> QED BY <2>2, <3>2 DEF Stepping, StepsOne
  <2> QED BY <2>3, <2>4, <2>5
<1>3. CASE state \notin {"step_issue", "step_wait"}
  <2>1. executed' = 0
    BY <1>3, Parts DEF CountStep
  <2>2. state' # "step_wait"
    BY <1>3, HartMoves
  <2>3. state' = "step_issue" => halted
    BY <1>3, HartMoves
  <2>4. update'.cause # Stepped
    BY <1>3, HartMoves DEF NoUpdate, Stepped, Ebreak, HaltRequest
  <2> QED BY <2>1, <2>2, <2>3, <2>4, HaltedMoves DEF Stepping, StepsOne
<1> QED BY <1>1, <1>2, <1>3

\* A resume takes effect in the clock after it.
LEMMA StepResuming ==
  ASSUME TypeOK, ControlInv, NEW c, NEW ack, Edge(c, ack)
  PROVE  Resuming'
<1>1. redirect_valid' => /\ state' \in {"running", "step_issue"} /\ req_ack'
                         /\ ~InProgram' /\ ~jump_busy'
  BY HartMoves, HaltedMoves
<1>2. ASSUME resumereq', ~halted' PROVE redirect_valid'
  <2>1. CASE halted
    BY <1>2, <2>1, HartMoves
  <2>2. CASE ~halted
    <3>1. resumereq /\ ~req_ack
      BY <1>2, <2>2, RequestMoves
    <3> QED BY <2>2, <3>1 DEF ControlInv, Resuming
  <2> QED BY <2>1, <2>2
<1> QED BY <1>1, <1>2 DEF Resuming

\* The core leaves reset with nothing at work.
LEMMA InitControl == Init => ControlInv
<1> SUFFICES ASSUME Init PROVE ControlInv
  OBVIOUS
<1>1. CommandsHalted /\ WordAtWork
  BY DEF Init, CommandInit, DmiInit, AdapterInit, CommandsHalted, WordAtWork, command_busy
<1>2. HaltedPipe /\ Stepping /\ StepsOne
  BY DEF Init, HartInit, HaltedPipe, Stepping, StepsOne, halted, NoUpdate, Stepped
<1>3. Resuming
  BY DEF Init, HartInit, DmiInit, Resuming, redirect_valid
<1> QED BY <1>1, <1>2, <1>3 DEF ControlInv

\* A clock edge keeps the invariant of the control.
LEMMA StepControl == TypeOK /\ ControlInv /\ [Next]_vars => ControlInv'
<1> SUFFICES ASSUME TypeOK, ControlInv, [Next]_vars PROVE ControlInv'
  OBVIOUS
<1>1. CASE UNCHANGED vars
  <2> USE <1>1 DEF vars, coreVars, adapterVars, hartVars, commandVars, dmiVars, ControlInv
  <2>1. CommandsHalted' /\ WordAtWork'
    BY DEF CommandsHalted, WordAtWork, command_busy, redirect_valid, halted
  <2>2. HaltedPipe' /\ Stepping' /\ StepsOne'
    BY DEF HaltedPipe, Stepping, StepsOne, InProgram, command_request, halted
  <2>3. Resuming'
    BY DEF Resuming, InProgram, redirect_valid, halted
  <2> QED BY <2>1, <2>2, <2>3
<1>2. CASE Next
  <2>1. PICK ack \in BOOLEAN, c \in Choices : Edge(c, ack)
    BY <1>2 DEF Next, Edge
  <2> QED BY <2>1, StepCommandsHalted, StepWordAtWork, StepHaltedPipe, StepStepping,
             StepResuming DEF ControlInv
<1> QED BY <1>1, <1>2

\* The debug module, the adapter and the pipeline agree on what is at work.
THEOREM ControlInvariant == Spec => []ControlInv
<1>1. Init => TypeOK /\ ControlInv
  BY InitType, InitControl
<1>2. TypeOK /\ ControlInv /\ [Next]_vars => (TypeOK /\ ControlInv)'
  BY StepType, StepControl
<1> QED BY <1>1, <1>2, PTL DEF Spec

\* A step executes one instruction of the program (rtl/debug/hart_debug.py), for
\* every program and however long its instructions take.
THEOREM SpecStepsOne == Spec => []StepsOne
<1>1. ControlInv => StepsOne
  BY DEF ControlInv
<1> QED BY <1>1, ControlInvariant, PTL

\* A command finds the pipeline empty (rtl/simple_pipeline.py:144-146), for every
\* contents of the Program Buffer that was executed before it.
THEOREM SpecQuiet == Spec => []Quiet
<1>1. ControlInv => Quiet
  <2> SUFFICES ASSUME ControlInv, command_request, ~failed_early
               PROVE  ~valid_o /\ unit = "idle" /\ ~wb_valid
    BY DEF Quiet
  <2>1. halted /\ command_state = "none"
    BY CommandFacts DEF command_request, command_busy
  <2> QED BY <2>1 DEF ControlInv, HaltedPipe
<1> QED BY <1>1, ControlInvariant, PTL

-----------------------------------------------------------------------------
(* The invariant of the addresses: from what fetch holds to the place      *)
(* where the program goes on.  The bus answers in the next clock.          *)

\* The address the next request is answered for, the word that leaves the skid
\* entry next, and the word that is offered to decode next.
NextRequested == IF pend # NoRequest THEN pend ELSE ip
NextParked == IF busy THEN current_ip[1] ELSE NextRequested
NextFetched == IF valid THEN current_ip[0] ELSE NextParked

\* Until fetch runs nothing has happened.
InReset ==
    ~run => /\ ~valid /\ ~busy /\ ~outstanding /\ ~jump_taken /\ ~valid_o /\ ~jump_r
            /\ ~jump_busy /\ pend = NoRequest /\ ~redirect_valid

\* Fetch asks for one word, and for none while the skid entry is occupied.
Requested == (outstanding <=> pend # NoRequest) /\ (busy => pend = NoRequest)

\* What fetch holds and what it asks for are consecutive.
Chain ==
    /\ pend # NoRequest => pend = current_ip[2] /\ ip = Succ(pend)
    /\ busy => NextRequested = Succ(current_ip[1])
    /\ valid => NextParked = Succ(current_ip[0])

\* The jump registers: a jump is on its way to fetch until an instruction of the
\* program follows it in decode.
Jumping ==
    /\ jump_r => unit = "idle"
    /\ jump_busy => jump_r /\ ~config.jump_bypass /\ ~jump_taken
    /\ jump_taken => ~InProgram
    /\ InProgram /\ jump_r /\ ~jump_busy => ~wb_valid

\* While decode does not take from fetch a jump that has been acted on stays in the
\* registers; one that has been forgotten has not been followed yet.
Stalled ==
    /\ resumereq \/ redirect_valid => ~haltreq
    /\ state = "running" /\ haltreq => dmactive
    /\ state \in {"halted", "halt_pending", "step_wait"} \/ redirect_valid =>
          (jump_taken => ~valid /\ jump_r)
    /\ jump_r /\ ~jump_taken /\ ~InProgram /\ ~jump_busy =>
          state = "halt_pending" /\ dmactive

\* Fetch goes on behind the instruction in decode.
Behind ==
    InProgram /\ ~jump_busy =>
        NextFetched = Succ(mepc_o) /\ architectural_next_pc = Succ(mepc_o)

\* A jump in the registers of a halted hart has written its register, and stays there
\* only until a word is executed.
Leftover == jump_r => /\ halted => ~wb_valid
                      /\ redirect_valid => ~valid_o

\* The place where the program goes on is in decode, or the target of the jump in
\* the registers, or where fetch stands, or in dpc, or the target of the resume.  When
\* dpc does not have it the jump that has it is still in the registers.
Path ==
    /\ InProgram /\ ~jump_busy => mepc_o = GoesOn
    /\ jump_r /\ (InProgram => jump_busy) => jump_dest_r = GoesOn
    /\ jump_r /\ jump_taken => NextFetched = jump_dest_r
    /\ ~jump_r /\ ~InProgram /\ ~halted /\ ~redirect_valid =>
          NextFetched = GoesOn /\ architectural_next_pc = GoesOn
    /\ halted /\ update = NoUpdate => dpc = expected
    /\ redirect_valid => redirect_pc = expected
    /\ (halted /\ update = NoUpdate) \/ redirect_valid => instead = NoPc \/ jump_r
    /\ update # NoUpdate =>
          update.dpc = GoesOn \/ (update.cause = HaltRequest /\ jump_r)

\* dpc is written in the first clock of Debug Mode, when decode is empty.
Updating == update # NoUpdate => halted /\ ~valid_o /\ ~resumereq

PathInv ==
    /\ InReset /\ Requested /\ Chain /\ Jumping /\ Stalled /\ Behind /\ Leftover
    /\ Path /\ Updating

\* What fetch does in a clock when the bus answers at once (rtl/fetch.py).
LEMMA FetchStep ==
  ASSUME FetchTypeOK, FastBus, run, Requested, Chain, pend \in Addr \cup {NoRequest},
         NEW stall \in BOOLEAN, NEW j \in BOOLEAN, NEW d \in Addr, NEW ack \in BOOLEAN,
         MayAnswer(ack), BusClock(en_o(stall, j), ack),
         FetchClock(stall, j, d, bus_stall_i(en_o(stall, j), ack), ack, pend)
  PROVE  /\ run' /\ Requested' /\ Chain'
         /\ new_jump(j) => ~valid' /\ jump_taken' /\ NextFetched' = d
         /\ ~new_jump(j) =>
               /\ jump_taken' <=> jump_taken /\ ~valid /\ ~(stall /\ ~j)
               /\ stall => (valid' <=> valid) /\ NextFetched' = NextFetched
               /\ ~stall => NextFetched' = IF valid THEN Succ(current_ip[0]) ELSE NextFetched
<1> DEFINE en == en_o(stall, j)
<1>1. (ack <=> pend # NoRequest) /\ ~bus_stall_i(en, ack)
  BY DEF MayAnswer, bus_stall_i
<1>2. pend' = (IF en THEN ip ELSE NoRequest) /\ (outstanding' <=> en)
  BY <1>1 DEF BusClock, FetchClock, TrackOutstanding, Requested, FetchTypeOK, en_o, new_jump
<1>3. ip # NoRequest /\ (\A k \in 0 .. 2 : current_ip[k] # NoRequest)
  BY NotAnAddress DEF FetchTypeOK
<1>4. CanRedirect(j, ack) <=> new_jump(j)
  BY <1>1 DEF CanRedirect, Requested, new_jump
<1>5. CASE new_jump(j)
  <2>1. Redirect(j, d, ack) /\ ~en
    BY <1>4, <1>5 DEF FetchClock, LeaveReset, AdvanceIp, en_o
  <2> QED BY <1>2, <1>5, <2>1
      DEF Redirect, Requested, Chain, NextFetched, NextParked, NextRequested
<1>6. CASE ~new_jump(j) /\ stall
  <2>1. AdvanceIp(stall, j, bus_stall_i(en, ack), ack) /\ Park(stall, ack, pend) /\ ~en
    BY <1>4, <1>6
    DEF FetchClock, LeaveReset, Redirect, Unpark, Receive, Bubble, en_o
  <2>2. jump_taken' = (jump_taken /\ ~valid /\ ~(stall /\ ~j)) /\ ip' = ip /\ run'
    BY <1>6, <2>1 DEF AdvanceIp, FetchTypeOK
  <2>3. pend' = NoRequest /\ ~outstanding' /\ valid' = valid
    BY <1>2, <2>1 DEF Park
  <2>4. CASE pend # NoRequest
    <3>1. busy' /\ current_ip' = [current_ip EXCEPT ![1] = current_ip[2]]
      BY <1>1, <2>1, <2>4 DEF Park
    <3>2. current_ip'[1] = pend /\ current_ip'[0] = current_ip[0] /\ ~busy
      BY <2>4, <3>1 DEF FetchTypeOK, Chain, Requested
    <3> QED BY <1>6, <2>2, <2>3, <2>4, <3>1, <3>2
        DEF Requested, Chain, NextFetched, NextParked, NextRequested
  <2>5. CASE pend = NoRequest
    <3>1. UNCHANGED <<busy, current_ip>>
      BY <1>1, <2>1, <2>5 DEF Park
    <3> QED BY <1>6, <2>2, <2>3, <2>5, <3>1
        DEF Requested, Chain, NextFetched, NextParked, NextRequested
  <2> QED BY <2>4, <2>5
<1>7. CASE ~new_jump(j) /\ ~stall
  <2>1. AdvanceIp(stall, j, bus_stall_i(en, ack), ack)
    BY <1>4, <1>7 DEF FetchClock, LeaveReset, Redirect
  <2>2. /\ jump_taken' = (jump_taken /\ ~valid) /\ run'
        /\ ip' = IF busy THEN ip ELSE Succ(ip)
    BY <1>1, <1>7, <2>1 DEF AdvanceIp, FetchTypeOK
  <2>3. CASE busy
    <3>1. Unpark(stall) /\ ~en /\ pend = NoRequest
      BY <1>4, <1>7, <2>3
      DEF FetchClock, LeaveReset, Redirect, Park, Receive, Bubble, en_o, Requested
    <3>2. /\ valid' /\ ~busy' /\ current_ip'[0] = current_ip[1] /\ pend' = NoRequest
          /\ ~outstanding' /\ ip' = ip
      BY <1>2, <2>2, <2>3, <3>1 DEF Unpark, FetchTypeOK
    <3> QED BY <1>7, <2>2, <2>3, <3>1, <3>2
        DEF Requested, Chain, NextFetched, NextParked, NextRequested
  <2>4. CASE ~busy /\ pend # NoRequest
    <3>1. /\ Receive(stall, j, bus_stall_i(en, ack), ack, pend) /\ en
          /\ RequestIp(stall, bus_stall_i(en, ack)) = ip
      BY <1>1, <1>4, <1>7, <2>4
      DEF FetchClock, LeaveReset, Redirect, Park, Unpark, Bubble, en_o, RequestIp
    <3>2. /\ valid' /\ ~busy' /\ current_ip'[0] = current_ip[2] /\ current_ip'[2] = ip
          /\ pend' = ip /\ outstanding' /\ ip' = Succ(ip)
      <4>1. current_ip' = [current_ip EXCEPT ![0] = current_ip[2], ![2] = ip]
        BY <3>1 DEF Receive
      <4>2. current_ip'[0] = current_ip[2] /\ current_ip'[2] = ip
        BY <4>1 DEF FetchTypeOK
      <4> QED BY <1>2, <2>2, <2>4, <3>1, <4>2 DEF Receive
    <3> QED BY <1>3, <1>7, <2>2, <2>4, <3>2
        DEF Requested, Chain, NextFetched, NextParked, NextRequested
  <2>5. CASE ~busy /\ pend = NoRequest
    <3>1. /\ Bubble(stall, j, bus_stall_i(en, ack), ack) /\ en
          /\ RequestIp(stall, bus_stall_i(en, ack)) = ip
      BY <1>1, <1>4, <1>7, <2>5
      DEF FetchClock, LeaveReset, Redirect, Park, Unpark, Receive, en_o, RequestIp
    <3>2. /\ ~valid' /\ ~busy' /\ current_ip'[2] = ip
          /\ pend' = ip /\ outstanding' /\ ip' = Succ(ip)
      <4>1. current_ip' = [current_ip EXCEPT ![2] = ip]
        BY <3>1 DEF Bubble
      <4>2. current_ip'[2] = ip
        BY <4>1 DEF FetchTypeOK
      <4> QED BY <1>2, <2>2, <2>5, <3>1, <4>2 DEF Bubble
    <3> QED BY <1>3, <1>7, <2>2, <2>5, <3>2
        DEF Requested, Chain, NextFetched, NextParked, NextRequested
  <2> QED BY <2>3, <2>4, <2>5
<1> QED BY <1>5, <1>6, <1>7

\* The same for the core, in reset too.
LEMMA FetchFlow ==
  ASSUME TypeOK, FastBus, InReset, Requested, Chain, NEW c, NEW ack, Edge(c, ack)
  PROVE  /\ run' /\ Requested' /\ Chain'
         /\ new_jump(out_jump_o(c)) =>
               ~valid' /\ jump_taken' /\ NextFetched' = out_jump_dest_o(c)
         /\ ~new_jump(out_jump_o(c)) =>
               /\ jump_taken' <=> jump_taken /\ ~valid /\ ~(stall_i(c) /\ ~out_jump_o(c))
               /\ stall_i(c) => (valid' <=> valid) /\ NextFetched' = NextFetched
               /\ ~stall_i(c) =>
                     NextFetched' = IF valid THEN Succ(current_ip[0]) ELSE NextFetched
<1> DEFINE stall == stall_i(c)
           j == out_jump_o(c)
           d == out_jump_dest_o(c)
<1>1. stall \in BOOLEAN /\ j \in BOOLEAN /\ d \in Addr /\ ack \in BOOLEAN /\ MayAnswer(ack)
  BY FetchInputs DEF Edge
<1>2. /\ BusClock(en_o(stall, j), ack)
      /\ FetchClock(stall, j, d, bus_stall_i(en_o(stall, j), ack), ack, pend)
  BY Parts
<1>3. CASE run
  <2> HIDE DEF stall, j, d
  <2>1. /\ run' /\ Requested' /\ Chain'
        /\ new_jump(j) => ~valid' /\ jump_taken' /\ NextFetched' = d
        /\ ~new_jump(j) =>
              /\ jump_taken' <=> jump_taken /\ ~valid /\ ~(stall /\ ~j)
              /\ stall => (valid' <=> valid) /\ NextFetched' = NextFetched
              /\ ~stall => NextFetched' = IF valid THEN Succ(current_ip[0]) ELSE NextFetched
    BY <1>1, <1>2, <1>3, FetchStep DEF TypeOK
  <2> QED BY <2>1 DEF stall, j, d
<1>4. CASE ~run
  <2>1. ~out_jump_o(c)
    BY <1>4 DEF InReset, out_jump_o, jump_o, taken
  <2>2. ~ack /\ ~en_o(stall, j)
    BY <1>1, <1>4 DEF MayAnswer, InReset, en_o
  <2>3. pend' = pend /\ ~outstanding' /\ LeaveReset
    BY <1>2, <1>4, <2>2
    DEF BusClock, FetchClock, TrackOutstanding, InReset, Redirect, AdvanceIp
  <2>4. /\ run' /\ UNCHANGED <<ip, busy, valid, jump_taken, current_ip>>
        /\ ~valid /\ ~busy /\ ~jump_taken /\ pend = NoRequest
    BY <1>4, <2>3 DEF LeaveReset, InReset
  <2> QED BY <2>1, <2>3, <2>4
      DEF new_jump, Requested, Chain, NextFetched, NextParked, NextRequested
<1> QED BY <1>3, <1>4

\* What becomes of the architectural program counter (rtl/debug/pipeline_adapter.py).
LEMMA NextPcFacts ==
  ASSUME TypeOK, NEW c, NEW ack, Edge(c, ack)
  PROVE  /\ redirect_valid => architectural_next_pc' = redirect_pc
         /\ ~redirect_valid /\ accepted(c) /\ ~progbuf_source =>
               architectural_next_pc' = Succ(current_ip[0])
         /\ ~redirect_valid /\ ~(accepted(c) /\ ~progbuf_source) =>
               architectural_next_pc' = next_pc(jump_o(c), jump_dest_o(c))
         /\ ~jump_o(c) => next_pc(jump_o(c), jump_dest_o(c)) = architectural_next_pc
<1>1. redirect_valid <=> redirect_pc \in Addr
  BY NotAnAddress DEF TypeOK, HartTypeOK, redirect_valid
<1>2. NextPc(accepted(c), progbuf_source, Succ(current_ip[0]), redirect_pc,
             jump_o(c), jump_dest_o(c))
  BY Parts
<1>3. redirect_valid => architectural_next_pc' = redirect_pc
  BY <1>1, <1>2, Zenon DEF NextPc
<1>4. ~redirect_valid /\ accepted(c) /\ ~progbuf_source =>
          architectural_next_pc' = Succ(current_ip[0])
  BY <1>1, <1>2, Zenon DEF NextPc
<1>5. ~redirect_valid /\ ~(accepted(c) /\ ~progbuf_source) =>
          architectural_next_pc' = next_pc(jump_o(c), jump_dest_o(c))
  BY <1>1, <1>2, Zenon DEF NextPc
<1>6. ~jump_o(c) => next_pc(jump_o(c), jump_dest_o(c)) = architectural_next_pc
  BY DEF next_pc
<1> QED BY <1>3, <1>4, <1>5, <1>6

\* What execute tells fetch (rtl/execute.py).
LEMMA JumpMoves ==
  ASSUME TypeOK, ControlInv, PathInv, NEW c, NEW ack, Edge(c, ack)
  PROVE  /\ taken(c) => (jump_r' <=> jumps(c))
         /\ ~taken(c) => (jump_r' <=> jump_r) /\ jump_dest_r' = jump_dest_r
         /\ jumps(c) => jump_dest_r' = c.pc
         /\ jump_busy' <=> jumps(c) /\ ~config.jump_bypass
         /\ jump_o(c) <=> IF taken(c) THEN config.jump_bypass /\ jumps(c) ELSE jump_r
         /\ jump_o(c) => jump_r' /\ jump_dest_o(c) = jump_dest_r'
<1>1. jumps(c) => taken(c) /\ jump_dest(c) = c.pc
  BY DEF jumps, jump_dest
<1>2. /\ taken(c) => (jump_r' <=> jumps(c)) /\ jump_dest_r' = jump_dest(c)
      /\ ~taken(c) => (jump_r' <=> jump_r) /\ jump_dest_r' = jump_dest_r
      /\ jump_busy' <=> jumps(c) /\ ~config.jump_bypass
  BY Parts DEF ExecuteClock
<1>3. jump_o(c) <=> IF taken(c) THEN config.jump_bypass /\ jumps(c) ELSE jump_r
  BY DEF jump_o
<1>4. jump_o(c) => jump_r' /\ jump_dest_o(c) = jump_dest_r'
  BY <1>2, <1>3 DEF jump_dest_o
<1> QED BY <1>1, <1>2, <1>3, <1>4

\* An instruction of the program that is held in decode does not follow a jump that
\* is on its way to fetch.
LEMMA HeldMoves ==
  ASSUME TypeOK, ControlInv, PathInv, NEW c, NEW ack, Edge(c, ack),
         InProgram, decode_busy(c), ~kill_i(c)
  PROVE  /\ ~jump_busy /\ ~jump_r /\ ~jump_taken /\ ~redirect_valid /\ ~taken(c)
         /\ ~jump_o(c) /\ ~out_jump_o(c) /\ stall_i(c) /\ ~accepted(c)
<1>1. ~jump_busy /\ ~redirect_valid /\ ~jump_taken
  BY DEF kill_i, flush, PathInv, Jumping
<1>2. unit # "idle" \/ wb_valid
  BY <1>1, ChoiceFacts DEF decode_busy, exec_busy, ChoiceOf, Edge
<1>3. ~jump_r
  BY <1>1, <1>2 DEF PathInv, Jumping
<1>4. ~taken(c) /\ ~jump_o(c)
  BY <1>3, JumpMoves, TakenMoves DEF InProgram
<1> QED BY <1>1, <1>3, <1>4 DEF out_jump_o, stall_i, accepted

\* When decode takes the next instruction of the program fetch goes on behind it.
LEMMA AcceptedMoves ==
  ASSUME TypeOK, ControlInv, PathInv, NEW c, NEW ack, Edge(c, ack),
         accepted(c), ~progbuf_source, ~kill_i(c)
  PROVE  /\ valid /\ ~stall_i(c) /\ ~redirect_valid /\ ~jump_busy
         /\ ~new_jump(out_jump_o(c)) /\ ~halted
<1>1. /\ ~issue_valid /\ valid /\ allow_fetch /\ ~redirect_valid /\ ~decode_busy(c)
      /\ ~halted /\ state # "halt_pending"
  BY DecodeMoves DEF allow_fetch, halted
<1>2. ~stall_i(c)
  BY <1>1 DEF stall_i
<1>3. ~jump_busy
  BY DEF kill_i, PathInv, Jumping
<1>4. ~(jumps(c) /\ config.jump_bypass)
  BY DEF kill_i
<1>5. ~(jump_o(c) /\ ~jump_taken)
  <2> SUFFICES ASSUME jump_o(c), ~jump_taken PROVE FALSE
    OBVIOUS
  <2>1. ~taken(c) /\ jump_r
    BY <1>4, JumpMoves
  <2>2. ~InProgram
    BY <1>1, <2>1, TakenMoves DEF InProgram
  <2> QED BY <1>1, <1>3, <2>1, <2>2 DEF PathInv, Stalled
<1> QED BY <1>1, <1>2, <1>3, <1>4, <1>5 DEF out_jump_o, new_jump

\* The two ways an instruction of the program is in decode after a clock.
LEMMA ProgramMoves ==
  ASSUME TypeOK, ControlInv, NEW c, NEW ack, Edge(c, ack)
  PROVE  InProgram' => /\ ~register_write /\ ~kill_i(c)
                       /\ \/ InProgram /\ decode_busy(c) /\ mepc_o' = mepc_o
                          \/ accepted(c) /\ ~progbuf_source /\ mepc_o' = current_ip[0]
<1>1. "fetch" \notin Words
  BY DebugAssumption
<1> QED BY <1>1, DecodeMoves DEF InProgram, decode_busy

\* Fetch has no answer for the place it stands at, or decode takes it.
LEMMA NotAccepted ==
  ASSUME TypeOK, ControlInv, ~halted, ~redirect_valid, ~jump_taken \/ valid,
         NEW c, NEW ack, Edge(c, ack), ~accepted(c)
  PROVE  stall_i(c) \/ ~valid
<1>1. ~issue_valid
  BY RunningMoves
<1> QED BY <1>1 DEF accepted, source_valid, stall_i, redirect_pending

\* A jump stays on its way until it has been followed.
LEMMA StepJumping ==
  ASSUME TypeOK, ControlInv, PathInv, FastBus, NEW c, NEW ack, Edge(c, ack)
  PROVE  Jumping'
<1>1. jump_r' => unit' = "idle"
  BY JumpMoves, TakenMoves DEF PathInv, Jumping
<1>2. ASSUME jump_busy' PROVE jump_r' /\ ~config'.jump_bypass /\ ~jump_taken'
  <2>1. jumps(c) /\ taken(c) /\ InProgram /\ ~config.jump_bypass /\ jump_r'
    BY <1>2, JumpMoves, TakenMoves
  <2>2. ~jump_taken /\ ~redirect_valid /\ ~jump_o(c)
    BY <2>1, JumpMoves DEF PathInv, Jumping, ControlInv, Resuming
  <2>3. ~jump_taken'
    BY <2>2, FetchFlow DEF PathInv, out_jump_o, new_jump
  <2> QED BY <2>1, <2>3, Parts
<1>3. ASSUME InProgram' PROVE ~jump_taken'
  <2>1. CASE InProgram /\ decode_busy(c) /\ ~kill_i(c)
    BY <2>1, HeldMoves, FetchFlow DEF PathInv, new_jump
  <2>2. CASE accepted(c) /\ ~progbuf_source /\ ~kill_i(c)
    BY <2>2, AcceptedMoves, FetchFlow DEF PathInv
  <2> QED BY <1>3, <2>1, <2>2, ProgramMoves
<1>4. ASSUME InProgram', jump_r', ~jump_busy' PROVE ~wb_valid'
  <2>1. ~kill_i(c)
    BY <1>4, ProgramMoves
  <2>2. ~taken(c) /\ jump_r
    BY <1>4, <2>1, JumpMoves DEF kill_i
  <2> QED BY <2>2, TakenMoves DEF PathInv, Jumping
<1> QED BY <1>1, <1>2, <1>3, <1>4 DEF Jumping

\* dpc is written in the first clock of Debug Mode.
LEMMA StepUpdating ==
  ASSUME TypeOK, ControlInv, NEW c, NEW ack, Edge(c, ack)
  PROVE  Updating'
<1> SUFFICES ASSUME update' # NoUpdate PROVE halted' /\ ~valid_o' /\ ~resumereq'
  BY DEF Updating
<1>1. ~halted /\ halted'
  BY HartMoves
<1>2. ~valid_o'
  BY <1>1, EntryMoves
<1>3. ~resumereq'
  BY <1>1, RequestMoves DEF ControlInv, Resuming
<1> QED BY <1>1, <1>2, <1>3

\* Nothing of a jump is lost while decode does not take from fetch.
LEMMA StepStalled ==
  ASSUME TypeOK, ControlInv, PathInv, FastBus, NEW c, NEW ack, Edge(c, ack)
  PROVE  Stalled'
<1>1. ASSUME resumereq' \/ redirect_valid' PROVE ~haltreq'
  BY <1>1, HartMoves, RequestMoves DEF PathInv, Stalled
<1>2. ASSUME state' = "running", haltreq' PROVE dmactive'
  <2>1. ~halted
    BY <1>1, <1>2, HartMoves DEF halted
  <2> QED BY <1>2, <2>1, HartMoves, RequestMoves
<1>3. ASSUME state' \in {"halted", "halt_pending", "step_wait"} \/ redirect_valid', jump_taken'
      PROVE  ~valid' /\ jump_r'
  <2>1. ~redirect_valid
    <3> SUFFICES ASSUME redirect_valid PROVE FALSE
      OBVIOUS
    <3>1. state \in {"running", "step_issue"} /\ ~halted /\ ~haltreq /\ ~InProgram
      BY DEF ControlInv, Resuming, PathInv, Stalled, halted
    <3>2. ~debug_ebreak(c) /\ ~accepted(c)
      BY <3>1, TakenMoves, RunningMoves, DecodeMoves
    <3> QED BY <1>3, <3>1, <3>2, HartMoves DEF halted
  <2>2. CASE new_jump(out_jump_o(c))
    BY <2>1, <2>2, FetchFlow, JumpMoves DEF PathInv, out_jump_o, new_jump
  <2>3. CASE ~new_jump(out_jump_o(c))
    <3>1. jump_taken /\ ~valid /\ ~(stall_i(c) /\ ~out_jump_o(c)) /\ ~InProgram
      BY <1>3, <2>3, FetchFlow DEF PathInv, Jumping
    <3>2. stall_i(c)
      <4> SUFFICES ASSUME ~stall_i(c) PROVE FALSE
        OBVIOUS
      <4>1. (state = "running" /\ ~haltreq) \/ state = "step_issue"
        BY DEF stall_i, allow_fetch
      <4>2. ~debug_ebreak(c) /\ ~halted /\ ~progbuf_source
        BY <3>1, <4>1, TakenMoves, RunningMoves DEF halted
      <4>3. ~accepted(c)
        BY <3>1, <4>2, DecodeMoves
      <4> QED BY <1>3, <4>1, <4>2, <4>3, HartMoves DEF halted
    <3>3. jump_o(c)
      BY <2>1, <3>1, <3>2 DEF out_jump_o
    <3> QED BY <2>3, <3>1, <3>2, <3>3, FetchFlow, JumpMoves DEF PathInv
  <2> QED BY <2>2, <2>3
<1>4. ASSUME jump_r', ~jump_taken', ~InProgram', ~jump_busy'
      PROVE  state' = "halt_pending" /\ dmactive'
  <2>1. ~new_jump(out_jump_o(c))
    BY <1>4, FetchFlow DEF PathInv
  <2>2. ~taken(c) /\ jump_r /\ out_jump_o(c) /\ jump_taken
    <3>1. jump_taken => ~InProgram
      BY DEF PathInv, Jumping
    <3>2. ~jumps(c)
      BY <1>4, <2>1, <3>1, JumpMoves, TakenMoves DEF new_jump, out_jump_o
    <3> QED BY <1>4, <2>1, <3>2, JumpMoves DEF new_jump, out_jump_o
  <2>3. valid /\ ~InProgram /\ ~jump_busy
    BY <1>4, <2>1, <2>2, FetchFlow DEF PathInv, Jumping
  <2>4. state \in {"running", "step_issue"} /\ ~redirect_valid /\ ~halted
    BY <2>2, <2>3 DEF PathInv, Stalled, TypeOK, HartTypeOK, States, halted
  <2>5. /\ ~valid_o /\ ~decode_busy(c) /\ ~progbuf_source /\ ~register_write /\ ~issue_valid
        /\ ~kill_i(c) /\ ~debug_ebreak(c)
    BY <2>2, <2>3, <2>4, RunningMoves, TakenMoves DEF decode_busy
  <2>6. ~allow_fetch
    <3> SUFFICES ASSUME allow_fetch PROVE FALSE
      OBVIOUS
    <3>1. accepted(c)
      BY <2>3, <2>4, <2>5 DEF accepted, source_valid, redirect_pending
    <3> QED BY <1>4, <2>5, <3>1, DecodeMoves
  <2>7. state = "running" /\ haltreq /\ dmactive
    BY <2>4, <2>6 DEF allow_fetch, PathInv, Stalled
  <2> QED BY <2>5, <2>7, HartMoves, RequestMoves
<1> QED BY <1>1, <1>2, <1>3, <1>4 DEF Stalled, halted

\* Fetch stays behind the instruction in decode.
LEMMA StepBehind ==
  ASSUME TypeOK, ControlInv, PathInv, FastBus, NEW c, NEW ack, Edge(c, ack)
  PROVE  Behind'
<1> SUFFICES ASSUME InProgram', ~jump_busy'
             PROVE  NextFetched' = Succ(mepc_o') /\ architectural_next_pc' = Succ(mepc_o')
  BY DEF Behind
<1>1. CASE InProgram /\ decode_busy(c) /\ mepc_o' = mepc_o /\ ~kill_i(c)
  <2>1. /\ ~jump_o(c) /\ ~out_jump_o(c) /\ stall_i(c) /\ ~accepted(c) /\ ~redirect_valid
        /\ ~jump_busy
    BY <1>1, HeldMoves
  <2>2. NextFetched' = NextFetched
    BY <2>1, FetchFlow DEF PathInv, new_jump
  <2>3. architectural_next_pc' = architectural_next_pc
    BY <2>1, NextPcFacts
  <2> QED BY <1>1, <2>1, <2>2, <2>3 DEF PathInv, Behind
<1>2. CASE accepted(c) /\ ~progbuf_source /\ mepc_o' = current_ip[0] /\ ~kill_i(c)
  <2>1. valid /\ ~stall_i(c) /\ ~redirect_valid /\ ~new_jump(out_jump_o(c))
    BY <1>2, AcceptedMoves
  <2>2. NextFetched' = Succ(current_ip[0])
    BY <2>1, FetchFlow DEF PathInv
  <2>3. architectural_next_pc' = Succ(current_ip[0])
    BY <1>2, <2>1, NextPcFacts
  <2> QED BY <1>2, <2>2, <2>3
<1> QED BY <1>1, <1>2, ProgramMoves

\* An EBREAK enters Debug Mode, unless a halt request is abandoned in this clock
\* (rtl/debug/hart_debug.py).
LEMMA EbreakEnters ==
  ASSUME TypeOK, NEW c, NEW ack, Edge(c, ack), debug_ebreak(c), ~halted, ~Abandoned
  PROVE  halted' /\ update' = [dpc |-> mepc_o, cause |-> Ebreak]
BY Parts DEF StateClock, AbandonHalt, EnterByEbreak, AtEbreak, Enter, events, halted

\* A jump is left in the registers only where no word has been executed.
LEMMA StepLeftover ==
  ASSUME TypeOK, ControlInv, PathInv, NEW c, NEW ack, Edge(c, ack)
  PROVE  Leftover'
<1> SUFFICES ASSUME jump_r' PROVE (halted' => ~wb_valid') /\ (redirect_valid' => ~valid_o')
  BY DEF Leftover
<1>1. ASSUME halted PROVE ~taken(c) /\ jump_r /\ unit = "idle" /\ ~wb_valid
  BY <1>1, HaltedMoves, JumpMoves DEF PathInv, Jumping, Leftover
<1>2. ASSUME halted', ~halted PROVE ~taken(c) /\ unit # "last"
  <2>1. ~debug_ebreak(c)
    BY JumpMoves, TakenMoves DEF debug_ebreak, jumps
  <2> QED BY <1>2, <2>1, HartMoves, TakenMoves DEF complete
<1>3. halted' => ~wb_valid'
  BY <1>1, <1>2, TakenMoves
<1>4. ASSUME redirect_valid' PROVE ~valid_o'
  <2>1. halted /\ resumereq
    BY <1>4, HartMoves
  <2>2. ~jump_busy
    BY <2>1 DEF ControlInv, HaltedPipe
  <2>3. ~exec_busy(c)
    BY <1>1, <2>1, <2>2, ChoiceFacts DEF exec_busy, ChoiceOf, Edge
  <2>4. ~decode_busy(c)
    BY <2>3 DEF decode_busy
  <2> QED BY <2>1, <2>4, HaltedMoves, CommandFacts
<1> QED BY <1>3, <1>4

\* Where dpc and the program itself take it after a clock.
LEMMA ExpectMoves ==
  ASSUME TypeOK, ControlInv, PathInv, NEW c, NEW ack, Edge(c, ack)
  PROVE  /\ taken(c) /\ c.does = "dpc" => halted /\ expected' = c.pc
         /\ halted /\ ~(taken(c) /\ c.does = "dpc") =>
               expected' = IF update = NoUpdate THEN expected ELSE update.dpc
         /\ halted /\ taken(c) => instead' = NoPc
         /\ ~halted /\ ~(taken(c) /\ InProgram) => expected' = expected
         /\ ~taken(c) => GoesOn' = GoesOn
         /\ ~taken(c) /\ update = NoUpdate => instead' = instead
         /\ ~taken(c) /\ update # NoUpdate /\ update.dpc = GoesOn => instead' = NoPc
         /\ ~halted /\ taken(c) /\ InProgram =>
               GoesOn' = IF debug_ebreak(c) /\ ~Abandoned THEN mepc_o
                         ELSE IF jumps(c) THEN c.pc ELSE Succ(mepc_o)
<1>1. taken(c) /\ c.does = "dpc" => halted
  <2> SUFFICES ASSUME taken(c), c.does = "dpc" PROVE halted
    OBVIOUS
  <2>1. valid_o /\ source = "dpc"
    BY TakenMoves DEF EffectOf
  <2>2. source \in Words
    BY <2>1 DEF TypeOK, Sources
  <2>3. command_state = "wait_retire"
    BY <2>1, <2>2 DEF ControlInv, WordAtWork
  <2> QED BY <2>3, CommandFacts DEF command_busy
<1>2. taken(c) => valid_o
  BY DEF taken
<1>3. halted => ~InProgram
  BY DEF ControlInv, HaltedPipe
<1>4. ~halted => update = NoUpdate
  BY DEF PathInv, Updating
<1>5. Expect(c)
  BY Parts
<1>6. GoesOn \in Addr /\ NoPc \notin Addr /\ mepc_o \in Addr /\ Succ(mepc_o) \in Addr
  BY GoesOnIsAddr, NotAnAddress, SuccIsAddr DEF TypeOK
<1>7. taken(c) /\ c.does = "dpc" => expected' = c.pc
  BY <1>5 DEF Expect
<1>8. halted /\ ~(taken(c) /\ c.does = "dpc") =>
          expected' = IF update = NoUpdate THEN expected ELSE update.dpc
  BY <1>2, <1>3, <1>5 DEF Expect, InProgram
<1>9. halted /\ taken(c) => instead' = NoPc
  BY <1>5 DEF Expect, Abandoned, halted
<1>10. ~halted /\ ~(taken(c) /\ InProgram) => expected' = expected
  BY <1>1, <1>2, <1>4, <1>5 DEF Expect, InProgram
<1>11. ~taken(c) /\ update = NoUpdate => expected' = expected /\ instead' = instead
  BY <1>5 DEF Expect
<1>12. ~taken(c) /\ update # NoUpdate =>
           expected' = update.dpc /\ instead' = IF update.dpc = GoesOn THEN NoPc ELSE GoesOn
  BY <1>5 DEF Expect
<1>13. ~taken(c) => GoesOn' = GoesOn
  BY <1>6, <1>11, <1>12 DEF GoesOn
<1>14. ASSUME ~halted, taken(c), InProgram
       PROVE  GoesOn' = IF debug_ebreak(c) /\ ~Abandoned THEN mepc_o
                        ELSE IF jumps(c) THEN c.pc ELSE Succ(mepc_o)
  <2>1. /\ expected' = IF c.does = "ebreak" THEN mepc_o
                       ELSE IF c.does = "jump" THEN c.pc ELSE Succ(mepc_o)
        /\ instead' = IF c.does = "ebreak" /\ Abandoned THEN Succ(mepc_o) ELSE NoPc
    BY <1>1, <1>4, <1>5, <1>14 DEF Expect, InProgram
  <2> QED BY <1>6, <1>14, <2>1 DEF GoesOn, debug_ebreak, jumps
<1> QED BY <1>1, <1>7, <1>8, <1>9, <1>10, <1>11, <1>12, <1>13, <1>14

\* The place is kept while the hart is halted: dpc has it, or a jump that fetch has
\* acted on or waits for.
LEMMA PathHalted ==
  ASSUME TypeOK, ControlInv, PathInv, FastBus, NEW c, NEW ack, Edge(c, ack), halted
  PROVE  Path'
<1>1. ~InProgram' /\ ~redirect_valid /\ stall_i(c) /\ ~InProgram
  BY HaltedMoves DEF ControlInv, Resuming, HaltedPipe, halted, stall_i, allow_fetch
<1>2. ASSUME jump_r' PROVE ~taken(c) /\ jump_r /\ jump_dest_r' = jump_dest_r /\ GoesOn' = GoesOn
  BY <1>2, HaltedMoves, JumpMoves, ExpectMoves
<1>3. update # NoUpdate => ~taken(c)
  BY DEF PathInv, Updating, taken
<1>4. jump_r' => jump_dest_r' = GoesOn'
  BY <1>1, <1>2 DEF PathInv, Path
<1>5. ASSUME jump_r', jump_taken' PROVE NextFetched' = jump_dest_r'
  <2>1. jump_o(c) /\ out_jump_o(c) /\ jump_dest_o(c) = jump_dest_r'
    BY <1>2, <1>5, JumpMoves DEF out_jump_o
  <2>2. CASE new_jump(out_jump_o(c))
    <3>1. out_jump_dest_o(c) = jump_dest_r'
      BY <1>1, <2>1 DEF out_jump_dest_o
    <3> QED BY <2>2, <3>1, FetchFlow DEF PathInv
  <2>3. CASE ~new_jump(out_jump_o(c))
    <3>1. NextFetched' = NextFetched /\ jump_taken
      BY <1>1, <1>5, <2>3, FetchFlow DEF PathInv
    <3> QED BY <1>2, <1>5, <3>1 DEF PathInv, Path
  <2> QED BY <2>2, <2>3
<1>6. ASSUME update' = NoUpdate PROVE dpc' = expected'
  <2>1. ChoiceOf(c) /\ CsrClock(csr_writes(c))
    BY ChoiceFacts, Parts DEF Edge
  <2>2. CASE taken(c) /\ c.does = "dpc"
    BY <2>1, <2>2, CsrFacts, ExpectMoves
  <2>3. CASE ~(taken(c) /\ c.does = "dpc")
    <3>1. expected' = IF update = NoUpdate THEN expected ELSE update.dpc
      BY <2>3, ExpectMoves
    <3>2. update = NoUpdate => dpc = expected
      BY DEF PathInv, Path
    <3>3. taken(c) /\ c.does \in {"dcsr", "csr"} => dpc' = dpc
      BY <2>1, CsrFacts
    <3>4. ~(taken(c) /\ c.does \in {"dcsr", "csr"}) =>
              dpc' = IF update = NoUpdate THEN dpc ELSE update.dpc
      BY <2>1, <2>3, CsrFacts
    <3> QED BY <1>3, <3>1, <3>2, <3>3, <3>4
  <2> QED BY <2>2, <2>3
<1>7. ASSUME redirect_valid' PROVE redirect_pc' = expected'
  <2>1. redirect_pc' = dpc /\ resumereq
    BY <1>7, HartMoves
  <2>2. update = NoUpdate /\ ~(taken(c) /\ c.does = "dpc")
    <3>1. update = NoUpdate
      BY <2>1 DEF PathInv, Updating
    <3>2. source \notin Words \/ ~valid_o
      BY <2>1, CommandFacts DEF ControlInv, WordAtWork, command_busy
    <3>3. taken(c) /\ c.does = "dpc" => valid_o /\ source = "dpc"
      BY TakenMoves DEF EffectOf
    <3> QED BY <3>1, <3>2, <3>3 DEF TypeOK, Sources
  <2>3. expected' = expected
    BY <2>2, ExpectMoves
  <2> QED BY <2>1, <2>2, <2>3 DEF PathInv, Path
<1>8. (halted' \/ redirect_valid') /\ update' = NoUpdate
  BY HartMoves
<1>9. instead' = NoPc \/ jump_r'
  <2>1. CASE taken(c)
    BY <2>1, ExpectMoves
  <2>2. CASE ~taken(c) /\ update = NoUpdate
    BY <2>2, ExpectMoves, JumpMoves DEF PathInv, Path
  <2>3. CASE ~taken(c) /\ update # NoUpdate
    BY <2>3, ExpectMoves, JumpMoves DEF PathInv, Path
  <2> QED BY <2>1, <2>2, <2>3
<1> QED BY <1>1, <1>4, <1>5, <1>6, <1>7, <1>8, <1>9 DEF Path

\* The resume redirect restarts fetch at dpc, unless a jump is left that fetch has
\* acted on.
LEMMA PathRedirected ==
  ASSUME TypeOK, ControlInv, PathInv, FastBus, NEW c, NEW ack, Edge(c, ack), redirect_valid
  PROVE  Path'
<1>1. /\ ~halted /\ ~InProgram /\ ~jump_busy /\ stall_i(c) /\ kill_i(c) /\ out_jump_o(c)
      /\ out_jump_dest_o(c) = redirect_pc /\ update = NoUpdate
      /\ state \in {"running", "step_issue"}
  BY DEF ControlInv, Resuming, halted, stall_i, kill_i, flush, out_jump_o, out_jump_dest_o,
         PathInv, Updating
<1>2. ~InProgram' /\ ~halted' /\ ~redirect_valid' /\ update' = NoUpdate
  <2>1. ~InProgram'
    BY <1>1, ProgramMoves
  <2>2. ~debug_ebreak(c)
    BY <1>1, TakenMoves
  <2> QED BY <1>1, <2>1, <2>2, HartMoves
<1>3. expected' = expected /\ redirect_pc = expected
  BY <1>1, ExpectMoves DEF PathInv, Path
<1>4. jump_taken => jump_r
  BY DEF PathInv, Stalled
<1>5. CASE jump_r
  <2>1. ~taken(c)
    BY <1>5 DEF PathInv, Leftover, taken
  <2>2. jump_taken /\ NextFetched = jump_dest_r /\ jump_dest_r = GoesOn
    BY <1>1, <1>5 DEF PathInv, Stalled, Path
  <2>3. jump_r' /\ jump_dest_r' = jump_dest_r /\ GoesOn' = GoesOn
    BY <1>5, <2>1, JumpMoves, ExpectMoves
  <2>4. NextFetched' = NextFetched
    BY <1>1, <2>2, FetchFlow DEF PathInv, new_jump
  <2> QED BY <1>2, <2>2, <2>3, <2>4 DEF Path
<1>6. CASE ~jump_r
  <2>1. ~jump_r'
    BY <1>1, <1>6, JumpMoves, TakenMoves
  <2>2. NextFetched' = expected
    BY <1>1, <1>3, <1>4, <1>6, FetchFlow DEF PathInv, new_jump
  <2>3. architectural_next_pc' = expected
    BY <1>3, NextPcFacts
  <2>4. instead' = NoPc
    <3>1. CASE taken(c)
      <4>1. c.does # "ebreak"
        BY <1>1, <3>1, TakenMoves DEF EffectOf, InProgram
      <4> QED BY <3>1, <4>1, Parts DEF Expect
    <3>2. CASE ~taken(c)
      BY <1>1, <1>6, <3>2, ExpectMoves DEF PathInv, Path
    <3> QED BY <3>1, <3>2
  <2>5. GoesOn' = expected
    BY <1>3, <2>4 DEF GoesOn
  <2> QED BY <1>2, <2>1, <2>2, <2>3, <2>5 DEF Path
<1> QED BY <1>5, <1>6

\* An instruction of the program is executed: its successor is the next one in fetch.
LEMMA PathTaken ==
  ASSUME TypeOK, ControlInv, PathInv, FastBus, NEW c, NEW ack, Edge(c, ack),
         ~halted, ~redirect_valid, taken(c)
  PROVE  Path'
<1>1. /\ InProgram /\ ~jump_busy /\ ~jump_taken /\ ~decode_busy(c) /\ ~pipeline_empty(c)
      /\ ~register_write /\ ~issue_valid /\ ~progbuf_source
  BY RunningMoves, TakenMoves DEF PathInv, Jumping
<1>2. /\ mepc_o = GoesOn
      /\ NextFetched = Succ(mepc_o) /\ architectural_next_pc = Succ(mepc_o)
  BY <1>1, ExpectMoves DEF PathInv, Path, Behind
<1>3. ~redirect_valid'
  BY HartMoves
<1>4. CASE debug_ebreak(c)
  <2>1. ~jumps(c) /\ kill_i(c)
    BY <1>4 DEF debug_ebreak, jumps, kill_i, flush
  <2>2. ~jump_r' /\ ~jump_o(c) /\ ~out_jump_o(c) /\ ~InProgram'
    BY <2>1, JumpMoves, ProgramMoves DEF out_jump_o
  <2>3. CASE Abandoned
    <3>1. GoesOn' = Succ(mepc_o)
      BY <1>1, <2>1, <2>3, ExpectMoves
    <3>2. stall_i(c) /\ ~allow_fetch
      BY <2>3 DEF Abandoned, stall_i, allow_fetch
    <3>3. NextFetched' = NextFetched
      BY <2>2, <3>2, FetchFlow DEF PathInv, new_jump
    <3>4. architectural_next_pc' = architectural_next_pc
      BY <1>1, <2>2, <3>2, NextPcFacts, DecodeMoves
    <3>5. update' = NoUpdate /\ ~halted'
      BY <1>1, <2>3, HartMoves DEF Abandoned, halted
    <3> QED BY <1>2, <1>3, <2>2, <3>1, <3>3, <3>4, <3>5 DEF Path
  <2>4. CASE ~Abandoned
    <3>1. GoesOn' = mepc_o
      BY <1>1, <1>4, <2>4, ExpectMoves
    <3>2. halted' /\ update' = [dpc |-> mepc_o, cause |-> Ebreak]
      BY <1>1, <1>4, <2>4, EbreakEnters
    <3>3. update' # NoUpdate /\ update'.dpc = mepc_o
      BY <3>2, NotAnAddress DEF NoUpdate, TypeOK
    <3> QED BY <1>3, <2>2, <3>1, <3>2, <3>3 DEF Path
  <2> QED BY <2>3, <2>4
<1>5. CASE ~debug_ebreak(c)
  <2>1. ~halted' /\ update' = NoUpdate
    BY <1>1, <1>5, HartMoves DEF complete
  <2>2. CASE jumps(c)
    <3>1. GoesOn' = c.pc /\ jump_r' /\ jump_dest_r' = c.pc
      BY <1>1, <1>5, <2>2, ExpectMoves, JumpMoves
    <3>2. CASE config.jump_bypass
      <4>1. ~InProgram'
        BY <2>2, <3>2, ProgramMoves DEF kill_i
      <4>2. jump_o(c) /\ new_jump(out_jump_o(c)) /\ out_jump_dest_o(c) = c.pc
        <5>1. jump_o(c)
          BY <2>2, <3>2, JumpMoves
        <5>2. jump_dest_o(c) = c.pc
          BY <3>1, <5>1, JumpMoves
        <5> QED BY <1>1, <5>1, <5>2 DEF new_jump, out_jump_o, out_jump_dest_o
      <4>3. NextFetched' = c.pc
        BY <4>2, FetchFlow DEF PathInv
      <4> QED BY <1>3, <2>1, <3>1, <4>1, <4>3 DEF Path
    <3>3. CASE ~config.jump_bypass
      <4>1. jump_busy'
        BY <2>2, <3>3, JumpMoves
      <4>2. ~jump_taken'
        BY <4>1, StepJumping DEF Jumping
      <4> QED BY <1>3, <2>1, <3>1, <4>1, <4>2 DEF Path
    <3> QED BY <3>2, <3>3
  <2>3. CASE ~jumps(c)
    <3>1. GoesOn' = Succ(mepc_o) /\ ~jump_r' /\ ~jump_busy' /\ ~jump_o(c) /\ ~out_jump_o(c)
      BY <1>1, <1>5, <2>3, ExpectMoves, JumpMoves DEF out_jump_o
    <3>2. ~kill_i(c)
      BY <1>1, <1>5, <2>3, RunningMoves
    <3>3. CASE accepted(c)
      <4>1. InProgram' /\ mepc_o' = current_ip[0] /\ valid
        BY <1>1, <3>2, <3>3, DecodeMoves
      <4>2. mepc_o' = GoesOn'
        BY <1>2, <3>1, <4>1 DEF NextFetched
      <4> QED BY <1>3, <2>1, <3>1, <4>1, <4>2 DEF Path
    <3>4. CASE ~accepted(c)
      <4>1. stall_i(c) \/ ~valid
        BY <1>1, <3>4, NotAccepted
      <4>2. NextFetched' = NextFetched
        BY <3>1, <4>1, FetchFlow DEF PathInv, new_jump
      <4>3. architectural_next_pc' = architectural_next_pc
        BY <3>1, <3>4, NextPcFacts
      <4>4. ~InProgram'
        BY <1>1, <3>4, ProgramMoves
      <4> QED BY <1>2, <1>3, <2>1, <3>1, <4>2, <4>3, <4>4 DEF Path
    <3> QED BY <3>3, <3>4
  <2> QED BY <2>2, <2>3
<1> QED BY <1>4, <1>5

\* Nothing is executed: a jump gets to fetch, or decode takes what fetch offers.
LEMMA PathWaiting ==
  ASSUME TypeOK, ControlInv, PathInv, FastBus, NEW c, NEW ack, Edge(c, ack),
         ~halted, ~redirect_valid, ~taken(c)
  PROVE  Path'
<1>1. /\ GoesOn' = GoesOn
      /\ (jump_r' <=> jump_r) /\ jump_dest_r' = jump_dest_r /\ ~jump_busy'
      /\ (jump_o(c) <=> jump_r) /\ (out_jump_o(c) <=> jump_r)
      /\ (jump_r => out_jump_dest_o(c) = jump_dest_r)
  <2>1. ~jumps(c)
    BY DEF jumps
  <2> QED BY <2>1, ExpectMoves, JumpMoves DEF out_jump_o, out_jump_dest_o
<1>2. ~redirect_valid'
  BY HartMoves
<1>3. /\ ~register_write /\ ~issue_valid /\ ~progbuf_source /\ ~debug_ebreak(c)
      /\ valid_o => InProgram
  BY RunningMoves, TakenMoves
<1>4. jump_taken' => ~InProgram'
  BY StepJumping DEF Jumping
<1>5. CASE InProgram
  <2>1. decode_busy(c) /\ ~pipeline_empty(c) /\ ~accepted(c)
    BY <1>5, TakenMoves DEF InProgram, accepted
  <2>2. ~halted' /\ update' = NoUpdate
    BY <1>3, <2>1, HartMoves DEF complete
  <2>3. CASE jump_busy
    <3>1. jump_r /\ ~config.jump_bypass /\ ~jump_taken /\ jump_dest_r = GoesOn
      BY <1>1, <2>3 DEF PathInv, Jumping, Path
    <3>2. ~InProgram'
      BY <2>1, <2>3, <3>1, ProgramMoves DEF kill_i
    <3>3. NextFetched' = jump_dest_r
      BY <1>1, <3>1, FetchFlow DEF PathInv, new_jump
    <3> QED BY <1>1, <1>2, <2>2, <3>1, <3>2, <3>3 DEF Path
  <2>4. CASE ~jump_busy
    <3>1. ~kill_i(c)
      <4>1. ~jumps(c)
        BY DEF jumps
      <4> QED BY <1>3, <2>4, <4>1, RunningMoves
    <3>2. InProgram' /\ mepc_o' = mepc_o
      BY <1>3, <1>5, <2>1, <3>1, DecodeMoves DEF InProgram
    <3>3. ~jump_r
      BY <1>5, <2>1, <3>1, HeldMoves
    <3> QED BY <1>1, <1>2, <1>5, <2>2, <2>4, <3>2, <3>3 DEF Path, PathInv
  <2> QED BY <2>3, <2>4
<1>6. CASE ~InProgram
  <2>1. ~valid_o /\ ~decode_busy(c)
    BY <1>3, <1>6 DEF decode_busy
  <2>2. update' # NoUpdate =>
            /\ update'.dpc = next_pc(jump_o(c), jump_dest_o(c)) /\ ~jump_busy
            /\ \/ update'.cause = HaltRequest
               \/ active /\ ~active_progbuf
    BY <1>3, HartMoves, TakenMoves DEF complete
  <2>3. halted' => update' # NoUpdate
    <3>1. next_pc(jump_o(c), jump_dest_o(c)) # NoPc
      BY AdapterType, NotAnAddress
    <3> QED BY <1>3, <3>1, HartMoves DEF NoUpdate
  <2>4. CASE jump_r
    <3>1. jump_dest_r = GoesOn /\ jump_o(c) /\ jump_dest_o(c) = jump_dest_r
      BY <1>1, <1>6, <2>4, JumpMoves DEF PathInv, Path
    <3>2. update' # NoUpdate =>
              update'.dpc = GoesOn' \/ (update'.cause = HaltRequest /\ jump_r')
      BY <1>1, <2>2, <2>4, <3>1 DEF next_pc
    <3>3. CASE ~jump_taken
      <4>1. NextFetched' = jump_dest_r /\ jump_taken'
        BY <1>1, <2>4, <3>3, FetchFlow DEF PathInv, new_jump
      <4> QED BY <1>1, <1>2, <1>4, <2>3, <2>4, <3>1, <3>2, <4>1 DEF Path
    <3>4. CASE jump_taken
      <4>1. ~jump_busy /\ NextFetched = jump_dest_r /\ ~new_jump(out_jump_o(c))
        BY <1>1, <2>4, <3>4 DEF PathInv, Jumping, Path, new_jump
      <4>2. CASE accepted(c)
        <5>1. ~kill_i(c)
          <6>1. ~jumps(c)
            BY DEF jumps
          <6> QED BY <1>3, <4>1, <6>1, RunningMoves
        <5>2. InProgram' /\ mepc_o' = current_ip[0] /\ valid
          BY <1>3, <4>2, <5>1, DecodeMoves
        <5>3. mepc_o' = GoesOn' /\ ~jump_taken'
          BY <1>1, <1>4, <3>1, <4>1, <5>2 DEF NextFetched
        <5> QED BY <1>1, <1>2, <2>3, <2>4, <3>2, <5>2, <5>3 DEF Path
      <4>3. CASE ~accepted(c)
        <5>1. ~InProgram'
          BY <1>6, <4>3, ProgramMoves
        <5>2. jump_taken' => NextFetched' = NextFetched
          BY <4>1, FetchFlow DEF PathInv
        <5> QED BY <1>1, <1>2, <2>3, <2>4, <3>1, <3>2, <4>1, <5>1, <5>2 DEF Path
      <4> QED BY <4>2, <4>3
    <3> QED BY <3>3, <3>4
  <2>5. CASE ~jump_r
    <3>1. ~jump_busy /\ NextFetched = GoesOn /\ architectural_next_pc = GoesOn
      BY <1>1, <1>6, <2>5 DEF PathInv, Jumping, Path
    <3>2. ~jump_o(c) /\ next_pc(jump_o(c), jump_dest_o(c)) = GoesOn
      BY <1>1, <2>5, <3>1, NextPcFacts
    <3>3. update' # NoUpdate => update'.dpc = GoesOn'
      BY <1>1, <2>2, <3>2
    <3>4. CASE accepted(c)
      <4>1. ~kill_i(c)
        <5>1. ~jumps(c)
          BY DEF jumps
        <5> QED BY <1>3, <3>1, <5>1, RunningMoves
      <4>2. InProgram' /\ mepc_o' = current_ip[0] /\ valid
        BY <1>3, <3>4, <4>1, DecodeMoves
      <4>3. mepc_o' = GoesOn'
        BY <1>1, <3>1, <4>2 DEF NextFetched
      <4> QED BY <1>1, <1>2, <2>3, <2>5, <3>3, <4>2, <4>3 DEF Path
    <3>5. CASE ~accepted(c)
      <4>1. ~InProgram'
        BY <1>6, <3>5, ProgramMoves
      <4>2. NextFetched' = NextFetched
        <5>1. stall_i(c) \/ ~valid
          BY <3>5, NotAccepted
        <5> QED BY <1>1, <2>5, <5>1, FetchFlow DEF PathInv, new_jump
      <4>3. architectural_next_pc' = architectural_next_pc
        BY <3>1, <3>2, <3>5, NextPcFacts
      <4> QED BY <1>1, <1>2, <2>3, <2>5, <3>1, <3>3, <4>1, <4>2, <4>3 DEF Path
    <3> QED BY <3>4, <3>5
  <2> QED BY <2>4, <2>5
<1> QED BY <1>5, <1>6

\* The core leaves reset with fetch at the reset address.
LEMMA InitPath == Init => PathInv
<1> SUFFICES ASSUME Init PROVE PathInv
  OBVIOUS
<1>1. InReset /\ Requested /\ Chain
  BY DEF Init, FetchInit, HartInit, InReset, Requested, Chain, redirect_valid
<1>2. Jumping /\ Stalled /\ Behind /\ Leftover /\ Updating
  BY DEF Init, FetchInit, HartInit, DmiInit, Jumping, Stalled, Behind, Leftover, Updating,
     InProgram, redirect_valid
<1>3. Path
  BY DEF Init, FetchInit, HartInit, AdapterInit, Path, GoesOn, InProgram, halted, redirect_valid,
     NextFetched, NextParked, NextRequested
<1> QED BY <1>1, <1>2, <1>3 DEF PathInv

\* A clock edge keeps the invariant of the addresses.
LEMMA StepPath ==
  ASSUME FastBus PROVE TypeOK /\ ControlInv /\ PathInv /\ [Next]_vars => PathInv'
<1> SUFFICES ASSUME TypeOK, ControlInv, PathInv, [Next]_vars PROVE PathInv'
  OBVIOUS
<1>1. CASE UNCHANGED vars
  <2> USE <1>1 DEF vars, fetchVars, coreVars, adapterVars, hartVars, dmiVars, PathInv
  <2>1. InReset' /\ Requested' /\ Chain'
    BY DEF InReset, Requested, Chain, NextParked, NextRequested, redirect_valid
  <2>2. Jumping' /\ Stalled' /\ Updating' /\ Leftover'
    BY DEF Jumping, Stalled, Updating, Leftover, InProgram, halted, redirect_valid
  <2>3. Behind' /\ Path'
    BY DEF Behind, Path, GoesOn, InProgram, halted, redirect_valid, NextFetched, NextParked,
       NextRequested
  <2> QED BY <2>1, <2>2, <2>3
<1>2. CASE Next
  <2>1. PICK ack \in BOOLEAN, c \in Choices : Edge(c, ack)
    BY <1>2 DEF Next, Edge
  <2>2. InReset' /\ Requested' /\ Chain'
    BY <2>1, FetchFlow DEF PathInv, InReset
  <2>3. Path'
    BY <2>1, PathHalted, PathRedirected, PathTaken, PathWaiting
  <2> QED BY <2>1, <2>2, <2>3, StepJumping, StepStalled, StepBehind, StepLeftover,
         StepUpdating DEF PathInv
<1> QED BY <1>1, <1>2

\* With a bus that answers in the next clock fetch, decode, the jump registers, the
\* adapter and dpc agree on where the program goes on.
THEOREM PathInvariant == ASSUME FastBus PROVE Spec => []PathInv
<1>1. Init => TypeOK /\ ControlInv /\ PathInv
  BY InitType, InitControl, InitPath
<1>2. TypeOK /\ ControlInv /\ PathInv /\ [Next]_vars => (TypeOK /\ ControlInv /\ PathInv)'
  BY StepType, StepControl, StepPath
<1> QED BY <1>1, <1>2, PTL DEF Spec

\* The debugger is transparent to the program (rtl/debug/hart_debug.py and
\* rtl/debug/pipeline_adapter.py): whatever it halts, steps, executes and writes, and
\* whatever the program is, the next instruction of the program that is executed is
\* the one at GoesOn: behind the last one, at the target of a jump, at an EBREAK
\* again, where dpc says after a halt, with the two exceptions named at GoesOn.
\* The bus answers in the next clock.
THEOREM SpecTransparent == ASSUME FastBus PROVE Spec => []Transparent
<1>1. PathInv => Transparent
  BY DEF PathInv, Path, Transparent, InProgram
<1> QED BY <1>1, PathInvariant, PTL

\* The hart enters Debug Mode with the program's next address in dpc, but for a halt
\* request right after a jump, and nothing in the pipeline keeps the control from
\* writing it (rtl/debug/debug_csrs.py:73-83).
THEOREM SpecEntryPc == ASSUME FastBus PROVE Spec => EntryPc
<1> DEFINE A == update # NoUpdate =>
                   /\ dpc' = update.dpc
                   /\ \/ update.dpc = GoesOn
                      \/ update.cause = HaltRequest /\ jump_r
<1>1. TypeOK /\ PathInv /\ [Next]_vars => [A]_vars
  <2> SUFFICES ASSUME TypeOK, PathInv, Next, update # NoUpdate
               PROVE  /\ dpc' = update.dpc
                      /\ \/ update.dpc = GoesOn
                         \/ update.cause = HaltRequest /\ jump_r
    OBVIOUS
  <2>1. PICK ack \in BOOLEAN, c \in Choices : Edge(c, ack)
    BY DEF Next, Edge
  <2>2. ChoiceOf(c) /\ CsrClock(csr_writes(c))
    BY <2>1, ChoiceFacts, Parts DEF Edge
  <2>3. ~taken(c)
    BY DEF PathInv, Updating, taken
  <2>4. dpc' = update.dpc
    BY <2>2, <2>3, CsrFacts
  <2> QED BY <2>4 DEF PathInv, Path
<1> QED BY <1>1, TypeCorrect, PathInvariant, PTL DEF Spec, EntryPc

=============================================================================
