------------------------------ MODULE FrontEnd ------------------------------
(***************************************************************************)
(* The control path of the core: the fetch stage (rtl/fetch.py), the valid *)
(* bit of the decode stage (rtl/decode.py), the jump registers of the      *)
(* execute stage (rtl/execute.py) and their handshakes, wired as           *)
(* rtl/bonfire_core_top.py and rtl/simple_pipeline.py wire them.           *)
(*                                                                         *)
(* What an instruction computes is left out: whether it jumps, where to,   *)
(* and how many clocks its unit stays busy are choices of the environment. *)
(* Every word decodes to a valid instruction.  A step is a clock edge.     *)
(***************************************************************************)
EXTENDS FetchUnit

CONSTANT JumpBypass     \* config.jump_bypass

ASSUME ConfigAssumption == JumpBypass \in BOOLEAN

VARIABLES
    valid_o,        \* decode holds an instruction ...
    debug_current_ip_o,     \* ... fetched from here ...
    debug_word_o,           \* ... with this word
    jump_r, jump_dest_r,    \* the last executed instruction jumped, and where
    jump_busy,              \* used without JumpBypass only
    unit_busy,      \* a multi-cycle unit (load/store, shifter) is at work
    issued          \* history: the last instruction executed

coreVars == <<pend, valid_o, debug_current_ip_o, debug_word_o,
              jump_r, jump_dest_r, jump_busy, unit_busy, issued>>
vars == <<fetchVars, coreVars>>

-----------------------------------------------------------------------------
(* Combinational signals between the stages. *)

exec_busy == unit_busy \/ jump_busy
taken == valid_o /\ ~exec_busy
\* decode.busy_o, which is the stall input of the fetch stage
stall_i == valid_o /\ exec_busy

\* jump, dest: what the instruction in execute decides, when one is taken
jump_o(jump) == IF taken /\ JumpBypass THEN jump ELSE jump_r /\ ~taken
jump_dest_o(dest) == IF taken /\ JumpBypass THEN dest ELSE jump_dest_r
kill_iNever(jump) == FALSE       \* mutant: decode survives the jump
kill_i(jump) == IF JumpBypass THEN taken /\ jump ELSE jump_busy

-----------------------------------------------------------------------------
(* Decode and execute. *)

DecodeClock(jump) ==
    \/ /\ kill_i(jump)
       /\ valid_o' = FALSE
       /\ UNCHANGED <<debug_current_ip_o, debug_word_o>>
    \/ /\ ~kill_i(jump) /\ ~stall_i /\ valid
       /\ valid_o' = TRUE
       /\ debug_current_ip_o' = current_ip[0]
       /\ debug_word_o' = current_word[0]
    \/ /\ ~kill_i(jump) /\ ~stall_i /\ ~valid
       /\ valid_o' = FALSE
       /\ UNCHANGED <<debug_current_ip_o, debug_word_o>>
    \/ /\ ~kill_i(jump) /\ stall_i
       /\ UNCHANGED <<valid_o, debug_current_ip_o, debug_word_o>>

\* An instruction enters execute; a jump does not occupy a unit.
Execute(jump, dest, multicycle) ==
    /\ taken
    /\ jump_r' = jump
    /\ jump_dest_r' = IF jump THEN dest ELSE 0
    /\ jump_busy' = (jump /\ ~JumpBypass)
    /\ unit_busy' = (multicycle /\ ~jump)
    /\ issued' = [ip |-> debug_current_ip_o, word |-> debug_word_o,
                  next |-> IF jump THEN dest ELSE Succ(debug_current_ip_o),
                  toggle |-> ~issued.toggle]

\* No instruction enters execute; a busy unit may complete.
Wait(multicycle) ==
    /\ ~taken
    /\ jump_busy' = FALSE
    /\ unit_busy' = (unit_busy /\ multicycle)
    /\ UNCHANGED <<jump_r, jump_dest_r, issued>>

\* One clock edge of everything, with the inputs the environment chooses.
Clock(ack, jump, dest, multicycle) ==
    LET en == en_o(stall_i, jump_o(jump))
    IN  /\ MayAnswer(ack)
        /\ BusClock(en, ack)
        /\ FetchClock(stall_i, jump_o(jump), jump_dest_o(dest),
                      bus_stall_i(en, ack), ack, pend)
        /\ DecodeClock(jump)
        /\ Execute(jump, dest, multicycle) \/ Wait(multicycle)

Init ==
    /\ FetchInit
    /\ pend = NoRequest
    /\ valid_o = FALSE /\ debug_current_ip_o = 0 /\ debug_word_o = 0
    /\ jump_r = FALSE /\ jump_dest_r = 0 /\ jump_busy = FALSE
    /\ unit_busy = FALSE
    /\ issued = [ip |-> 0, word |-> 0, next |-> 0, toggle |-> FALSE]

\* Only an executing instruction jumps, only a jump has a destination.
Decides(jump, dest) == (jump => taken) /\ (~jump => dest = 0)

Next == \E ack, jump, multicycle \in BOOLEAN, dest \in Addr :
            Decides(jump, dest) /\ Clock(ack, jump, dest, multicycle)

Spec == Init /\ [][Next]_vars

(* The clock runs, the bus slave answers an accepted request, and a unit   *)
(* completes.                                                              *)
BusAnswers == \E jump, multicycle \in BOOLEAN, dest \in Addr :
                  Decides(jump, dest) /\ Clock(TRUE, jump, dest, multicycle)
UnitCompletes == unit_busy /\ \E ack \in BOOLEAN : Clock(ack, FALSE, 0, FALSE)

FairSpec == Spec /\ WF_vars(Next) /\ WF_vars(BusAnswers) /\ WF_vars(UnitCompletes)

-----------------------------------------------------------------------------
(* Properties. *)

TypeOK ==
    /\ FetchTypeOK
    /\ pend \in Addr \cup {NoRequest}
    /\ valid_o \in BOOLEAN /\ unit_busy \in BOOLEAN
    /\ jump_r \in BOOLEAN /\ jump_busy \in BOOLEAN
    /\ debug_current_ip_o \in Addr /\ debug_word_o \in Addr
    /\ jump_dest_r \in Addr
    /\ issued \in [ip : Addr, word : Addr, next : Addr, toggle : BOOLEAN]

\* The address that comes next after everything before the given place ...
NextRequested == IF pend # NoRequest THEN pend ELSE ip
NextParked == IF busy THEN current_ip[1] ELSE NextRequested
NextFetched == IF valid THEN current_ip[0] ELSE NextParked

\* An executed jump fetch has not acted on.  In the registered mode it is
\* visible in jump_busy first.
RedirectDue == jump_busy \/ (jump_r /\ ~jump_taken /\ ~valid_o)

\* ... and so the address of the next instruction in program order.
pc == IF RedirectDue THEN jump_dest_r
      ELSE IF valid_o THEN debug_current_ip_o
      ELSE NextFetched

\* The control path implements the instruction stream: whatever the bus, the
\* stalls and the jumps do, no instruction is lost, executed twice, executed
\* on a wrong path or paired with the word of another address (rtl/fetch.py
\* and the kill_i/jump_o handshake of rtl/execute.py).
Stream == INSTANCE InstructionStream WITH Addresses <- Addr, Start <- ResetAddress
StreamSpec == Stream!Spec

\* The skid entry is never overrun and never passed by a younger word: the
\* check rtl/fetch.py keeps as a comment (ack_i while busy).
NoAckWhileBusy == busy => pend = NoRequest

\* Why the stream is in order: the occupied places hold consecutive addresses,
\* each with its own word, unless a jump is due, and then nothing younger than
\* the jump is left to be executed but the answer on the bus.
InReset == ~run => /\ ~valid /\ ~busy /\ ~outstanding /\ ~jump_taken
                   /\ ~valid_o /\ ~jump_r /\ ~jump_busy
                   /\ ip = ResetAddress /\ pend = NoRequest

Bookkeeping ==
    /\ outstanding <=> pend # NoRequest
    /\ NoAckWhileBusy
    /\ jump_r => ~unit_busy
    /\ jump_busy => jump_r /\ ~JumpBypass
    /\ jump_taken => jump_r /\ ~valid_o /\ ~jump_busy
    /\ RedirectDue /\ ~jump_busy => ~valid /\ ~busy /\ outstanding /\ JumpBypass

WordsMatch ==
    /\ valid => current_word[0] = current_ip[0]
    /\ busy => current_word[1] = current_ip[1]
    /\ valid_o => debug_word_o = debug_current_ip_o

Consecutive ==
    ~RedirectDue =>
        /\ pend # NoRequest => pend = current_ip[2] /\ ip = Succ(pend)
        /\ busy => NextRequested = Succ(current_ip[1])
        /\ valid => NextParked = Succ(current_ip[0])
        /\ valid_o => NextFetched = Succ(debug_current_ip_o)

PathInv == InReset /\ Bookkeeping /\ WordsMatch /\ Consecutive

\* The front end never hangs: as long as the bus answers and units complete,
\* another instruction always reaches execute.
AlwaysIssues == []<><<taken>>_vars

=============================================================================
