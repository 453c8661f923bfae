----------------------------- MODULE FetchUnit -----------------------------
(***************************************************************************)
(* The instruction fetch stage, rtl/fetch.py (FetchUnit.SimpleFetchUnit).  *)
(*                                                                         *)
(* Every register of the stage is a variable, every combinational signal   *)
(* an operator of the stage's inputs, and one rising clock edge is one     *)
(* step of FetchClock.  Addresses count 32-bit words and wrap at N, as the *)
(* word part of the 32-bit instruction pointer does at 2^30.  The words    *)
(* themselves are abstract: a word is named by the address it was read     *)
(* from, so that "the word belongs to this instruction pointer" is an      *)
(* equation.  N is the only bound of the module.                           *)
(***************************************************************************)
EXTENDS Naturals

CONSTANTS
    N,              \* number of word addresses
    ResetAddress    \* config.reset_address, as a word address

ASSUME AddressAssumption == N \in Nat \ {0} /\ ResetAddress \in 0 .. N - 1

VARIABLES
    ip,             \* address of the next request
    busy,           \* the skid entry (index 1) is occupied
    valid,          \* the output entry (index 0) is offered to decode
    jump_taken,     \* the jump on jump_i has been acted on already
    run,            \* out of reset
    outstanding,    \* a request is waiting for its acknowledge
    current_word,   \* [0 .. 1 -> Addr]: output and skid word
    current_ip      \* [0 .. 2 -> Addr]: output, skid and requested address

fetchVars == <<ip, busy, valid, jump_taken, run, outstanding,
               current_word, current_ip>>

Addr == 0 .. N - 1
SuccUnwrapped(a) == a + 1       \* mutant: the counter does not wrap
Succ(a) == (a + 1) % N

FetchTypeOK ==
    /\ ip \in Addr
    /\ busy \in BOOLEAN /\ valid \in BOOLEAN
    /\ jump_taken \in BOOLEAN /\ run \in BOOLEAN /\ outstanding \in BOOLEAN
    /\ current_word \in [0 .. 1 -> Addr]
    /\ current_ip \in [0 .. 2 -> Addr]

FetchInit ==
    /\ ip = ResetAddress
    /\ busy = FALSE /\ valid = FALSE /\ jump_taken = FALSE
    /\ run = FALSE /\ outstanding = FALSE
    /\ current_word = [i \in 0 .. 1 |-> 0]
    /\ current_ip = [i \in 0 .. 2 |-> 0]

-----------------------------------------------------------------------------
(* Combinational signals. *)

new_jump(jump_i) == jump_i /\ ~jump_taken

\* ibus.en_o; the address driven with it is always ip.
en_o(stall_i, jump_i) == ~busy /\ run /\ ~stall_i /\ ~new_jump(jump_i)

\* The jump has been acted on, its first instruction has not arrived.
redirect_pending == jump_taken /\ ~valid

\* A jump has to wait while the answer to an older request is missing.
CanRedirect(jump_i, ack_i) == new_jump(jump_i) /\ (~outstanding \/ ack_i)

-----------------------------------------------------------------------------
(* One clock edge. *)

\* mutant: an answer is noticed together with a new request only
TrackOutstandingMissed(en, ack_i) ==
    IF en /\ ~ack_i THEN outstanding' = TRUE ELSE UNCHANGED outstanding

TrackOutstanding(en, ack_i) ==
    \/ en /\ ~ack_i /\ outstanding' = TRUE
    \/ ~en /\ ack_i /\ outstanding' = FALSE
    \/ (en <=> ack_i) /\ UNCHANGED outstanding

\* First clock after reset: the stage only starts to run.
LeaveReset ==
    /\ ~run
    /\ run' = TRUE
    /\ UNCHANGED <<ip, busy, valid, jump_taken, current_word, current_ip>>

\* mutant: the output survives the jump
RedirectKeepingOutput(jump_i, jump_dest_i, ack_i) ==
    /\ run /\ CanRedirect(jump_i, ack_i)
    /\ ip' = jump_dest_i
    /\ jump_taken' = TRUE
    /\ busy' = FALSE
    /\ UNCHANGED <<valid, run, current_word, current_ip>>

\* A new jump empties the stage and restarts it at the destination.
Redirect(jump_i, jump_dest_i, ack_i) ==
    /\ run /\ CanRedirect(jump_i, ack_i)
    /\ ip' = jump_dest_i
    /\ jump_taken' = TRUE
    /\ valid' = FALSE
    /\ busy' = FALSE
    /\ UNCHANGED <<run, current_word, current_ip>>

\* What every clock without a redirect does to the request side.
AdvanceIp(stall_i, jump_i, bus_stall_i, ack_i) ==
    /\ run /\ ~CanRedirect(jump_i, ack_i)
    /\ jump_taken' = (jump_taken /\ ~(valid \/ (stall_i /\ ~jump_i)))
    /\ ip' = IF bus_stall_i \/ busy \/ stall_i THEN ip ELSE Succ(ip)
    /\ UNCHANGED run

\* The address entry of the request: it follows a request that is accepted.
RequestIp(stall_i, bus_stall_i) ==
    IF bus_stall_i \/ busy \/ stall_i THEN current_ip[2] ELSE ip

\* Decode is stalled: keep the output, park an arriving word in the skid entry.
Park(stall_i, ack_i, db_rd) ==
    /\ stall_i
    /\ UNCHANGED valid
    /\ \/ /\ ack_i
          /\ busy' = TRUE
          /\ current_word' = [current_word EXCEPT ![1] = db_rd]
          /\ current_ip' = [current_ip EXCEPT ![1] = current_ip[2]]
       \/ /\ ~ack_i
          /\ UNCHANGED <<busy, current_word, current_ip>>

\* The parked word moves to the output.
Unpark(stall_i) ==
    /\ ~stall_i /\ busy
    /\ valid' = TRUE
    /\ busy' = FALSE
    /\ current_word' = [current_word EXCEPT ![0] = current_word[1]]
    /\ current_ip' = [current_ip EXCEPT ![0] = current_ip[1]]

\* An arriving word goes straight to the output ...
Receive(stall_i, jump_i, bus_stall_i, ack_i, db_rd) ==
    /\ ~stall_i /\ ~busy /\ ack_i /\ ~new_jump(jump_i)
    /\ valid' = TRUE
    /\ current_word' = [current_word EXCEPT ![0] = db_rd]
    /\ current_ip' = [current_ip EXCEPT ![0] = current_ip[2],
                                        ![2] = RequestIp(stall_i, bus_stall_i)]
    /\ UNCHANGED busy

\* ... and without one the output is empty.
Bubble(stall_i, jump_i, bus_stall_i, ack_i) ==
    /\ ~stall_i /\ ~busy /\ ~(ack_i /\ ~new_jump(jump_i))
    /\ valid' = FALSE
    /\ current_ip' = [current_ip EXCEPT ![2] = RequestIp(stall_i, bus_stall_i)]
    /\ UNCHANGED <<busy, current_word>>

FetchClock(stall_i, jump_i, jump_dest_i, bus_stall_i, ack_i, db_rd) ==
    /\ TrackOutstanding(en_o(stall_i, jump_i), ack_i)
    /\ \/ LeaveReset
       \/ Redirect(jump_i, jump_dest_i, ack_i)
       \/ /\ AdvanceIp(stall_i, jump_i, bus_stall_i, ack_i)
          /\ \/ Park(stall_i, ack_i, db_rd)
             \/ Unpark(stall_i)
             \/ Receive(stall_i, jump_i, bus_stall_i, ack_i, db_rd)
             \/ Bubble(stall_i, jump_i, bus_stall_i, ack_i)

-----------------------------------------------------------------------------
(* The instruction bus: it answers after one clock (the RAM port of        *)
(* rtl/uncore/ram_dp.py) or after any number of clocks (tb/sim_ram.py).    *)
(* One request at a time; a further one is stalled until the answer to the *)
(* first.                                                                  *)

CONSTANT FastBus    \* every request is answered in the next clock

ASSUME BusAssumption == FastBus \in BOOLEAN

VARIABLE pend       \* request the slave has accepted and not answered

NoRequest == N      \* not an address

MayAnswer(ack) ==
    /\ ack => pend # NoRequest
    /\ FastBus => (ack <=> pend # NoRequest)

bus_stall_i(en, ack) == en /\ pend # NoRequest /\ ~ack

BusClock(en, ack) ==
    pend' = IF en /\ ~bus_stall_i(en, ack) THEN ip
            ELSE IF ack THEN NoRequest
            ELSE pend

=============================================================================
