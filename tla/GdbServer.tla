------------------------------ MODULE GdbServer ------------------------------
(***************************************************************************)
(* The GDB server of the simulation: its socket loop (gdbserver/main.py),  *)
(* its packet handlers (gdbserver/gdb_rsp.py), the hart they debug through *)
(* the debug API, whose calls act as a whole (DebugModule), and a client   *)
(* that follows the protocol.  vCont is s or c, X is M.                    *)
(***************************************************************************)
EXTENDS Naturals, Sequences, FiniteSets, Functions

CONSTANTS
    N,              \* words of memory; the address N is out of range
    Words,          \* what the program's words can be
    Successor(_, _),        \* of a word at an address: where the program goes on
    Program,        \* the program that is loaded at first
    LargePackets,   \* the client makes use of the whole packet size
    Packets,        \* what the client sends to a stopped hart
    Replies         \* bound: on their way to a client that sends a Break

Ebreak == "ebreak"      \* not in Words
Addr == 0 .. N - 1
NoAddr == N + 1

ASSUME GdbAssumption ==
    /\ N \in Nat \ {0} /\ Ebreak \notin Words /\ Program \in [Addr -> Words]
    /\ LargePackets \in BOOLEAN /\ Replies \in Nat
    /\ \A word \in Words, a \in Addr : Successor(word, a) \in Addr

\* The packets the handlers know, and others; P writes the pc.
ASSUME PacketsAssumption ==
    Packets \subseteq [cmd : {"g", "other", "halt", "resume", "reset"}]
                     \cup [cmd : {"P"}, addr : Addr]
                     \cup [cmd : {"Z", "z"}, addr : 0 .. N]
                     \cup [cmd : {"s", "c"}, addr : Addr \cup {NoAddr}]
                     \cup [cmd : {"M"}, addr : 0 .. N, word : Words]

VARIABLES
    halted, pc, mem, step, ebreakm,             \* the hart
    connected, inbox, outbox,                   \* the connection
    breakpoints, pending_resume_addr,           \* RSPHandler
    serve,          \* of the server: idle, in the loop of c or s, broken
    view,           \* of the client: the hart is stopped, awaited, running, unknown
    asked,          \* the client waits for the answer of a packet
    broke,          \* the client has sent a Break
    image,          \* history: what the client takes the memory to be
    left,           \* history: where closed connections have left breakpoints
    goes_on,        \* history: where a halted program is to go on
    hasty,          \* history: the client has let the hart run with a Break unanswered
    swallowed       \* history: a packet that wants an answer went down with a Break

hartVars == <<halted, pc, mem, step, ebreakm>>
linkVars == <<connected, inbox, outbox>>
handlerVars == <<breakpoints, pending_resume_addr, serve>>
clientVars == <<view, asked, broke>>
historyVars == <<image, left, goes_on>>
haste == <<hasty, swallowed>>
vars == <<hartVars, linkVars, handlerVars, clientVars, historyVars, haste>>

-----------------------------------------------------------------------------
(* Packets, in pieces of what a call of recv takes at most. *)

Pieces(packet) == IF LargePackets /\ packet.cmd = "M" THEN 2 ELSE 1
Sent(packet) == [i \in 1 .. Pieces(packet) |-> [packet |-> packet, piece |-> i]]
Break == [packet |-> [cmd |-> "break"], piece |-> 1]

\* mutant: a Break is looked for in packets only
receivePackets(data) ==
    IF data[1].piece = 1 /\ data[1].packet.cmd # "break" THEN data[1].packet ELSE [cmd |-> "EOF"]
\* What comes before the packet is skipped, what comes after it is lost.
receive(data) ==
    IF data[1].piece = 1 /\ Len(data) >= Pieces(data[1].packet)
    THEN data[1].packet ELSE [cmd |-> "EOF"]

-----------------------------------------------------------------------------
(* The hart: an instruction of the program, or an EBREAK of the server. *)

Execute ==
    /\ ~halted /\ serve # "broken"
    /\ IF mem[pc] = Ebreak
       THEN /\ pc' = IF ebreakm THEN pc ELSE 0        \* to the trap handler
            /\ halted' = (ebreakm \/ step)
       ELSE /\ pc' = Successor(mem[pc], pc)
            /\ halted' = step
    /\ goes_on' = pc'
    /\ UNCHANGED <<mem, step, ebreakm, linkVars, handlerVars, clientVars, image, left, haste>>

-----------------------------------------------------------------------------
(* The handlers: state is what the hart becomes. *)

\* mutant: the address of a pending restart is kept
ConsumeKept(addr) == pending_resume_addr' = pending_resume_addr
_consume_resume_addr(addr) == pending_resume_addr' = NoAddr

ResumeAddr(addr) ==
    IF addr # NoAddr THEN addr ELSE IF pending_resume_addr # NoAddr THEN pending_resume_addr ELSE pc

_memory_range_valid(addr) == addr < N

send(reply) == outbox' = Append(outbox, reply)

\* Registers, memory and debug CSRs are accessible in Debug Mode only; an access
\* that is refused ends the server with an assertion.
Accesses(p) ==
    \/ p.cmd \in {"g", "P", "s"}
    \/ p.cmd \in {"M", "Z", "z"} /\ _memory_range_valid(p.addr)
    \/ p.cmd = "c" /\ (p.addr # NoAddr \/ pending_resume_addr # NoAddr \/ breakpoints # <<>>)
Refused(p) == Accesses(p) /\ ~halted

Fail(p) == /\ Refused(p) /\ serve' = "broken"
           /\ UNCHANGED <<hartVars, outbox, breakpoints, pending_resume_addr, historyVars>>

handle_break(p) ==
    /\ p.cmd = "break" /\ halted' = TRUE /\ send("stop")
    /\ UNCHANGED <<pc, mem, step, ebreakm, handlerVars, historyVars>>

handle_halt(p) ==
    /\ p.cmd \in {"qAttached", "halt"} /\ halted' = TRUE /\ send("answer")
    /\ UNCHANGED <<pc, mem, step, ebreakm, handlerVars, historyVars>>

handle_resume(p) ==
    /\ p.cmd = "resume" /\ halted' = FALSE /\ send("answer")
    /\ UNCHANGED <<pc, mem, step, ebreakm, handlerVars, historyVars>>

handle_reset(p) ==
    /\ p.cmd = "reset" /\ halted' = TRUE /\ send("answer")
    /\ pending_resume_addr' = 0 /\ goes_on' = 0
    /\ UNCHANGED <<pc, mem, step, ebreakm, breakpoints, serve, image, left>>

\* ?, H, D, g, k, unknown packets
handle_query(p) ==
    /\ p.cmd \in {"g", "other"} /\ ~Refused(p) /\ send("answer")
    /\ UNCHANGED <<hartVars, handlerVars, historyVars>>

handle_P(p) ==
    /\ p.cmd = "P" /\ ~Refused(p) /\ send("answer")
    /\ pending_resume_addr' = NoAddr /\ pc' = p.addr /\ goes_on' = p.addr
    /\ UNCHANGED <<halted, mem, step, ebreakm, breakpoints, serve, image, left>>

\* mutant: an address out of range is not answered
handle_MSilent(p) ==
    /\ p.cmd = "M" /\ ~Refused(p)
    /\ IF _memory_range_valid(p.addr)
       THEN /\ mem' = [mem EXCEPT ![p.addr] = p.word] /\ send("answer")
            /\ image' = [image EXCEPT ![p.addr] = p.word] /\ left' = left \ {p.addr}
       ELSE UNCHANGED <<mem, image, left, outbox>>
    /\ UNCHANGED <<halted, pc, step, ebreakm, handlerVars, goes_on>>
handle_M(p) ==
    /\ p.cmd = "M" /\ ~Refused(p) /\ send("answer")
    /\ IF _memory_range_valid(p.addr)
       THEN /\ mem' = [mem EXCEPT ![p.addr] = p.word]
            /\ image' = [image EXCEPT ![p.addr] = p.word] /\ left' = left \ {p.addr}
       ELSE UNCHANGED <<mem, image, left>>
    /\ UNCHANGED <<halted, pc, step, ebreakm, handlerVars, goes_on>>

handle_Z(p) ==
    /\ p.cmd = "Z" /\ ~Refused(p) /\ send("answer")
    /\ IF _memory_range_valid(p.addr) /\ p.addr \notin DOMAIN breakpoints
       THEN /\ breakpoints' = [a \in DOMAIN breakpoints \cup {p.addr} |->
                                  IF a = p.addr THEN mem[a] ELSE breakpoints[a]]
            /\ mem' = [mem EXCEPT ![p.addr] = Ebreak]
       ELSE UNCHANGED <<breakpoints, mem>>
    /\ UNCHANGED <<halted, pc, step, ebreakm, pending_resume_addr, serve, historyVars>>

\* mutant: the breakpoint is forgotten and the memory stays patched
handle_zForgets(p) ==
    /\ p.cmd = "z" /\ ~Refused(p) /\ send("answer")
    /\ breakpoints' = Restrict(breakpoints, DOMAIN breakpoints \ {p.addr})
    /\ ebreakm' = (ebreakm /\ breakpoints' # <<>>)
    /\ UNCHANGED <<halted, pc, mem, step, pending_resume_addr, serve, historyVars>>
handle_z(p) ==
    /\ p.cmd = "z" /\ ~Refused(p) /\ send("answer")
    /\ IF _memory_range_valid(p.addr)
       THEN /\ breakpoints' = Restrict(breakpoints, DOMAIN breakpoints \ {p.addr})
            /\ mem' = IF p.addr \in DOMAIN breakpoints
                      THEN [mem EXCEPT ![p.addr] = breakpoints[p.addr]] ELSE mem
            /\ ebreakm' = (ebreakm /\ breakpoints' # <<>>)
       ELSE UNCHANGED <<breakpoints, mem, ebreakm>>
    /\ UNCHANGED <<halted, pc, step, pending_resume_addr, serve, historyVars>>

Resume(p) ==
    /\ halted' = FALSE /\ pc' = ResumeAddr(p.addr)
    /\ _consume_resume_addr(p.addr)
    /\ goes_on' = IF p.addr # NoAddr THEN p.addr ELSE goes_on
    /\ UNCHANGED <<mem, outbox, breakpoints, image, left>>

handle_s(p) ==
    /\ p.cmd = "s" /\ ~Refused(p)
    /\ Resume(p)
    /\ step' = TRUE /\ ebreakm' = (breakpoints # <<>>)
    /\ serve' = "s"

handle_c(p) ==
    /\ p.cmd = "c" /\ ~Refused(p)
    /\ Resume(p)
    /\ ebreakm' = (ebreakm \/ breakpoints # <<>>) /\ UNCHANGED step
    /\ serve' = IF breakpoints # <<>> THEN "c" ELSE "idle"

\* Data without a packet is dropped.
Drop(p) == p.cmd = "EOF" /\ UNCHANGED <<hartVars, outbox, handlerVars, historyVars>>

run_cmd(p) ==
    \/ Fail(p)
    \/ handle_break(p) \/ handle_halt(p) \/ handle_resume(p) \/ handle_reset(p)
    \/ handle_query(p) \/ handle_P(p) \/ handle_M(p) \/ handle_Z(p) \/ handle_z(p)
    \/ handle_s(p) \/ handle_c(p) \/ Drop(p)

-----------------------------------------------------------------------------
(* The server. *)

\* recv takes what has arrived, one piece of it at most. A Break is not waited for
\* before the next packet is sent: recv may take both at once.
Recv ==
    /\ serve = "idle" /\ connected /\ inbox # <<>>
    /\ \E n \in 1 .. (IF Head(inbox) = Break /\ Len(inbox) > 1 THEN 2 ELSE 1) :
           /\ inbox' = SubSeq(inbox, n + 1, Len(inbox))
           /\ run_cmd(receive(SubSeq(inbox, 1, n)))
           /\ swallowed' = (swallowed \/ (n = 2 /\ asked))
    /\ UNCHANGED <<connected, clientVars, hasty>>

\* mutant: the loop ends at its first poll
LeaveLoopAtOnce ==
    /\ serve \in {"s", "c"}
    /\ step' = (step /\ serve # "s")
    /\ serve' = "idle" /\ send("stop")
    /\ UNCHANGED <<halted, pc, mem, ebreakm, connected, inbox, breakpoints,
                   pending_resume_addr, clientVars, historyVars, haste>>
\* The loops of s and c poll the hart, and nothing else.
LeaveLoop ==
    /\ serve \in {"s", "c"} /\ halted
    /\ step' = (step /\ serve # "s")
    /\ serve' = "idle" /\ send("stop")
    /\ UNCHANGED <<halted, pc, mem, ebreakm, connected, inbox, breakpoints,
                   pending_resume_addr, clientVars, historyVars, haste>>

-----------------------------------------------------------------------------
(* The client. *)

Silent == UNCHANGED <<hartVars, handlerVars, historyVars, connected>>

Ask(packet) == inbox' = inbox \o Sent(packet) /\ asked' = TRUE /\ UNCHANGED <<outbox, broke>>

\* A new client halts the hart first.
Attach == /\ connected /\ view = "unknown" /\ ~asked
          /\ Ask([cmd |-> "qAttached"]) /\ UNCHANGED <<view, haste>> /\ Silent

\* The server has taken the packets and sent its +, which a Break does not get.
Acknowledged == \A i \in DOMAIN inbox : inbox[i] = Break

\* A Break, or the reply to it, is still on its way.
Unsettled == inbox # <<>> \/ outbox # <<>>

\* It writes memory where it has no breakpoint, and resumes a hart that was reset
\* with c or s.
Legal(packet) ==
    /\ packet.cmd = "M" => packet.addr \notin DOMAIN breakpoints
    /\ packet.cmd = "resume" => pending_resume_addr = NoAddr

Command ==
    /\ connected /\ view = "stopped" /\ ~asked /\ Acknowledged
    /\ \E packet \in Packets :
           /\ Legal(packet)
           /\ hasty' = (hasty \/ (packet.cmd \in {"s", "c", "resume"} /\ Unsettled))
           /\ IF packet.cmd \in {"s", "c"}
              THEN /\ inbox' = inbox \o Sent(packet)
                   /\ view' = IF packet.cmd = "s" \/ breakpoints # <<>>
                              THEN "awaited" ELSE "running"
                   /\ UNCHANGED <<outbox, asked, broke>>
              ELSE /\ Ask(packet) /\ view' = IF packet.cmd = "resume" THEN "running" ELSE view
    /\ UNCHANGED swallowed /\ Silent

\* A client breaks into a hart that runs, whether the server is in a loop or not.
Interrupt ==
    /\ connected /\ view \in {"running", "awaited"} /\ ~broke /\ ~asked
    /\ inbox = <<>> /\ Len(outbox) < Replies
    /\ inbox' = <<Break>> /\ broke' = TRUE
    /\ UNCHANGED <<outbox, view, asked, haste>> /\ Silent

\* A reply is for the packet that waits for one, or says that the hart has stopped:
\* to the client, because of its Break.
Reply ==
    /\ connected /\ outbox # <<>> /\ outbox' = Tail(outbox)
    /\ IF Head(outbox) = "stop"
       THEN view' = "stopped" /\ broke' = FALSE /\ UNCHANGED asked
       ELSE /\ asked' = FALSE /\ UNCHANGED broke
            /\ view' = IF view = "unknown" THEN "stopped" ELSE view
    /\ UNCHANGED <<inbox, haste>> /\ Silent

Connect ==
    /\ ~connected /\ connected' = TRUE /\ UNCHANGED haste
    /\ breakpoints' = <<>> /\ pending_resume_addr' = NoAddr
    /\ view' = "unknown" /\ asked' = FALSE /\ broke' = FALSE
    /\ UNCHANGED <<hartVars, inbox, outbox, serve, historyVars>>

\* A client goes away, because it likes to or gets no answer, and leaves its breakpoints.
Close ==
    /\ connected /\ serve = "idle" /\ inbox = <<>> /\ outbox = <<>>
    /\ connected' = FALSE
    /\ left' = left \cup DOMAIN breakpoints /\ goes_on' = pc
    /\ hasty' = FALSE /\ swallowed' = FALSE
    /\ breakpoints' = <<>> /\ pending_resume_addr' = NoAddr
    /\ view' = "unknown" /\ asked' = FALSE /\ broke' = FALSE
    /\ UNCHANGED <<hartVars, inbox, outbox, serve, image>>

-----------------------------------------------------------------------------

Init ==
    /\ halted = FALSE /\ pc = 0 /\ mem = Program /\ step = FALSE /\ ebreakm = FALSE
    /\ connected = FALSE /\ inbox = <<>> /\ outbox = <<>>
    /\ breakpoints = <<>> /\ pending_resume_addr = NoAddr /\ serve = "idle"
    /\ view = "unknown" /\ asked = FALSE /\ broke = FALSE
    /\ image = Program /\ left = {} /\ goes_on = 0 /\ hasty = FALSE /\ swallowed = FALSE

Server == Recv \/ LeaveLoop
Client == Attach \/ Command \/ Interrupt \/ Close \/ Connect

\* An assertion has ended the server.
Ended == serve = "broken" /\ UNCHANGED vars

Next == Execute \/ Server \/ Reply \/ Client \/ Ended

Spec == Init /\ [][Next]_vars /\ WF_vars(Execute) /\ WF_vars(Server) /\ WF_vars(Reply)

-----------------------------------------------------------------------------
(* Properties. *)

\* Nothing but breakpoints is different from what the client has written: a breakpoint
\* is in memory while it is inserted, and what was there comes back
\* (gdbserver/gdb_rsp.py:383-431).
Patched ==
    \A a \in Addr : mem[a] = IF a \in DOMAIN breakpoints \cup left THEN Ebreak ELSE image[a]

\* A hart the client takes to be stopped is halted, so that no access is refused and
\* no assertion of the debug API ends the server (tb/debug/debug_api.py:119, 158). A
\* Break sent to a server in its loop is answered when the hart has stopped by itself
\* and has been reported; excepted is a client that lets the hart run on before it has
\* that second stop reply, which it then takes for a stop of the running hart.
StoppedIsHalted == ~hasty => (view = "stopped" => halted) /\ serve # "broken"

\* The program goes on where it stopped, or where the client wants it
\* (gdbserver/gdb_rsp.py:112-118, tests/system/debug/test_gdbserver_protocol.py:373).
GoesOn == [][halted /\ ~halted' => pc' = goes_on']_vars

\* A packet is answered (gdbserver/gdb_rsp.py). Excepted are the packets of a client
\* that has let the hart run with a Break unanswered, and a packet recv takes together
\* with the Break before it (gdbserver/main.py:118).
Answered == asked ~> (~asked \/ hasty \/ swallowed)

\* The stop of a hart that was let run by s, or by c with breakpoints, is reported, and
\* so is a Break that finds the server out of its loop (gdbserver/gdb_rsp.py:295-302,
\* 322-329, 487-493). In its loop the server does not read the socket: a Break is not
\* served while the hart runs on. What `monitor resume` has let run, and c without
\* breakpoints, is not watched: its stop is reported to a client that breaks into it.
Reported ==
    (broke \/ serve = "s" \/ (serve = "c" /\ halted))
        ~> (view = "stopped" \/ (serve = "c" /\ ~halted) \/ serve = "broken")

=============================================================================
