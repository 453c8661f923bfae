--------------------------- MODULE GdbServerProofs ---------------------------
(***************************************************************************)
(* The GDB server keeps memory, the hart and the client's view of them in  *)
(* step: for every size of the memory, every program, every set of packets *)
(* and every timing of hart, server and client.                            *)
(***************************************************************************)
EXTENDS GdbServer, SequenceTheorems, TLAPS

One(p) == [packet |-> p, piece |-> 1]
Two(p) == [packet |-> p, piece |-> 2]

TypeOK ==
    /\ mem \in [Addr -> Words \cup {Ebreak}] /\ image \in [Addr -> Words]
    /\ DOMAIN breakpoints \subseteq Addr /\ left \subseteq Addr
    /\ \A a \in DOMAIN breakpoints : breakpoints[a] \in Words \cup {Ebreak}
    /\ halted \in BOOLEAN /\ step \in BOOLEAN /\ ebreakm \in BOOLEAN
    /\ connected \in BOOLEAN /\ hasty \in BOOLEAN
    /\ ~connected => breakpoints = <<>> /\ pending_resume_addr = NoAddr

\* What a breakpoint has replaced is what its removal is to bring back.
Saved ==
    \A a \in DOMAIN breakpoints : breakpoints[a] = IF a \in left THEN Ebreak ELSE image[a]

\* Where a hart goes on: at the address of a pending restart, which is gone as
\* soon as the hart runs, or where its pc is.
Where ==
    IF pending_resume_addr = NoAddr THEN goes_on = pc
    ELSE goes_on = pending_resume_addr /\ halted

Quiet == inbox = <<>> /\ outbox = <<>>
Arriving(p) == inbox = <<One(p)>> /\ outbox = <<>>
ReplyDue(reply) == inbox = <<>> /\ outbox = <<reply>>

\* What is under way to the server is at most a Break and behind it a packet of Q, or
\* what is left of the packet.
Holding(Q) ==
    \/ inbox \in {<<>>, <<Break>>}
    \/ \E q \in Q : /\ Legal(q)
                    /\ IF Pieces(q) = 1 THEN inbox \in {<<One(q)>>, <<Break, One(q)>>}
                       ELSE inbox \in {<<One(q), Two(q)>>, <<Break, One(q), Two(q)>>, <<Two(q)>>}

Questions == Packets \cup {[cmd |-> "qAttached"]}
StayingQuestions == {p \in Packets : p.cmd \notin {"s", "c", "resume"}}

Carried == (~connected => inbox = <<>>) /\ Holding(Questions)

\* A new client has not been hasty.
Fresh == ~connected \/ view = "unknown" => ~hasty

\* Nobody is connected, or the client waits for the hart to be halted.
Unknown ==
    /\ view = "unknown" /\ serve = "idle" /\ ~broke
    /\ \/ Quiet /\ ~asked
       \/ connected /\ asked /\ Arriving([cmd |-> "qAttached"])
       \/ connected /\ asked /\ ReplyDue("answer") /\ halted

\* Packets that leave the hart stopped may be on their way, and their answers, the
\* Break of a hart that stopped by itself, and the reply to it.
Stopped ==
    /\ view = "stopped" /\ serve = "idle" /\ ~broke /\ halted /\ connected
    /\ Holding(StayingQuestions) /\ outbox \in Seq({"answer", "stop"})

\* The hart is let run with an answer.
Resumed ==
    /\ view = "running" /\ serve = "idle" /\ ~broke /\ asked /\ connected
    /\ \/ \E p \in Packets : /\ p.cmd = "resume" /\ Arriving(p)
                             /\ pending_resume_addr = NoAddr
       \/ ReplyDue("answer")

\* The hart runs without being watched; the client may break into it.
Running ==
    /\ view = "running" /\ serve = "idle" /\ ~asked /\ connected
    /\ \/ Quiet /\ ~broke
       \/ ~broke /\ \E p \in Packets : p.cmd = "c" /\ halted /\ breakpoints = <<>> /\ Arriving(p)
       \/ broke /\ inbox = <<Break>> /\ outbox = <<>>
       \/ broke /\ ReplyDue("stop") /\ halted

\* The server waits for the hart to stop; a Break waits for the server.
BreakWaits == inbox = IF broke THEN <<Break>> ELSE <<>>
Awaited ==
    /\ view = "awaited" /\ ~asked /\ connected
    /\ \/ /\ serve = "idle" /\ halted /\ ~broke
          /\ \E p \in Packets : /\ Arriving(p)
                                /\ p.cmd = "s" \/ (p.cmd = "c" /\ breakpoints # <<>>)
       \/ serve \in {"s", "c"} /\ BreakWaits /\ outbox = <<>>
       \/ serve = "idle" /\ halted /\ BreakWaits /\ outbox = <<"stop">>
       \/ serve = "idle" /\ halted /\ broke /\ inbox = <<>> /\ outbox = <<"stop", "stop">>

Protocol == Unknown \/ Stopped \/ Resumed \/ Running \/ Awaited

\* The inductive invariant. What memory, breakpoints and pc hold does not depend on the
\* client; the dialogue does.
DataInv == TypeOK /\ Patched /\ Saved /\ Where /\ Carried /\ Fresh
GdbInv == DataInv /\ (~hasty => Protocol)

-----------------------------------------------------------------------------
(* Packets and what the server receives.                                   *)

\* An address is one of a word, the first one behind them or none.
LEMMA Addresses ==
  /\ N \in Nat /\ N > 0 /\ 0 \in Addr /\ Addr \subseteq 0 .. N
  /\ \A a \in 0 .. N : a < N <=> a \in Addr
  /\ NoAddr \notin 0 .. N /\ NoAddr \notin Addr
<1>1. N \in Nat /\ N # 0
  BY GdbAssumption, Zenon
<1> QED
  BY <1>1 DEF Addr, NoAddr

\* What is in a packet.
LEMMA PacketType ==
  ASSUME NEW p \in Packets
  PROVE  /\ p.cmd \in {"g", "other", "halt", "resume", "reset", "P", "Z", "z", "s", "c", "M"}
         /\ p.cmd \in {"P", "Z", "z", "M"} => p.addr \in 0 .. N
         /\ p.cmd = "P" => p.addr \in Addr
         /\ p.cmd \in {"s", "c"} => p.addr \in Addr \cup {NoAddr}
         /\ p.cmd = "M" => p.word \in Words
<1>1. CASE p \in [cmd : {"g", "other", "halt", "resume", "reset"}]
  <2>1. p.cmd \in {"g", "other", "halt", "resume", "reset"}
    BY <1>1
  <2>2. p.cmd \notin {"P", "Z", "z", "s", "c", "M"}
    BY <2>1
  <2> HIDE <1>1
  <2> QED BY <2>1, <2>2, Zenon
<1>2. CASE p \in [cmd : {"P"}, addr : Addr]
  <2>1. p.cmd = "P" /\ p.addr \in Addr
    BY <1>2
  <2>2. p.addr \in 0 .. N
    BY <2>1, Addresses
  <2> QED BY <2>1, <2>2
<1>3. CASE p \in [cmd : {"Z", "z"}, addr : 0 .. N]
  BY <1>3
<1>4. CASE p \in [cmd : {"s", "c"}, addr : Addr \cup {NoAddr}]
  BY <1>4
<1>5. CASE p \in [cmd : {"M"}, addr : 0 .. N, word : Words]
  BY <1>5
<1> QED
  BY <1>1, <1>2, <1>3, <1>4, <1>5, PacketsAssumption

\* A packet behind a Break.
LEMMA BehindBreak ==
  ASSUME NEW b, NEW x, NEW y
  PROVE  <<b>> \o <<x>> = <<b, x>> /\ <<b>> \o <<x, y>> = <<b, x, y>>
<1> DEFINE S == {b, x, y}
<1>1. <<b>> \in Seq(S) /\ <<x>> \in Seq(S) /\ <<x, y>> \in Seq(S)
  OBVIOUS
<1>2. <<b, x>> \in Seq(S) /\ <<b, x, y>> \in Seq(S)
  OBVIOUS
<1>3. <<b>> \o <<x>> = <<b, x>>
  <2> DEFINE s == <<b>> \o <<x>>
  <2>1. s \in Seq(S) /\ Len(s) = 2 /\ s[1] = b /\ s[2] = x
    BY <1>1, ConcatProperties
  <2>2. Len(<<b, x>>) = 2 /\ <<b, x>>[1] = b /\ <<b, x>>[2] = x
    OBVIOUS
  <2>3. Len(s) = Len(<<b, x>>) /\ \A i \in 1 .. Len(s) : s[i] = <<b, x>>[i]
    BY <2>1, <2>2
  <2> HIDE DEF s, S
  <2>4. s = <<b, x>>
    BY <1>2, <2>1, <2>3, SeqEqual, Zenon
  <2> QED BY <2>4 DEF s
<1>4. <<b>> \o <<x, y>> = <<b, x, y>>
  <2> DEFINE s == <<b>> \o <<x, y>>
  <2>1. s \in Seq(S) /\ Len(s) = 3 /\ s[1] = b /\ s[2] = x /\ s[3] = y
    BY <1>1, ConcatProperties
  <2>2. /\ Len(<<b, x, y>>) = 3 /\ <<b, x, y>>[1] = b /\ <<b, x, y>>[2] = x
        /\ <<b, x, y>>[3] = y
    OBVIOUS
  <2>3. Len(s) = Len(<<b, x, y>>) /\ \A i \in 1 .. Len(s) : s[i] = <<b, x, y>>[i]
    BY <2>1, <2>2
  <2> HIDE DEF s, S
  <2>4. s = <<b, x, y>>
    BY <1>2, <2>1, <2>3, SeqEqual, Zenon
  <2> QED BY <2>4 DEF s
<1> QED BY <1>3, <1>4

\* Short sequences.
LEMMA ShortSequences ==
  ASSUME NEW x, NEW y
  PROVE  /\ Tail(<<x>>) = <<>> /\ Tail(<<x, y>>) = <<y>> /\ Head(<<x>>) = x /\ Head(<<x, y>>) = x
         /\ <<>> \o <<x>> = <<x>> /\ <<>> \o <<x, y>> = <<x, y>> /\ <<y>> \o <<x>> = <<y, x>>
         /\ Append(<<>>, x) = <<x>> /\ Append(<<x>>, y) = <<x, y>>
         /\ <<x>> # <<>> /\ <<x, y>> # <<>>
<1>1. Head(<<x>>) = x /\ Head(<<x, y>>) = x /\ <<x>> # <<>> /\ <<x, y>> # <<>>
  OBVIOUS
<1>2. Tail(<<x>>) = <<>>
  OBVIOUS
<1>3. Tail(<<x, y>>) = <<y>>
  OBVIOUS
<1>4. <<>> \o <<x>> = <<x>>
  OBVIOUS
<1>5. <<>> \o <<x, y>> = <<x, y>>
  OBVIOUS
<1>6. Append(<<>>, x) = <<x>>
  OBVIOUS
<1>7. Append(<<x>>, y) = <<x, y>>
  <2> DEFINE S == {x, y}
  <2>1. <<x>> \in Seq(S) /\ <<x, y>> \in Seq(S) /\ y \in S
    OBVIOUS
  <2>2. /\ Append(<<x>>, y) \in Seq(S) /\ Len(Append(<<x>>, y)) = 2
        /\ Append(<<x>>, y)[1] = x /\ Append(<<x>>, y)[2] = y
    BY <2>1
  <2>3. Len(<<x, y>>) = 2 /\ <<x, y>>[1] = x /\ <<x, y>>[2] = y
    OBVIOUS
  <2>4. /\ Len(Append(<<x>>, y)) = Len(<<x, y>>)
        /\ \A i \in 1 .. Len(Append(<<x>>, y)) : Append(<<x>>, y)[i] = <<x, y>>[i]
    BY <2>2, <2>3
  <2> HIDE DEF S
  <2> QED
    BY <2>1, <2>2, <2>4, SeqEqual, Zenon
<1>8. <<y>> \o <<x>> = <<y, x>>
  BY BehindBreak
<1> QED
  BY <1>1, <1>2, <1>3, <1>4, <1>5, <1>6, <1>7, <1>8

\* The pieces recv takes, and what it leaves behind.
LEMMA FirstPieces ==
  ASSUME NEW x, NEW y, NEW z
  PROVE  /\ Len(<<x>>) = 1 /\ Len(<<x, y>>) = 2 /\ Len(<<x, y, z>>) = 3
         /\ Len(SubSeq(<<x>>, 1, 1)) = 1 /\ SubSeq(<<x>>, 1, 1)[1] = x
         /\ Len(SubSeq(<<x, y>>, 1, 1)) = 1 /\ SubSeq(<<x, y>>, 1, 1)[1] = x
         /\ Len(SubSeq(<<x, y>>, 1, 2)) = 2 /\ SubSeq(<<x, y>>, 1, 2)[1] = x
         /\ Len(SubSeq(<<x, y, z>>, 1, 1)) = 1 /\ SubSeq(<<x, y, z>>, 1, 1)[1] = x
         /\ Len(SubSeq(<<x, y, z>>, 1, 2)) = 2 /\ SubSeq(<<x, y, z>>, 1, 2)[1] = x
         /\ Head(<<x>>) = x /\ Head(<<x, y>>) = x /\ Head(<<x, y, z>>) = x
<1> DEFINE S == {x, y, z}
<1>1. <<x>> \in Seq(S) /\ <<x, y>> \in Seq(S) /\ <<x, y, z>> \in Seq(S)
  OBVIOUS
<1>2. Len(<<x>>) = 1 /\ Len(<<x, y>>) = 2 /\ Len(<<x, y, z>>) = 3
  OBVIOUS
<1>3. <<x>>[1] = x /\ <<x, y>>[1] = x /\ <<x, y, z>>[1] = x
  OBVIOUS
<1>4. Head(<<x>>) = x /\ Head(<<x, y>>) = x /\ Head(<<x, y, z>>) = x
  OBVIOUS
<1>5. ASSUME NEW s \in Seq(S), NEW n \in 1 .. Len(s)
      PROVE  Len(SubSeq(s, 1, n)) = n /\ SubSeq(s, 1, n)[1] = s[1]
  BY SubSeqProperties
<1> HIDE DEF S
<1> QED
  BY <1>1, <1>2, <1>3, <1>4, <1>5

\* What is left of two pieces.
LEMMA OtherPieces ==
  ASSUME NEW x, NEW y
  PROVE  /\ SubSeq(<<x>>, 2, 1) = <<>>
         /\ SubSeq(<<x, y>>, 2, 2) = <<y>> /\ SubSeq(<<x, y>>, 3, 2) = <<>>
<1> DEFINE S == {x, y}
<1>1. SubSeq(<<x>>, 2, 1) = <<>> /\ SubSeq(<<x, y>>, 3, 2) = <<>>
  BY SubSeqEmpty
<1>2. <<y>> \in Seq(S)
  OBVIOUS
<1>3. Len(<<y>>) = 1 /\ <<y>>[1] = y
  OBVIOUS
<1>4. /\ SubSeq(<<x, y>>, 2, 2) \in Seq(S) /\ Len(SubSeq(<<x, y>>, 2, 2)) = 1
      /\ SubSeq(<<x, y>>, 2, 2)[1] = y
  <2>1. \A i \in 2 .. 2 : <<x, y>>[i] \in S
    OBVIOUS
  <2>2. <<x, y>>[2] = y
    OBVIOUS
  <2> HIDE DEF S
  <2> QED BY <2>1, <2>2, SubSeqProperties
<1> HIDE DEF S
<1>5. SubSeq(<<x, y>>, 2, 2) = <<y>>
  <2>1. \A i \in 1 .. Len(SubSeq(<<x, y>>, 2, 2)) : SubSeq(<<x, y>>, 2, 2)[i] = <<y>>[i]
    BY <1>3, <1>4
  <2> QED BY <1>2, <1>3, <1>4, <2>1, SeqEqual, Zenon
<1> QED
  BY <1>1, <1>5

\* What is left of three pieces.
LEMMA OtherPiecesOfThree ==
  ASSUME NEW x, NEW y, NEW z
  PROVE  SubSeq(<<x, y, z>>, 2, 3) = <<y, z>> /\ SubSeq(<<x, y, z>>, 3, 3) = <<z>>
<1> DEFINE S == {x, y, z}
<1>1. <<z>> \in Seq(S) /\ <<y, z>> \in Seq(S)
  OBVIOUS
<1>2. /\ Len(<<z>>) = 1 /\ <<z>>[1] = z
      /\ Len(<<y, z>>) = 2 /\ <<y, z>>[1] = y /\ <<y, z>>[2] = z
  OBVIOUS
<1>3. /\ SubSeq(<<x, y, z>>, 3, 3) \in Seq(S) /\ Len(SubSeq(<<x, y, z>>, 3, 3)) = 1
      /\ SubSeq(<<x, y, z>>, 3, 3)[1] = z
  <2>1. \A i \in 3 .. 3 : <<x, y, z>>[i] \in S
    OBVIOUS
  <2>2. <<x, y, z>>[3] = z
    OBVIOUS
  <2> HIDE DEF S
  <2> QED BY <2>1, <2>2, SubSeqProperties
<1>4. /\ SubSeq(<<x, y, z>>, 2, 3) \in Seq(S) /\ Len(SubSeq(<<x, y, z>>, 2, 3)) = 2
      /\ SubSeq(<<x, y, z>>, 2, 3)[1] = y /\ SubSeq(<<x, y, z>>, 2, 3)[2] = z
  <2>1. \A i \in 2 .. 3 : <<x, y, z>>[i] \in S
    OBVIOUS
  <2>2. <<x, y, z>>[2] = y /\ <<x, y, z>>[3] = z
    OBVIOUS
  <2> HIDE DEF S
  <2> QED BY <2>1, <2>2, SubSeqProperties
<1> HIDE DEF S
<1>5. SubSeq(<<x, y, z>>, 3, 3) = <<z>>
  <2>1. \A i \in 1 .. Len(SubSeq(<<x, y, z>>, 3, 3)) : SubSeq(<<x, y, z>>, 3, 3)[i] = <<z>>[i]
    BY <1>2, <1>3
  <2> QED BY <1>1, <1>2, <1>3, <2>1, SeqEqual, Zenon
<1>6. SubSeq(<<x, y, z>>, 2, 3) = <<y, z>>
  <2>1. \A i \in 1 .. Len(SubSeq(<<x, y, z>>, 2, 3)) :
            SubSeq(<<x, y, z>>, 2, 3)[i] = <<y, z>>[i]
    BY <1>2, <1>4
  <2> QED BY <1>1, <1>2, <1>4, <2>1, SeqEqual, Zenon
<1> QED BY <1>5, <1>6

\* What is sent for a packet.
LEMMA SentPieces ==
  ASSUME NEW p
  PROVE  IF Pieces(p) = 1 THEN Sent(p) = <<One(p)>> ELSE Sent(p) = <<One(p), Two(p)>>
<1>1. CASE Pieces(p) = 1
  BY <1>1 DEF Sent, One
<1>2. CASE Pieces(p) = 2
  BY <1>2 DEF Sent, One, Two
<1> QED
  BY <1>1, <1>2 DEF Pieces

\* No packet is a Break.
LEMMA NotBreak ==
  ASSUME NEW q \in Questions
  PROVE  One(q) # Break /\ Two(q) # Break
<1>1. q.cmd # "break"
  BY PacketType DEF Questions
<1>2. One(q).packet = q /\ Two(q).piece = 2
  BY DEF One, Two
<1>3. Break.packet.cmd = "break" /\ Break.piece = 1
  BY DEF Break
<1> QED
  BY <1>1, <1>2, <1>3

\* A packet that fits into a piece is received, the pieces of another are not, and a
\* Break is received whatever recv takes with it (gdbserver/main.py).
LEMMA Received ==
  ASSUME NEW p, NEW data, Len(data) = 1 \/ Len(data) = 2
  PROVE  /\ Pieces(p) = 1 /\ data[1] = One(p) => receive(data) = p
         /\ Pieces(p) # 1 /\ data[1] = One(p) /\ Len(data) = 1 => receive(data) = [cmd |-> "EOF"]
         /\ data[1] = Two(p) => receive(data) = [cmd |-> "EOF"]
<1>1. Pieces(p) \in {1, 2}
  BY DEF Pieces
<1>2. One(p).packet = p /\ One(p).piece = 1 /\ Two(p).packet = p /\ Two(p).piece = 2
  BY DEF One, Two
<1>3. ASSUME data[1] = One(p)
      PROVE  receive(data) = IF Pieces(p) = 1 \/ Len(data) = 2 THEN p ELSE [cmd |-> "EOF"]
  <2>1. data[1].packet = p /\ data[1].piece = 1
    BY <1>2, <1>3
  <2>2. Len(data) >= Pieces(p) <=> Pieces(p) = 1 \/ Len(data) = 2
    <3>1. CASE Len(data) = 1
      BY <1>1, <3>1
    <3>2. CASE Len(data) = 2
      BY <1>1, <3>2
    <3> QED BY <3>1, <3>2
  <2> QED
    BY <2>1, <2>2, Zenon DEF receive
<1>4. ASSUME data[1] = Two(p)
      PROVE  receive(data) = [cmd |-> "EOF"]
  <2>1. data[1].piece # 1
    BY <1>2, <1>4
  <2> QED
    BY <2>1, Zenon DEF receive
<1> QED
  BY <1>3, <1>4

\* A Break at the front is what is received, whatever came with it (gdbserver/gdb_rsp.py:511-512).
LEMMA BreakReceived ==
  ASSUME NEW data, Len(data) = 1 \/ Len(data) = 2, data[1] = Break
  PROVE  receive(data) = [cmd |-> "break"]
<1>1. Break.packet = [cmd |-> "break"] /\ Break.piece = 1 /\ Pieces([cmd |-> "break"]) = 1
  BY DEF Break, Pieces
<1>2. data[1].packet = [cmd |-> "break"] /\ data[1].piece = 1 /\ Pieces(data[1].packet) = 1
  BY <1>1
<1>3. Len(data) >= Pieces(data[1].packet)
  BY <1>2
<1> QED
  BY <1>2, <1>3, Zenon DEF receive

-----------------------------------------------------------------------------
(* Memory, breakpoints and pc.                                             *)

\* What the handlers may be given.
Permitted(p) == p.cmd \in {"qAttached", "break", "EOF"} \/ (p \in Packets /\ Legal(p))

\* No access of a halted hart is refused, nor what needs no access; what is refused
\* leaves everything as it is (tb/debug/debug_api.py:117-121).
LEMMA NotRefused ==
  ASSUME NEW p, halted \/ p.cmd \in {"qAttached", "break", "EOF", "halt", "resume", "reset"}
  PROVE  ~Refused(p)
BY DEF Refused, Accesses

\* A packet that is refused is handled by nobody.
LEMMA RefusedFails ==
  ASSUME NEW p, run_cmd(p), Refused(p)
  PROVE  Fail(p)
BY DEF run_cmd, Refused, Accesses, handle_break, handle_halt, handle_resume, handle_reset,
       handle_query, handle_P, handle_M, handle_Z, handle_z, handle_s, handle_c, Drop

\* A packet has one handler.
LEMMA HandlerOf ==
  ASSUME NEW p, run_cmd(p), ~Refused(p)
  PROVE  /\ p.cmd = "break" => handle_break(p)
         /\ p.cmd \in {"qAttached", "halt"} => handle_halt(p)
         /\ p.cmd = "resume" => handle_resume(p)
         /\ p.cmd = "reset" => handle_reset(p)
         /\ p.cmd \in {"g", "other"} => handle_query(p)
         /\ p.cmd = "P" => handle_P(p)
         /\ p.cmd = "M" => handle_M(p)
         /\ p.cmd = "Z" => handle_Z(p)
         /\ p.cmd = "z" => handle_z(p)
         /\ p.cmd = "s" => handle_s(p)
         /\ p.cmd = "c" => handle_c(p)
         /\ p.cmd = "EOF" => Drop(p)
BY DEF run_cmd, Fail, handle_break, handle_halt, handle_resume, handle_reset, handle_query,
       handle_P, handle_M, handle_Z, handle_z, handle_s, handle_c, Drop

\* What recv takes of it is a packet the handlers may be given.
LEMMA RecvHolding ==
  ASSUME NEW Q, Q \subseteq Questions, Holding(Q), Recv
  PROVE  /\ Holding(Q)'
         /\ \E p : /\ run_cmd(p) /\ Permitted(p)
                   /\ p.cmd \in {"break", "EOF"} \/ p \in Q
                   /\ inbox = <<Break>> => p.cmd = "break" /\ inbox' = <<>>
                   /\ \A q \in Q : Pieces(q) = 1 /\ inbox = <<One(q)>> => p = q /\ inbox' = <<>>
<1>1. inbox # <<>>
  BY DEF Recv
<1>2. PICK n \in 1 .. (IF Head(inbox) = Break /\ Len(inbox) > 1 THEN 2 ELSE 1) :
          inbox' = SubSeq(inbox, n + 1, Len(inbox)) /\ run_cmd(receive(SubSeq(inbox, 1, n)))
  BY DEF Recv
<1>3. n \in {1, 2} /\ (n = 2 => Head(inbox) = Break /\ Len(inbox) > 1)
  BY <1>2
<1>4. inbox' = SubSeq(inbox, n + 1, Len(inbox))
  BY <1>2
<1>5. PICK data : data = SubSeq(inbox, 1, n)
  OBVIOUS
<1>6. PICK p : p = receive(data)
  OBVIOUS
<1>7. p = receive(data) /\ run_cmd(p)
  BY <1>2, <1>5, <1>6
<1> DEFINE break == [cmd |-> "break"]
           eof == [cmd |-> "EOF"]
<1>8. ASSUME p = break \/ p = eof
      PROVE  /\ p.cmd \in {"break", "EOF"} /\ Permitted(p)
             /\ UNCHANGED <<breakpoints, pending_resume_addr>>
  <2>1. p.cmd \in {"break", "EOF"}
    BY <1>8
  <2>2. ~Refused(p)
    BY <2>1, NotRefused
  <2>3. UNCHANGED <<breakpoints, pending_resume_addr>>
    BY <1>7, <2>1, <2>2, HandlerOf DEF handle_break, Drop, handlerVars
  <2> QED BY <2>1, <2>3 DEF Permitted
<1>9. ASSUME NEW q \in Q, Legal(q), Pieces(q) = 1, inbox \in {<<One(q)>>, <<Break, One(q)>>}
      PROVE  \/ p = break /\ inbox # <<Break>> /\ inbox = <<Break, One(q)>>
                /\ (inbox' = <<>> \/ inbox' = <<One(q)>>)
             \/ p = q /\ inbox = <<One(q)>> /\ inbox' = <<>>
  <2>1. CASE inbox = <<One(q)>>
    <3>1. n = 1 /\ inbox' = <<>> /\ Len(data) = 1 /\ data[1] = One(q)
      <4>1. n = 1 /\ Len(inbox) = 1
        BY <1>3, <2>1, FirstPieces
      <4>2. data = SubSeq(inbox, 1, 1) /\ inbox' = SubSeq(inbox, 2, 1)
        BY <1>4, <1>5, <4>1
      <4>3. Len(SubSeq(<<One(q)>>, 1, 1)) = 1 /\ SubSeq(<<One(q)>>, 1, 1)[1] = One(q)
        BY FirstPieces
      <4>4. SubSeq(<<One(q)>>, 2, 1) = <<>>
        BY OtherPieces
      <4> QED BY <2>1, <4>1, <4>2, <4>3, <4>4, Zenon
    <3>2. p = q
      BY <1>7, <1>9, <3>1, Received
    <3> QED BY <2>1, <3>1, <3>2, Zenon
  <2>2. CASE inbox = <<Break, One(q)>>
    <3>1. /\ Len(data) = 1 \/ Len(data) = 2
          /\ data[1] = Break
          /\ inbox' = <<>> \/ inbox' = <<One(q)>>
      <4>1. Len(inbox) = 2
        BY <2>2, FirstPieces
      <4>2. CASE n = 1
        <5>1. data = SubSeq(inbox, 1, 1) /\ inbox' = SubSeq(inbox, 2, 2)
          BY <1>4, <1>5, <4>1, <4>2
        <5>2. Len(SubSeq(<<Break, One(q)>>, 1, 1)) = 1 /\ SubSeq(<<Break, One(q)>>, 1, 1)[1] = Break
          BY FirstPieces
        <5>3. SubSeq(<<Break, One(q)>>, 2, 2) = <<One(q)>>
          BY OtherPieces
        <5>4. Len(data) = 1 /\ data[1] = Break /\ inbox' = <<One(q)>>
          BY <2>2, <5>1, <5>2, <5>3, Zenon
        <5> QED BY <5>4
      <4>3. CASE n = 2
        <5>1. data = SubSeq(inbox, 1, 2) /\ inbox' = SubSeq(inbox, 3, 2)
          BY <1>4, <1>5, <4>1, <4>3
        <5>2. Len(SubSeq(<<Break, One(q)>>, 1, 2)) = 2 /\ SubSeq(<<Break, One(q)>>, 1, 2)[1] = Break
          BY FirstPieces
        <5>3. SubSeq(<<Break, One(q)>>, 3, 2) = <<>>
          BY OtherPieces
        <5>4. Len(data) = 2 /\ data[1] = Break /\ inbox' = <<>>
          BY <2>2, <5>1, <5>2, <5>3, Zenon
        <5> QED BY <5>4
      <4> QED BY <4>2, <4>3
    <3>2. p = break
      BY <1>7, <3>1, BreakReceived
    <3> QED BY <2>2, <3>1, <3>2
  <2> QED BY <1>9, <2>1, <2>2
<1>10. ASSUME NEW q \in Q, Legal(q), Pieces(q) # 1,
             inbox \in {<<One(q), Two(q)>>, <<Break, One(q), Two(q)>>, <<Two(q)>>}
      PROVE  /\ p = break \/ p = eof
             /\ inbox' = <<>> \/ inbox' = <<Two(q)>> \/ inbox' = <<One(q), Two(q)>>
             /\ \A r \in Q : Pieces(r) = 1 => inbox # <<One(r)>>
             /\ inbox # <<Break>>
  <2>1. CASE inbox = <<One(q), Two(q)>>
    <3>1. n = 1 /\ inbox' = <<Two(q)>> /\ Len(data) = 1 /\ data[1] = One(q)
      <4>1. n = 1 /\ Len(inbox) = 2
        BY <2>1, FirstPieces, NotBreak
      <4>2. data = SubSeq(inbox, 1, 1) /\ inbox' = SubSeq(inbox, 2, 2)
        BY <1>4, <1>5, <4>1
      <4>3. Len(SubSeq(<<One(q), Two(q)>>, 1, 1)) = 1 /\ SubSeq(<<One(q), Two(q)>>, 1, 1)[1] = One(q)
        BY FirstPieces
      <4>4. SubSeq(<<One(q), Two(q)>>, 2, 2) = <<Two(q)>>
        BY OtherPieces
      <4> QED BY <2>1, <4>1, <4>2, <4>3, <4>4, Zenon
    <3>2. p = eof
      BY <1>7, <1>10, <3>1, Received
    <3> QED BY <2>1, <3>1, <3>2
  <2>2. CASE inbox = <<Break, One(q), Two(q)>>
    <3>1. /\ Len(data) = 1 \/ Len(data) = 2
          /\ data[1] = Break
          /\ inbox' = <<Two(q)>> \/ inbox' = <<One(q), Two(q)>>
      <4>1. Len(inbox) = 3
        BY <2>2, FirstPieces
      <4>2. CASE n = 1
        <5>1. data = SubSeq(inbox, 1, 1) /\ inbox' = SubSeq(inbox, 2, 3)
          BY <1>4, <1>5, <4>1, <4>2
        <5>2. Len(SubSeq(<<Break, One(q), Two(q)>>, 1, 1)) = 1 /\ SubSeq(<<Break, One(q), Two(q)>>, 1, 1)[1] = Break
          BY FirstPieces
        <5>3. SubSeq(<<Break, One(q), Two(q)>>, 2, 3) = <<One(q), Two(q)>>
          BY OtherPiecesOfThree
        <5>4. Len(data) = 1 /\ data[1] = Break /\ inbox' = <<One(q), Two(q)>>
          BY <2>2, <5>1, <5>2, <5>3, Zenon
        <5> QED BY <5>4
      <4>3. CASE n = 2
        <5>1. data = SubSeq(inbox, 1, 2) /\ inbox' = SubSeq(inbox, 3, 3)
          BY <1>4, <1>5, <4>1, <4>3
        <5>2. Len(SubSeq(<<Break, One(q), Two(q)>>, 1, 2)) = 2 /\ SubSeq(<<Break, One(q), Two(q)>>, 1, 2)[1] = Break
          BY FirstPieces
        <5>3. SubSeq(<<Break, One(q), Two(q)>>, 3, 3) = <<Two(q)>>
          BY OtherPiecesOfThree
        <5>4. Len(data) = 2 /\ data[1] = Break /\ inbox' = <<Two(q)>>
          BY <2>2, <5>1, <5>2, <5>3, Zenon
        <5> QED BY <5>4
      <4> QED BY <4>2, <4>3
    <3>2. p = break
      BY <1>7, <3>1, BreakReceived
    <3> QED BY <2>2, <3>1, <3>2
  <2>3. CASE inbox = <<Two(q)>>
    <3>1. n = 1 /\ inbox' = <<>> /\ Len(data) = 1 /\ data[1] = Two(q)
      BY <1>3, <1>4, <1>5, <2>3, FirstPieces, OtherPieces, NotBreak
    <3>2. p = eof
      BY <1>7, <3>1, Received
    <3>3. \A r \in Q : <<One(r)>> # <<Two(q)>>
      BY DEF One, Two
    <3>4. <<Two(q)>> # <<Break>>
      BY NotBreak
    <3> QED BY <2>3, <3>1, <3>2, <3>3, <3>4
  <2> QED BY <1>10, <2>1, <2>2, <2>3
<1>11. CASE inbox = <<Break>>
  <2>1. n = 1
    BY <1>3, <1>11, FirstPieces
  <2>2. inbox' = <<>> /\ Len(data) = 1 /\ data[1] = Break
    BY <1>4, <1>5, <1>11, <2>1, FirstPieces, OtherPieces
  <2>3. p = break
    BY <1>7, <2>2, BreakReceived
  <2>4. Holding(Q)'
    BY <2>2 DEF Holding
  <2>5. \A q \in Q : inbox # <<One(q)>>
    <3>1. ASSUME NEW q \in Q
          PROVE  <<One(q)>> # <<Break>>
      BY NotBreak
    <3> QED BY <1>11, <3>1
  <2>6. p.cmd = "break"
    BY <2>3
  <2> QED BY <1>7, <1>8, <2>2, <2>3, <2>4, <2>5, <2>6
<1>12. CASE \E q \in Q : Legal(q) /\ Pieces(q) = 1 /\ inbox \in {<<One(q)>>, <<Break, One(q)>>}
  <2>1. PICK q \in Q : Legal(q) /\ Pieces(q) = 1 /\ inbox \in {<<One(q)>>, <<Break, One(q)>>}
    BY <1>12
  <2>2. CASE p = q /\ inbox = <<One(q)>> /\ inbox' = <<>>
    <3>1. Permitted(p)
      BY <2>1, <2>2 DEF Permitted, Questions
    <3>2. Holding(Q)'
      BY <2>2 DEF Holding
    <3>3. \A r \in Q : inbox = <<One(r)>> => p = r
      BY <2>2 DEF One
    <3>4. inbox # <<Break>>
      BY <2>2, NotBreak
    <3> QED BY <1>7, <2>1, <2>2, <3>1, <3>2, <3>3, <3>4
  <2>3. CASE /\ p = break /\ inbox # <<Break>> /\ inbox = <<Break, One(q)>>
             /\ inbox' = <<>> \/ inbox' = <<One(q)>>
    <3>1. UNCHANGED <<breakpoints, pending_resume_addr>>
      BY <1>8, <2>3
    <3>2. Holding(Q)'
      BY <2>1, <2>3, <3>1 DEF Holding, Legal
    <3>3. \A r \in Q : <<Break, One(q)>> # <<One(r)>>
      OBVIOUS
    <3>4. \A r \in Q : inbox # <<One(r)>>
      BY <2>3, <3>3, Zenon
    <3> QED BY <1>7, <1>8, <2>3, <3>2, <3>4
  <2> QED BY <1>9, <2>1, <2>2, <2>3
<1>13. CASE \E q \in Q : /\ Legal(q) /\ Pieces(q) # 1
                         /\ inbox \in {<<One(q), Two(q)>>, <<Break, One(q), Two(q)>>, <<Two(q)>>}
  <2>1. PICK q \in Q : /\ Legal(q) /\ Pieces(q) # 1
                       /\ inbox \in {<<One(q), Two(q)>>, <<Break, One(q), Two(q)>>, <<Two(q)>>}
    BY <1>13
  <2>2. /\ p = break \/ p = eof
        /\ inbox' = <<>> \/ inbox' = <<Two(q)>> \/ inbox' = <<One(q), Two(q)>>
        /\ \A r \in Q : Pieces(r) = 1 => inbox # <<One(r)>>
        /\ inbox # <<Break>>
    BY <1>10, <2>1
  <2>3. UNCHANGED <<breakpoints, pending_resume_addr>>
    BY <1>8, <2>2
  <2>4. Holding(Q)'
    BY <2>1, <2>2, <2>3 DEF Holding, Legal
  <2> QED BY <1>7, <1>8, <2>2, <2>4
<1> QED
  BY <1>1, <1>11, <1>12, <1>13 DEF Holding

\* What the packets other than M, Z and z leave alone.
LEMMA NoMemory ==
  ASSUME NEW p, TypeOK, run_cmd(p), ~Refused(p), p.cmd \notin {"M", "Z", "z"}
  PROVE  /\ UNCHANGED <<mem, image, left, breakpoints>>
         /\ halted' \in BOOLEAN /\ step' \in BOOLEAN /\ ebreakm' \in BOOLEAN
<1>2. /\ handle_break(p) \/ handle_halt(p) \/ handle_resume(p) \/ handle_reset(p)
         \/ handle_query(p) \/ handle_P(p) \/ handle_s(p) \/ handle_c(p) \/ Drop(p)
  BY DEF run_cmd, Fail, handle_M, handle_Z, handle_z
<1> QED
  BY <1>2 DEF handle_break, handle_halt, handle_resume, handle_reset, handle_query, handle_P,
       handle_s, handle_c, Drop, Resume, TypeOK, hartVars, handlerVars, historyVars

\* A packet keeps memory and breakpoints in step (gdbserver/gdb_rsp.py:383-431).
LEMMA PacketKeepsMemory ==
  ASSUME NEW p, TypeOK, Patched, Saved, connected, Permitted(p), run_cmd(p), ~Refused(p),
         UNCHANGED <<connected, hasty>>
  PROVE  TypeOK' /\ Patched' /\ Saved'
<1>1. ~Refused(p)
  OBVIOUS
<1>2. CASE p.cmd \notin {"M", "Z", "z"}
  BY <1>2, NoMemory DEF TypeOK, Patched, Saved
<1>3. CASE p.cmd \in {"M", "Z", "z"}
  <2>1. /\ p \in Packets
        /\ p.cmd = "M" => p.addr \notin DOMAIN breakpoints
    BY <1>3 DEF Permitted, Legal
  <2>2. p.addr \in 0 .. N /\ (p.addr < N <=> p.addr \in Addr) /\ (p.cmd = "M" => p.word \in Words)
    BY <1>3, <2>1, PacketType, Addresses
  <2>3. Ebreak \notin Words
    BY GdbAssumption, Zenon
  <2>4. CASE p.cmd = "M"
    <3>1. handle_M(p)
      BY <1>1, <2>4, HandlerOf
    <3>2. UNCHANGED <<halted, step, ebreakm, breakpoints, connected, hasty>>
      BY <3>1 DEF handle_M, handlerVars
    <3>3. CASE p.addr \in Addr
      <4>1. /\ mem' = [mem EXCEPT ![p.addr] = p.word]
            /\ image' = [image EXCEPT ![p.addr] = p.word] /\ left' = left \ {p.addr}
        BY <2>2, <3>1, <3>3 DEF handle_M, _memory_range_valid
      <4>2. TypeOK'
        BY <2>2, <2>4, <3>2, <3>3, <4>1 DEF TypeOK
      <4>3. Patched'
        BY <2>1, <2>2, <2>4, <3>2, <3>3, <4>1 DEF TypeOK, Patched
      <4>4. Saved'
        BY <2>1, <2>2, <2>4, <3>2, <3>3, <4>1 DEF TypeOK, Saved
      <4> QED BY <4>2, <4>3, <4>4
    <3>4. CASE p.addr \notin Addr
      <4>1. UNCHANGED <<mem, image, left>>
        BY <2>2, <3>1, <3>4 DEF handle_M, _memory_range_valid
      <4> QED BY <3>2, <4>1 DEF TypeOK, Patched, Saved
    <3> QED BY <3>3, <3>4
  <2>5. CASE p.cmd = "Z"
    <3>1. handle_Z(p)
      BY <1>1, <2>5, HandlerOf
    <3>2. UNCHANGED <<halted, step, ebreakm, image, left, connected, hasty>>
      BY <3>1 DEF handle_Z, historyVars
    <3>3. CASE p.addr \in Addr /\ p.addr \notin DOMAIN breakpoints
      <4>1. /\ breakpoints' = [a \in DOMAIN breakpoints \cup {p.addr} |->
                                  IF a = p.addr THEN mem[a] ELSE breakpoints[a]]
            /\ mem' = [mem EXCEPT ![p.addr] = Ebreak]
        BY <2>2, <3>1, <3>3 DEF handle_Z, _memory_range_valid
      <4>2. DOMAIN breakpoints' = DOMAIN breakpoints \cup {p.addr}
        BY <4>1
      <4>3. \A a \in DOMAIN breakpoints' :
                breakpoints'[a] = IF a = p.addr THEN mem[a] ELSE breakpoints[a]
        BY <4>1, <4>2
      <4>4. TypeOK'
        BY <3>2, <3>3, <4>1, <4>2, <4>3 DEF TypeOK
      <4>5. Patched'
        BY <3>2, <3>3, <4>1, <4>2 DEF TypeOK, Patched
      <4>6. Saved'
        BY <3>2, <3>3, <4>2, <4>3 DEF TypeOK, Patched, Saved
      <4> QED BY <4>4, <4>5, <4>6
    <3>4. CASE ~(p.addr \in Addr /\ p.addr \notin DOMAIN breakpoints)
      <4>1. UNCHANGED <<mem, breakpoints>>
        BY <2>2, <3>1, <3>4 DEF handle_Z, _memory_range_valid
      <4> QED BY <3>2, <4>1 DEF TypeOK, Patched, Saved
    <3> QED BY <3>3, <3>4
  <2>6. CASE p.cmd = "z"
    <3>1. handle_z(p)
      BY <1>1, <2>6, HandlerOf
    <3>2. UNCHANGED <<halted, step, image, left, connected, hasty>> /\ ebreakm' \in BOOLEAN
      <4>1. UNCHANGED <<halted, step, image, left, connected, hasty>>
        BY <3>1 DEF handle_z, historyVars
      <4>2. ebreakm' = (ebreakm /\ breakpoints' # <<>>) \/ ebreakm' = ebreakm
        BY <3>1 DEF handle_z
      <4>3. ebreakm' \in BOOLEAN
        BY <4>2, Zenon DEF TypeOK
      <4> QED BY <4>1, <4>3
    <3>3. CASE p.addr \in Addr
      <4>1. /\ breakpoints' = Restrict(breakpoints, DOMAIN breakpoints \ {p.addr})
            /\ mem' = IF p.addr \in DOMAIN breakpoints
                      THEN [mem EXCEPT ![p.addr] = breakpoints[p.addr]] ELSE mem
        BY <2>2, <3>1, <3>3 DEF handle_z, _memory_range_valid
      <4>2. /\ DOMAIN breakpoints' = DOMAIN breakpoints \ {p.addr}
            /\ \A a \in DOMAIN breakpoints' : breakpoints'[a] = breakpoints[a]
        BY <4>1 DEF Restrict
      <4>3. TypeOK'
        BY <3>2, <3>3, <4>1, <4>2 DEF TypeOK
      <4>4. Patched'
        BY <3>2, <3>3, <4>1, <4>2 DEF TypeOK, Patched, Saved
      <4>5. Saved'
        BY <3>2, <4>2 DEF Saved
      <4> QED BY <4>3, <4>4, <4>5
    <3>4. CASE p.addr \notin Addr
      <4>1. UNCHANGED <<mem, breakpoints>>
        BY <2>2, <3>1, <3>4 DEF handle_z, _memory_range_valid
      <4> QED BY <3>2, <4>1 DEF TypeOK, Patched, Saved
    <3> QED BY <3>3, <3>4
  <2> QED BY <1>3, <2>4, <2>5, <2>6
<1> QED
  BY <1>2, <1>3

\* A packet keeps in mind where the hart is to go on (gdbserver/gdb_rsp.py:112-118).
LEMMA PacketKeepsWhere ==
  ASSUME NEW p, Where, Permitted(p), run_cmd(p), ~Refused(p)
  PROVE  /\ Where'
         /\ halted /\ ~halted' => pc' = goes_on'
<1>1. ~Refused(p)
  OBVIOUS
<1>2. \/ handle_break(p) \/ handle_halt(p) \/ handle_query(p)
      \/ handle_M(p) \/ handle_Z(p) \/ handle_z(p) \/ Drop(p)
      => /\ UNCHANGED <<pc, goes_on, pending_resume_addr>>
         /\ halted' = TRUE \/ halted' = halted
  BY DEF handle_break, handle_halt, handle_query, handle_M, handle_Z, handle_z, Drop,
         hartVars, handlerVars, historyVars
<1>3. CASE UNCHANGED <<pc, goes_on, pending_resume_addr>> /\ (halted' = TRUE \/ halted' = halted)
  BY <1>3 DEF Where
<1>4. CASE handle_resume(p)
  <2>1. pending_resume_addr = NoAddr
    BY <1>4 DEF Permitted, Legal, handle_resume
  <2> QED
    BY <1>4, <2>1 DEF handle_resume, Where, handlerVars, historyVars
<1>5. CASE handle_reset(p)
  BY <1>5, Addresses DEF handle_reset, Where
<1>6. CASE handle_P(p)
  BY <1>6 DEF handle_P, Where
<1>7. CASE handle_s(p)
  BY <1>7 DEF handle_s, Resume, ResumeAddr, _consume_resume_addr, Where
<1>8. CASE handle_c(p)
  BY <1>8 DEF handle_c, Resume, ResumeAddr, _consume_resume_addr, Where
<1> QED
  BY <1>1, <1>2, <1>3, <1>4, <1>5, <1>6, <1>7, <1>8 DEF run_cmd, Fail

-----------------------------------------------------------------------------
(* The protocol.                                                           *)

\* A hart that runs on its own changes nothing the client relies on.
LEMMA ExecuteStep ==
  ASSUME GdbInv, Execute
  PROVE  GdbInv' /\ ~halted
<1>1. /\ ~halted
      /\ UNCHANGED <<mem, connected, inbox, outbox, breakpoints, pending_resume_addr, serve,
                     view, asked, broke, image, left, hasty>>
      /\ goes_on' = pc' /\ halted' \in BOOLEAN /\ UNCHANGED <<step, ebreakm>>
  <2>1. halted' = (ebreakm \/ step) \/ halted' = step
    BY DEF Execute
  <2>2. halted' \in BOOLEAN
    BY <2>1, Zenon DEF GdbInv, DataInv, TypeOK
  <2> QED
    BY <2>2 DEF Execute, linkVars, handlerVars, clientVars, haste
<1>2. TypeOK' /\ Patched' /\ Saved' /\ Where'
  BY <1>1 DEF GdbInv, DataInv, TypeOK, Patched, Saved, Where
<1>3. Carried' /\ Fresh'
  BY <1>1 DEF GdbInv, DataInv, Carried, Fresh, Holding, Legal
<1>4. ASSUME ~hasty'
      PROVE  Protocol'
  <2>1. ~hasty
    BY <1>1, <1>4
  <2> QED
    BY <1>1, <2>1 DEF GdbInv, Protocol, Unknown, Stopped, Resumed, Running, Awaited, BreakWaits,
       Quiet, Arriving, ReplyDue, Holding, Legal
<1> QED
  BY <1>1, <1>2, <1>3, <1>4 DEF GdbInv, DataInv

\* The loop of s or c ends with a report of the hart that has stopped.
LEMMA LeaveLoopStep ==
  ASSUME GdbInv, LeaveLoop
  PROVE  GdbInv'
<1>1. /\ serve \in {"s", "c"} /\ halted /\ serve' = "idle" /\ outbox' = Append(outbox, "stop")
      /\ step' = (step /\ serve # "s")
      /\ UNCHANGED <<halted, pc, mem, ebreakm, connected, inbox, breakpoints, pending_resume_addr,
                     view, asked, broke, image, left, goes_on, hasty>>
  BY DEF LeaveLoop, clientVars, historyVars, haste, send
<1>2. step' \in BOOLEAN
  BY <1>1, Zenon
<1>3. DataInv'
  BY <1>1, <1>2 DEF GdbInv, DataInv, TypeOK, Patched, Saved, Where, Carried, Fresh, Holding, Legal
<1>4. ASSUME ~hasty'
      PROVE  Protocol'
  <2>1. Awaited /\ BreakWaits /\ outbox = <<>>
    BY <1>1, <1>4 DEF GdbInv, Protocol, Unknown, Stopped, Resumed, Running, Awaited
  <2>2. outbox' = <<"stop">>
    BY <1>1, <2>1, ShortSequences
  <2>3. Awaited'
    BY <1>1, <2>1, <2>2 DEF Awaited, BreakWaits
  <2> QED BY <2>3 DEF Protocol
<1> QED
  BY <1>3, <1>4 DEF GdbInv

\* What a step of the client leaves alone.
LEMMA SilentKeeps ==
  ASSUME GdbInv, Silent
  PROVE  /\ Patched' /\ Saved' /\ Where' /\ (hasty' \in BOOLEAN => TypeOK')
         /\ UNCHANGED <<halted, connected, serve, breakpoints, pending_resume_addr>>
BY DEF GdbInv, DataInv, Silent, hartVars, handlerVars, historyVars, TypeOK, Patched, Saved, Where

\* A packet is sent when the last one has been taken; a Break may be before it.
LEMMA Sending ==
  ASSUME NEW Q, NEW p \in Q, Legal(p), inbox = <<>> \/ inbox = <<Break>>,
         inbox' = inbox \o Sent(p), UNCHANGED <<breakpoints, pending_resume_addr>>
  PROVE  /\ Holding(Q)'
         /\ inbox = <<>> /\ Pieces(p) = 1 => inbox' = <<One(p)>>
<1>1. Legal(p)'
  BY DEF Legal
<1>2. CASE Pieces(p) = 1
  <2>1. inbox' = <<One(p)>> \/ (inbox = <<Break>> /\ inbox' = <<Break, One(p)>>)
    <3>1. Sent(p) = <<One(p)>>
      BY <1>2, SentPieces
    <3>2. <<>> \o <<One(p)>> = <<One(p)>> /\ <<Break>> \o <<One(p)>> = <<Break, One(p)>>
      BY ShortSequences, BehindBreak
    <3> QED BY <3>1, <3>2, Zenon
  <2>2. <<Break>> # <<>>
    BY ShortSequences
  <2>3. Holding(Q)'
    BY <1>1, <1>2, <2>1 DEF Holding
  <2>4. inbox = <<>> => inbox' = <<One(p)>>
    BY <2>1, <2>2, Zenon
  <2> QED BY <2>3, <2>4
<1>3. CASE Pieces(p) # 1
  <2>1. inbox' = <<One(p), Two(p)>> \/ (inbox = <<Break>> /\ inbox' = <<Break, One(p), Two(p)>>)
    <3>1. Sent(p) = <<One(p), Two(p)>>
      BY <1>3, SentPieces
    <3>2. <<>> \o <<One(p), Two(p)>> = <<One(p), Two(p)>>
      BY ShortSequences
    <3>3. <<Break>> \o <<One(p), Two(p)>> = <<Break, One(p), Two(p)>>
      BY BehindBreak, Zenon
    <3> QED BY <3>1, <3>2, <3>3, Zenon
  <2> QED BY <1>1, <1>3, <2>1 DEF Holding
<1> QED
  BY <1>2, <1>3

\* A new client asks first.
LEMMA AttachStep ==
  ASSUME GdbInv, Attach
  PROVE  GdbInv'
<1> DEFINE p == [cmd |-> "qAttached"]
<1>1. /\ connected /\ view = "unknown" /\ ~asked
      /\ UNCHANGED <<view, broke, outbox, hasty>> /\ Silent
      /\ inbox' = inbox \o Sent(p) /\ asked'
  BY DEF Attach, Ask, haste
<1>2. UNCHANGED <<halted, connected, serve, breakpoints, pending_resume_addr>>
  BY <1>1, SilentKeeps
<1>3. p.cmd = "qAttached" /\ Pieces(p) = 1 /\ p \in Questions /\ Legal(p)
  BY DEF Pieces, Questions, Legal
<1> HIDE DEF p
<1>4. Unknown /\ Quiet /\ ~hasty
  BY <1>1 DEF GdbInv, DataInv, Fresh, Protocol, Unknown, Stopped, Resumed, Running, Awaited
<1>5. Holding(Questions)' /\ inbox' = <<One(p)>>
  BY <1>1, <1>2, <1>3, <1>4, Sending DEF Quiet
<1>6. DataInv'
  BY <1>1, <1>2, <1>4, <1>5, SilentKeeps DEF DataInv, GdbInv, TypeOK, Carried, Fresh
<1>7. Unknown'
  BY <1>1, <1>2, <1>4, <1>5 DEF p, Unknown, Quiet, Arriving
<1> QED
  BY <1>6, <1>7 DEF GdbInv, Protocol

\* A client sends a packet to the hart it takes to be stopped.
LEMMA CommandStep ==
  ASSUME GdbInv, Command
  PROVE  GdbInv'
<1>1. /\ connected /\ view = "stopped" /\ ~asked /\ Acknowledged /\ Silent
  BY DEF Command
<1>2. UNCHANGED <<halted, connected, serve, breakpoints, pending_resume_addr>>
  BY <1>1, SilentKeeps
<1>3. PICK p \in Packets :
          /\ Legal(p)
          /\ hasty' = (hasty \/ (p.cmd \in {"s", "c", "resume"} /\ Unsettled))
          /\ IF p.cmd \in {"s", "c"}
             THEN /\ inbox' = inbox \o Sent(p)
                  /\ view' = IF p.cmd = "s" \/ breakpoints # <<>> THEN "awaited" ELSE "running"
                  /\ UNCHANGED <<outbox, asked, broke>>
             ELSE /\ Ask(p) /\ view' = IF p.cmd = "resume" THEN "running" ELSE view
  BY DEF Command
<1>4. inbox' = inbox \o Sent(p) /\ UNCHANGED <<outbox, broke>>
  BY <1>3 DEF Ask
<1>5. inbox = <<>> \/ inbox = <<Break>>
  <2>1. ASSUME NEW q \in Questions,
               inbox \in {<<One(q)>>, <<Break, One(q)>>, <<One(q), Two(q)>>,
                          <<Break, One(q), Two(q)>>, <<Two(q)>>}
        PROVE  FALSE
    <3>1. One(q) # Break /\ Two(q) # Break
      BY NotBreak
    <3>2. CASE inbox = <<One(q)>>
      <4>1. 1 \in DOMAIN inbox /\ inbox[1] = One(q)
        BY <3>2
      <4> QED BY <1>1, <3>1, <4>1 DEF Acknowledged
    <3>3. CASE inbox = <<Break, One(q)>>
      <4>1. 2 \in DOMAIN inbox /\ inbox[2] = One(q)
        BY <3>3
      <4> QED BY <1>1, <3>1, <4>1 DEF Acknowledged
    <3>4. CASE inbox = <<One(q), Two(q)>>
      <4>1. 1 \in DOMAIN inbox /\ inbox[1] = One(q)
        BY <3>4
      <4> QED BY <1>1, <3>1, <4>1 DEF Acknowledged
    <3>5. CASE inbox = <<Break, One(q), Two(q)>>
      <4>1. 2 \in DOMAIN inbox /\ inbox[2] = One(q)
        BY <3>5
      <4> QED BY <1>1, <3>1, <4>1 DEF Acknowledged
    <3>6. CASE inbox = <<Two(q)>>
      <4>1. 1 \in DOMAIN inbox /\ inbox[1] = Two(q)
        BY <3>6
      <4> QED BY <1>1, <3>1, <4>1 DEF Acknowledged
    <3> QED BY <2>1, <3>2, <3>3, <3>4, <3>5, <3>6
  <2> QED BY <2>1 DEF GdbInv, DataInv, Carried, Holding
<1>6. DataInv'
  <2>1. p \in Questions
    BY DEF Questions
  <2>2. Holding(Questions)'
    BY <1>2, <1>3, <1>4, <1>5, <2>1, Sending
  <2>3. hasty' \in BOOLEAN
    <3>1. hasty \in BOOLEAN
      BY DEF GdbInv, DataInv, TypeOK
    <3> QED BY <1>3, <3>1, Zenon
  <2>4. view' # "unknown"
    BY <1>1, <1>3
  <2> QED
    BY <1>1, <1>2, <2>2, <2>3, <2>4, SilentKeeps DEF DataInv, Carried, Fresh
<1>7. ASSUME ~hasty'
      PROVE  Protocol'
  <2>1. /\ ~hasty
        /\ p.cmd \in {"s", "c", "resume"} => inbox = <<>> /\ outbox = <<>>
    BY <1>3, <1>7, Zenon DEF Unsettled
  <2>2. Stopped
    BY <1>1, <2>1 DEF GdbInv, Protocol, Unknown, Stopped, Resumed, Running, Awaited
  <2>3. p.cmd \in {"s", "c", "resume"} => Arriving(p)'
    <3>1. p.cmd # "M" => Pieces(p) = 1
      BY DEF Pieces
    <3>2. p.cmd \in {"s", "c", "resume"} => inbox' = <<One(p)>>
      BY <1>2, <1>3, <1>4, <2>1, <3>1, Sending
    <3> QED BY <1>4, <2>1, <3>2 DEF Arriving
  <2>4. CASE p.cmd = "s" \/ (p.cmd = "c" /\ breakpoints # <<>>)
    <3>1. view' = "awaited" /\ UNCHANGED <<asked, broke>>
      BY <1>3, <2>4
    <3>2. Awaited'
      BY <1>1, <1>2, <2>2, <2>3, <2>4, <3>1 DEF Awaited, Stopped
    <3> QED BY <3>2 DEF Protocol
  <2>5. CASE p.cmd = "c" /\ breakpoints = <<>>
    <3>1. view' = "running" /\ UNCHANGED <<asked, broke>>
      BY <1>3, <2>5
    <3>2. Running'
      BY <1>1, <1>2, <2>2, <2>3, <2>5, <3>1 DEF Running, Stopped
    <3> QED BY <3>2 DEF Protocol
  <2>6. CASE p.cmd = "resume"
    <3>1. view' = "running" /\ asked' /\ UNCHANGED broke
      BY <1>3, <2>6 DEF Ask
    <3>2. Resumed'
      BY <1>1, <1>2, <1>3, <2>2, <2>3, <2>6, <3>1 DEF Resumed, Stopped, Legal
    <3> QED BY <3>2 DEF Protocol
  <2>7. CASE p.cmd \notin {"s", "c", "resume"}
    <3>1. p \in StayingQuestions
      BY <2>7 DEF StayingQuestions
    <3>2. Holding(StayingQuestions)'
      BY <1>2, <1>3, <1>4, <1>5, <3>1, Sending
    <3>3. view' = "stopped"
      BY <1>1, <1>3, <2>7
    <3>4. Stopped'
      BY <1>2, <1>4, <2>2, <3>2, <3>3 DEF Stopped
    <3> QED BY <3>4 DEF Protocol
  <2> QED BY <2>4, <2>5, <2>6, <2>7
<1> QED
  BY <1>6, <1>7 DEF GdbInv

\* A Break is sent when the last packet has been taken.
LEMMA InterruptStep ==
  ASSUME GdbInv, Interrupt
  PROVE  GdbInv'
<1>1. /\ view \in {"running", "awaited"} /\ ~broke /\ ~asked /\ connected /\ inbox = <<>>
      /\ inbox' = <<Break>> /\ broke' = TRUE /\ UNCHANGED <<outbox, view, asked, hasty>> /\ Silent
  BY DEF Interrupt, haste
<1>2. UNCHANGED <<halted, connected, serve, breakpoints, pending_resume_addr>>
  BY <1>1, SilentKeeps
<1>3. DataInv'
  <2>1. hasty' \in BOOLEAN
    BY <1>1 DEF GdbInv, DataInv, TypeOK
  <2>2. Holding(Questions)' /\ view' # "unknown"
    BY <1>1 DEF Holding
  <2> QED
    BY <1>1, <1>2, <2>1, <2>2, SilentKeeps DEF DataInv, Carried, Fresh
<1>4. ASSUME ~hasty'
      PROVE  Protocol'
  <2>1. Running \/ Awaited
    BY <1>1, <1>4 DEF GdbInv, Protocol, Unknown, Stopped, Resumed
  <2>2. ASSUME NEW p
        PROVE  ~Arriving(p)
    BY <1>1, ShortSequences DEF Arriving
  <2>3. CASE Running
    <3>1. Quiet
      BY <1>1, <2>2, <2>3 DEF Running
    <3>2. Running'
      BY <1>1, <1>2, <2>3, <3>1 DEF Running, Quiet
    <3> QED BY <3>2 DEF Protocol
  <2>4. CASE Awaited
    <3>1. \/ serve \in {"s", "c"} /\ outbox = <<>>
          \/ serve = "idle" /\ halted /\ outbox = <<"stop">>
      BY <1>1, <2>2, <2>4 DEF Awaited
    <3>2. BreakWaits'
      BY <1>1 DEF BreakWaits
    <3>3. Awaited'
      BY <1>1, <1>2, <2>4, <3>1, <3>2 DEF Awaited
    <3> QED BY <3>3 DEF Protocol
  <2> QED BY <2>1, <2>3, <2>4
<1> QED
  BY <1>3, <1>4 DEF GdbInv

\* A reply that arrives finds the hart stopped, or is for a packet that lets it run.
LEMMA ReplyStep ==
  ASSUME GdbInv, Reply
  PROVE  GdbInv'
<1>1. /\ connected /\ outbox # <<>> /\ outbox' = Tail(outbox)
      /\ UNCHANGED <<inbox, hasty>> /\ Silent
  BY DEF Reply, haste
<1>2. IF Head(outbox) = "stop"
      THEN view' = "stopped" /\ broke' = FALSE /\ UNCHANGED asked
      ELSE /\ asked' = FALSE /\ UNCHANGED broke
           /\ view' = IF view = "unknown" THEN "stopped" ELSE view
  BY DEF Reply
<1>3. UNCHANGED <<halted, connected, serve, breakpoints, pending_resume_addr>>
  BY <1>1, SilentKeeps
<1>4. \A Q : Holding(Q) => Holding(Q)'
  BY <1>1, <1>3 DEF Holding, Legal
<1>5. DataInv'
  <2>1. hasty' \in BOOLEAN /\ view' # "unknown"
    BY <1>1, <1>2 DEF GdbInv, DataInv, TypeOK
  <2>2. Holding(Questions)'
    BY <1>4 DEF GdbInv, DataInv, Carried
  <2> QED
    BY <1>1, <1>3, <2>1, <2>2, SilentKeeps DEF DataInv, Carried, Fresh
<1>6. ASSUME ~hasty'
      PROVE  Protocol'
  <2>1. Protocol
    BY <1>1, <1>6 DEF GdbInv
  <2>2. CASE Stopped
    <3>1. view' = "stopped" /\ ~broke'
      BY <1>2, <2>2 DEF Stopped
    <3>2. outbox' \in Seq({"answer", "stop"})
      BY <1>1, <2>2, HeadTailProperties DEF Stopped
    <3>3. Holding(StayingQuestions)'
      BY <1>4, <2>2 DEF Stopped
    <3>4. Stopped'
      BY <1>3, <2>2, <3>1, <3>2, <3>3 DEF Stopped
    <3> QED BY <3>4 DEF Protocol
  <2>3. ASSUME inbox = <<>> \/ inbox = <<Break>>, halted, serve = "idle",
               view' = "stopped", ~broke', outbox' = <<>> \/ outbox' = <<"stop">>
        PROVE  Protocol'
    <3>1. Holding(StayingQuestions)'
      BY <1>1, <2>3 DEF Holding
    <3>2. outbox' \in Seq({"answer", "stop"})
      <4>1. <<>> \in Seq({"answer", "stop"}) /\ <<"stop">> \in Seq({"answer", "stop"})
        OBVIOUS
      <4> QED BY <2>3, <4>1, Zenon
    <3>3. Stopped'
      BY <1>1, <1>3, <2>3, <3>1, <3>2 DEF Stopped
    <3> QED BY <3>3 DEF Protocol
  <2>4. CASE Unknown
    <3>1. inbox = <<>> /\ outbox = <<"answer">> /\ halted
      BY <1>1, <2>4 DEF Unknown, Quiet, Arriving, ReplyDue
    <3>2. Head(outbox) # "stop" /\ outbox' = <<>>
      BY <1>1, <3>1, ShortSequences
    <3>3. view' = "stopped" /\ ~broke'
      BY <1>2, <2>4, <3>2 DEF Unknown
    <3> QED BY <2>3, <2>4, <3>1, <3>2, <3>3 DEF Unknown
  <2>5. CASE Resumed
    <3>1. inbox = <<>> /\ outbox = <<"answer">>
      BY <1>1, <2>5 DEF Resumed, Arriving, ReplyDue
    <3>2. Head(outbox) # "stop" /\ outbox' = <<>>
      BY <1>1, <3>1, ShortSequences
    <3>3. Running'
      BY <1>1, <1>2, <1>3, <2>5, <3>1, <3>2 DEF Resumed, Running, Quiet
    <3> QED BY <3>3 DEF Protocol
  <2>6. CASE Running
    <3>1. inbox = <<>> /\ outbox = <<"stop">> /\ halted
      BY <1>1, <2>6 DEF Running, Quiet, Arriving, ReplyDue
    <3>2. Head(outbox) = "stop" /\ outbox' = <<>>
      BY <1>1, <3>1, ShortSequences
    <3> QED BY <1>2, <2>3, <2>6, <3>1, <3>2 DEF Running
  <2>7. CASE Awaited
    <3>1. /\ inbox = <<>> \/ inbox = <<Break>>
          /\ outbox = <<"stop">> \/ outbox = <<"stop", "stop">>
          /\ halted /\ serve = "idle"
      BY <1>1, <2>7 DEF Awaited, Arriving, BreakWaits
    <3>2. Head(outbox) = "stop" /\ (outbox' = <<>> \/ outbox' = <<"stop">>)
      <4>1. /\ Tail(<<"stop">>) = <<>> /\ Head(<<"stop">>) = "stop"
            /\ Tail(<<"stop", "stop">>) = <<"stop">> /\ Head(<<"stop", "stop">>) = "stop"
        BY ShortSequences
      <4> QED BY <1>1, <3>1, <4>1, Zenon
    <3> QED BY <1>2, <2>3, <3>1, <3>2
  <2> QED BY <2>1, <2>2, <2>4, <2>5, <2>6, <2>7 DEF Protocol
<1> QED
  BY <1>5, <1>6 DEF GdbInv

\* A client that connects finds no breakpoints.
LEMMA ConnectStep ==
  ASSUME GdbInv, Connect
  PROVE  GdbInv' /\ UNCHANGED halted
<1>1. /\ ~connected /\ connected' = TRUE
      /\ breakpoints' = <<>> /\ pending_resume_addr' = NoAddr
      /\ view' = "unknown" /\ asked' = FALSE /\ broke' = FALSE
      /\ UNCHANGED <<halted, pc, mem, step, ebreakm, inbox, outbox, serve, image, left, goes_on,
                     hasty>>
  BY DEF Connect, hartVars, historyVars, haste
<1>2. breakpoints = <<>> /\ pending_resume_addr = NoAddr /\ inbox = <<>> /\ ~hasty
  BY <1>1 DEF GdbInv, DataInv, TypeOK, Carried, Fresh
<1>3. TypeOK' /\ Patched' /\ Saved' /\ Where'
  BY <1>1, <1>2 DEF GdbInv, DataInv, TypeOK, Patched, Saved, Where
<1>4. Carried' /\ Fresh'
  BY <1>1, <1>2 DEF Carried, Fresh, Holding
<1>5. Unknown /\ Quiet
  BY <1>1, <1>2 DEF GdbInv, Protocol, Unknown, Stopped, Resumed, Running, Awaited
<1>6. Unknown'
  BY <1>1, <1>5 DEF Unknown, Quiet
<1> QED
  BY <1>1, <1>3, <1>4, <1>6 DEF GdbInv, DataInv, Protocol

\* A client that goes away leaves its breakpoints in memory (gdbserver/main.py).
LEMMA CloseStep ==
  ASSUME GdbInv, Close
  PROVE  GdbInv' /\ UNCHANGED halted
<1>1. /\ serve = "idle" /\ inbox = <<>> /\ outbox = <<>> /\ connected' = FALSE
      /\ left' = left \cup DOMAIN breakpoints /\ goes_on' = pc /\ hasty' = FALSE
      /\ breakpoints' = <<>> /\ pending_resume_addr' = NoAddr
      /\ view' = "unknown" /\ asked' = FALSE /\ broke' = FALSE
      /\ UNCHANGED <<halted, pc, mem, step, ebreakm, inbox, outbox, serve, image>>
  BY DEF Close, hartVars
<1>2. DOMAIN breakpoints' = {}
  BY <1>1
<1>3. TypeOK'
  BY <1>1, <1>2 DEF GdbInv, DataInv, TypeOK
<1>4. Patched' /\ Saved' /\ Where'
  BY <1>1, <1>2 DEF GdbInv, DataInv, TypeOK, Patched, Saved, Where
<1>5. Carried' /\ Fresh'
  BY <1>1 DEF Carried, Fresh, Holding
<1>6. Unknown'
  BY <1>1 DEF Unknown, Quiet
<1> QED
  BY <1>1, <1>3, <1>4, <1>5, <1>6 DEF GdbInv, DataInv, Protocol

\* The server takes a piece of what has arrived. Memory, breakpoints and pc stay in
\* step, whatever the hart does meanwhile.
LEMMA RecvKeepsData ==
  ASSUME GdbInv, Recv
  PROVE  DataInv' /\ (halted /\ ~halted' => pc' = goes_on')
<1>1. inbox # <<>> /\ connected /\ UNCHANGED <<connected, view, hasty>>
  BY DEF Recv, clientVars
<1>2. Holding(Questions) /\ ~(view = "unknown" /\ hasty) /\ TypeOK /\ Patched /\ Saved /\ Where
  BY DEF GdbInv, DataInv, Carried, Fresh
<1>3. Holding(Questions)'
  BY <1>2, RecvHolding
<1>4. Carried' /\ Fresh'
  BY <1>1, <1>2, <1>3 DEF Carried, Fresh
<1>5. PICK p : run_cmd(p) /\ Permitted(p)
  BY <1>2, RecvHolding
<1>6. CASE Refused(p)
  <2>1. Fail(p)
    BY <1>5, <1>6, RefusedFails
  <2>2. UNCHANGED <<halted, pc, mem, step, ebreakm, breakpoints, pending_resume_addr, image, left,
                    goes_on>>
    BY <2>1 DEF Fail, hartVars, historyVars
  <2> QED
    BY <1>1, <1>2, <1>4, <2>2 DEF DataInv, TypeOK, Patched, Saved, Where
<1>7. CASE ~Refused(p)
  BY <1>1, <1>2, <1>4, <1>5, <1>7, PacketKeepsMemory, PacketKeepsWhere DEF DataInv
<1> QED
  BY <1>6, <1>7

\* What the server makes of it is a packet that is not refused, and the client's view
\* remains true.
LEMMA RecvKeepsProtocol ==
  ASSUME GdbInv, Recv, ~hasty
  PROVE  Protocol'
<1>1. /\ serve = "idle" /\ connected /\ inbox # <<>>
      /\ UNCHANGED <<connected, view, asked, broke>>
  BY DEF Recv, clientVars
<1>2. Holding(Questions) /\ Protocol
  BY DEF GdbInv, DataInv, Carried
<1>3. ASSUME NEW p \in Questions, Pieces(p) = 1, inbox = <<One(p)>>
      PROVE  run_cmd(p) /\ inbox' = <<>>
  <2>1. PICK q : run_cmd(q) /\ (\A r \in Questions : Pieces(r) = 1 /\ inbox = <<One(r)>>
                                                        => q = r /\ inbox' = <<>>)
    BY <1>2, RecvHolding
  <2> QED BY <1>3, <2>1
<1>4. ASSUME inbox = <<Break>>, outbox = <<>>
      PROVE  halted' /\ serve' = "idle" /\ inbox' = <<>> /\ outbox' = <<"stop">>
  <2>1. PICK p : run_cmd(p) /\ (inbox = <<Break>> => p.cmd = "break" /\ inbox' = <<>>)
    BY <1>2, RecvHolding
  <2>2. p.cmd = "break"
    BY <1>4, <2>1
  <2>3. ~Refused(p)
    BY <2>2, NotRefused
  <2>4. handle_break(p)
    BY <2>1, <2>2, <2>3, HandlerOf
  <2> QED
    BY <1>1, <1>4, <2>1, <2>4, ShortSequences DEF handle_break, handlerVars, send
<1>5. CASE Unknown
  <2> DEFINE p == [cmd |-> "qAttached"]
  <2>1. Arriving(p) /\ asked /\ view = "unknown" /\ ~broke
    BY <1>1, <1>5 DEF Unknown, Quiet, ReplyDue
  <2>2. Pieces(p) = 1 /\ p \in Questions /\ p.cmd = "qAttached"
    BY DEF Pieces, Questions
  <2> HIDE DEF p
  <2>3. run_cmd(p) /\ inbox' = <<>> /\ outbox = <<>>
    BY <1>3, <2>1, <2>2 DEF Arriving
  <2>4. handle_halt(p)
    BY <2>2, <2>3, HandlerOf, NotRefused
  <2>5. halted' /\ serve' = "idle" /\ outbox' = <<"answer">>
    BY <1>1, <2>3, <2>4, ShortSequences DEF handle_halt, handlerVars, send
  <2>6. Unknown'
    BY <1>1, <2>1, <2>3, <2>5 DEF Unknown, ReplyDue
  <2> QED
    BY <2>6 DEF Protocol
<1>6. CASE Stopped
  <2>1. StayingQuestions \subseteq Questions
    BY DEF StayingQuestions, Questions
  <2>2. Holding(StayingQuestions) /\ halted
    BY <1>6 DEF Stopped
  <2>3. Holding(StayingQuestions)'
    BY <2>1, <2>2, RecvHolding
  <2>4. PICK p : run_cmd(p) /\ (p.cmd \in {"break", "EOF"} \/ p \in StayingQuestions)
    BY <2>1, <2>2, RecvHolding
  <2>5. ~Refused(p)
    BY <2>2, NotRefused
  <2>6. \/ handle_break(p) \/ handle_halt(p) \/ handle_reset(p) \/ handle_query(p) \/ handle_P(p)
        \/ handle_M(p) \/ handle_Z(p) \/ handle_z(p) \/ Drop(p)
    BY <2>4, <2>5, HandlerOf, PacketType DEF StayingQuestions
  <2>7. /\ halted' = TRUE \/ halted' = halted
        /\ serve' = serve
        /\ send("answer") \/ send("stop") \/ outbox' = outbox
    BY <2>6 DEF handle_break, handle_halt, handle_reset, handle_query, handle_P, handle_M, handle_Z,
                handle_z, Drop, hartVars, handlerVars
  <2>8. outbox' \in Seq({"answer", "stop"})
    BY <1>6, <2>7, AppendProperties DEF Stopped, send
  <2>9. Stopped'
    BY <1>1, <1>6, <2>2, <2>3, <2>7, <2>8 DEF Stopped
  <2> QED
    BY <2>9 DEF Protocol
<1>7. CASE Resumed
  <2>1. view = "running" /\ ~broke /\ asked
    BY <1>7 DEF Resumed
  <2>2. PICK p \in Packets : p.cmd = "resume" /\ Arriving(p) /\ pending_resume_addr = NoAddr
    BY <1>1, <1>7 DEF Resumed, ReplyDue
  <2>3. Pieces(p) = 1 /\ p \in Questions
    BY <2>2 DEF Pieces, Questions
  <2>4. run_cmd(p) /\ inbox' = <<>> /\ outbox = <<>>
    BY <1>3, <2>2, <2>3 DEF Arriving
  <2>5. handle_resume(p)
    BY <2>2, <2>4, HandlerOf, NotRefused
  <2>6. serve' = "idle" /\ outbox' = <<"answer">>
    BY <1>1, <2>4, <2>5, ShortSequences DEF handle_resume, handlerVars, send
  <2>7. Resumed'
    BY <1>1, <2>1, <2>4, <2>6 DEF Resumed, ReplyDue
  <2> QED
    BY <2>7 DEF Protocol
<1>8. CASE Running /\ broke
  <2>1. inbox = <<Break>> /\ outbox = <<>>
    BY <1>1, <1>8 DEF Running, ReplyDue
  <2>2. Running'
    BY <1>1, <1>4, <1>8, <2>1 DEF Running, ReplyDue
  <2> QED
    BY <2>2 DEF Protocol
<1>9. CASE Running /\ ~broke
  <2>1. PICK p \in Packets : p.cmd = "c" /\ halted /\ breakpoints = <<>> /\ Arriving(p)
    BY <1>1, <1>9 DEF Running, Quiet
  <2>2. Pieces(p) = 1 /\ p \in Questions
    BY <2>1 DEF Pieces, Questions
  <2>3. run_cmd(p) /\ inbox' = <<>> /\ outbox = <<>>
    BY <1>3, <2>1, <2>2 DEF Arriving
  <2>4. handle_c(p)
    BY <2>1, <2>3, HandlerOf, NotRefused
  <2>5. serve' = "idle" /\ outbox' = <<>>
    BY <2>1, <2>3, <2>4 DEF handle_c, Resume
  <2>6. Running'
    BY <1>1, <1>9, <2>3, <2>5 DEF Running, Quiet
  <2> QED
    BY <2>6 DEF Protocol
<1>10. CASE Awaited /\ inbox = <<Break>> /\ outbox = <<"stop">> /\ broke /\ halted
  <2>1. PICK p : run_cmd(p) /\ (inbox = <<Break>> => p.cmd = "break" /\ inbox' = <<>>)
    BY <1>2, RecvHolding
  <2>2. p.cmd = "break" /\ inbox' = <<>>
    BY <1>10, <2>1
  <2>3. handle_break(p)
    BY <2>1, <2>2, HandlerOf, NotRefused
  <2>4. halted' /\ serve' = "idle" /\ outbox' = <<"stop", "stop">>
    BY <1>1, <1>10, <2>3, ShortSequences DEF handle_break, handlerVars, send
  <2>5. Awaited'
    BY <1>1, <1>10, <2>2, <2>4 DEF Awaited
  <2> QED
    BY <2>5 DEF Protocol
<1>11. CASE /\ Awaited /\ halted /\ ~broke
            /\ \E p \in Packets : /\ Arriving(p)
                                  /\ p.cmd = "s" \/ (p.cmd = "c" /\ breakpoints # <<>>)
  <2>1. PICK p \in Packets : /\ Arriving(p)
                             /\ p.cmd = "s" \/ (p.cmd = "c" /\ breakpoints # <<>>)
    BY <1>11
  <2>2. Pieces(p) = 1 /\ p \in Questions
    BY <2>1 DEF Pieces, Questions
  <2>3. run_cmd(p) /\ inbox' = <<>> /\ outbox = <<>>
    BY <1>3, <2>1, <2>2 DEF Arriving
  <2>4. handle_s(p) \/ (handle_c(p) /\ breakpoints # <<>>)
    BY <1>11, <2>1, <2>3, HandlerOf, NotRefused
  <2>5. serve' \in {"s", "c"} /\ outbox' = <<>>
    BY <2>3, <2>4 DEF handle_s, handle_c, Resume
  <2>6. Awaited'
    BY <1>1, <1>11, <2>3, <2>5 DEF Awaited, BreakWaits
  <2> QED
    BY <2>6 DEF Protocol
<1>12. Awaited => \/ inbox = <<Break>> /\ outbox = <<"stop">> /\ broke /\ halted
                  \/ /\ halted /\ ~broke
                     /\ \E p \in Packets : /\ Arriving(p)
                                           /\ p.cmd = "s" \/ (p.cmd = "c" /\ breakpoints # <<>>)
  BY <1>1 DEF Awaited, BreakWaits
<1> QED
  BY <1>2, <1>5, <1>6, <1>7, <1>8, <1>9, <1>10, <1>11, <1>12 DEF Protocol

\* Receiving keeps both parts of the invariant, and a hart that is let run starts where
\* it goes on.
LEMMA RecvStep ==
  ASSUME GdbInv, Recv
  PROVE  GdbInv' /\ (halted /\ ~halted' => pc' = goes_on')
<1>1. UNCHANGED hasty
  BY DEF Recv
<1> QED
  BY <1>1, RecvKeepsData, RecvKeepsProtocol DEF GdbInv

-----------------------------------------------------------------------------
(* The theorems.                                                           *)

\* The server starts with nothing patched and with the image in memory
\* (gdbserver/gdb_rsp.py, the constructor).
LEMMA InitEstablishes ==
  ASSUME Init
  PROVE  GdbInv
<1>1. Unknown
  BY DEF Init, Unknown, Quiet
<1>2. TypeOK
  <2>1. Program \in [Addr -> Words]
    BY GdbAssumption
  <2>2. breakpoints = <<>> /\ DOMAIN breakpoints = {}
    BY DEF Init
  <2> QED
    BY <2>1, <2>2 DEF Init, TypeOK
<1>3. Patched /\ Saved /\ Where
  BY DEF Init, Patched, Saved, Where
<1>4. Carried /\ Fresh
  BY DEF Init, Carried, Fresh, Holding
<1> QED
  BY <1>1, <1>2, <1>3, <1>4 DEF GdbInv, DataInv, Protocol

\* Every step of hart, server and client keeps the invariant, and a hart that starts
\* does so where it goes on.
LEMMA NextKeeps ==
  ASSUME GdbInv, [Next]_vars
  PROVE  GdbInv' /\ (halted /\ ~halted' => pc' = goes_on')
<1>1. CASE Execute
  BY <1>1, ExecuteStep
<1>2. CASE Recv
  BY <1>2, RecvStep
<1>3. CASE LeaveLoop
  BY <1>3, LeaveLoopStep DEF LeaveLoop
<1>4. CASE Attach \/ Command \/ Interrupt \/ Reply
  <2>1. UNCHANGED halted
    BY <1>4 DEF Attach, Command, Interrupt, Reply, Silent, hartVars
  <2> QED
    BY <1>4, <2>1, AttachStep, CommandStep, InterruptStep, ReplyStep
<1>5. CASE Connect \/ Close
  BY <1>5, ConnectStep, CloseStep
<1>6. CASE Ended \/ UNCHANGED vars
  <2>1. UNCHANGED vars
    BY <1>6 DEF Ended
  <2>2. DataInv'
    BY <2>1 DEF vars, hartVars, linkVars, handlerVars, clientVars, historyVars, haste, GdbInv,
         DataInv, TypeOK, Patched, Saved, Where, Carried, Fresh, Holding, Legal
  <2>3. Protocol => Protocol'
    BY <2>1 DEF vars, hartVars, linkVars, handlerVars, clientVars, historyVars, haste, Protocol,
         Unknown, Stopped, Resumed, Running, Awaited, BreakWaits, Quiet, Arriving, ReplyDue,
         Holding, Legal
  <2> QED
    BY <2>1, <2>2, <2>3 DEF vars, hartVars, haste, GdbInv
<1> QED
  BY <1>1, <1>2, <1>3, <1>4, <1>5, <1>6 DEF Next, Server, Client

\* The memory, the hart and the client's view stay in step in every behaviour of
\* server, hart and client (gdbserver/gdb_rsp.py, gdbserver/main.py).
THEOREM Invariant == Spec => []GdbInv
<1>1. Init => GdbInv
  BY InitEstablishes
<1>2. GdbInv /\ [Next]_vars => GdbInv'
  BY NextKeeps
<1> QED
  BY <1>1, <1>2, PTL DEF Spec

\* Memory differs from what the client has written by its breakpoints only, those
\* inserted and those a closed connection has left (gdbserver/gdb_rsp.py:383-431).
THEOREM SpecPatched == Spec => []Patched
<1>1. GdbInv => Patched
  BY DEF GdbInv, DataInv
<1> QED
  BY <1>1, Invariant, PTL

\* A hart the client takes to be stopped is halted, and no access of a handler is
\* refused (tb/debug/debug_api.py:119, 158), for a client that does not let the hart
\* run on before it has the reply to its last Break.
THEOREM SpecStoppedIsHalted == Spec => []StoppedIsHalted
<1>1. GdbInv => StoppedIsHalted
  BY DEF GdbInv, Protocol, StoppedIsHalted, Unknown, Stopped, Resumed, Running, Awaited
<1> QED
  BY <1>1, Invariant, PTL

\* A program goes on where it stopped or where the client wants it
\* (gdbserver/gdb_rsp.py:112-118).
THEOREM SpecGoesOn == Spec => GoesOn
<1>1. GdbInv /\ [Next]_vars => [halted /\ ~halted' => pc' = goes_on']_vars
  BY NextKeeps
<1> QED
  BY <1>1, Invariant, PTL DEF Spec, GoesOn

=============================================================================
