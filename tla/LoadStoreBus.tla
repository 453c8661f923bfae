---------------------------- MODULE LoadStoreBus ----------------------------
(***************************************************************************)
(* The load/store unit, in every setting it can be built with, between an  *)
(* execute stage that offers operations at any time and a data bus slave.  *)
(*                                                                         *)
(* With one outstanding operation, the setting of the core                 *)
(* (execute.py:88), the slave stalls as it likes and answers in the clock  *)
(* of the request (rtl/uncore/ram_dp.py on writes, DbusToWishbone) or any  *)
(* number of clocks later.  With more, the slave is that of                *)
(* tb/tb_loadstore.py: tb/sim_ram.py with any latency, which stalls while  *)
(* it owes an answer.                                                      *)
(***************************************************************************)
EXTENDS Naturals, Sequences

CONSTANTS
    Rd,             \* operation names
    Junk,           \* what the data bus shows when nothing is answered
    Misaligned,     \* the program may access misaligned addresses
    Mixed           \* any operations and errors meet in a unit with several slots

ASSUME BusAssumption == {Misaligned, Mixed} \subseteq BOOLEAN

VARIABLES
    setting,        \* config.loadstore_outstanding and the stage settings
    pipe, outstanding, en_r, bus_en, bus_op, valid_reg, result_o,
    bus_error_o, invalid_op_o, misalign_o,      \* those of LoadStoreUnit
    accepted,       \* requests the slave has accepted and not answered
    queue,          \* history: operations taken and not retired, oldest first
    answered,       \* history: an answer arrived in the last clock
    retired         \* history: what the unit showed at the last retirement

vars == <<setting, pipe, outstanding, en_r, bus_en, bus_op, valid_reg, result_o,
          bus_error_o, invalid_op_o, misalign_o, accepted, queue, answered, retired>>

Unit(s) == INSTANCE LoadStoreUnit WITH
    MaxOutstanding <- s.outstanding,
    RegisteredReadStage <- s.registered,
    WriteEarlyTerm <- s.early

\* loadstore.py:70-73; the stores of one outstanding operation may end early.
Settings == {s \in [outstanding : 1 .. 3, registered : BOOLEAN, early : BOOLEAN] :
                /\ s.outstanding = 3 => s.registered
                /\ s.early => s.registered /\ s.outstanding = 1}

Built == {s \in Settings : s = setting}
Single(s) == s.outstanding = 1

Names(ops) == {ops[i].rd : i \in DOMAIN ops}

\* Names rotate: an operation gets one that nothing in the unit has.
FreeName == CHOOSE r \in Rd : r \notin UNION {Names(pipe), Names(queue), Names(accepted)}

\* What may enter behind an operation in the unit.  With registered reads and
\* room for two, an answer may find the flags of the operation before it in
\* slot 1; with room for three, slot 1 may hold the kind of the one behind it.
Joins(s, op) ==
    LET alike(field) == queue # <<>> => op[field] = Head(queue)[field]
    IN  \/ Single(s) \/ ~s.registered \/ Mixed
        \/ s.outstanding = 2 /\ alike("width") /\ alike("invalid_op")
        \/ s.outstanding = 3 /\ alike("store") /\ ~op.invalid_op

\* The operations execute can offer; an unknown width is treated as a word.
Offers(s) ==
    {op \in [rd : {FreeName}, store : BOOLEAN, width : {"byte", "word"},
             misalign : BOOLEAN, invalid_op : BOOLEAN] :
        /\ Unit(s)!Possible(op) /\ (op.invalid_op => op.width = "word")
        /\ op.misalign => Misaligned
        /\ Joins(s, op)}

\* A slave takes a request when it does not stall.
AcceptedNow(stall_i) == IF bus_en /\ ~stall_i THEN Append(accepted, bus_op) ELSE accepted

\* What the slave may drive.  A full unit without registered reads makes room
\* for an acknowledge but not for an error (loadstore.py:301).
SlaveMay(s, stall_i, ack_i, error_i) ==
    LET answer == ack_i \/ error_i
    IN  /\ ~(ack_i /\ error_i)
        /\ answer => AcceptedNow(stall_i) # <<>>
        /\ Single(s) \/
              /\ answer => accepted # <<>>
              /\ stall_i = (bus_en /\ accepted # <<>> /\ ~answer)
              /\ error_i => s.registered \/ Mixed

\* The operation leaves the unit in this clock.
Retires(s, ack_i, error_i) ==
    \/ Unit(s)!valid_o(ack_i, error_i)
    \/ IF Unit(s)!Unregistered THEN Unit(s)!confirm(ack_i, error_i) ELSE answered

Shown(s, ack_i, error_i, db_rd) ==
    LET valid == Unit(s)!valid_o(ack_i, error_i)
        data == IF s.registered THEN result_o ELSE Unit(s)!rdmux_out(db_rd)
    IN  [valid |-> valid,
         written |-> IF valid /\ Unit(s)!we_o THEN {[rd |-> Unit(s)!rd_o, data |-> data]} ELSE {}]

Clock(s, ops, stall_i, ack_i, error_i) ==
    LET retires == Retires(s, ack_i, error_i)
        taken == Unit(s)!Taken(ops, stall_i, ack_i)
        left == IF retires /\ queue # <<>> THEN Tail(queue) ELSE queue
        answer == ack_i \/ error_i
        db_rd == IF answer THEN Head(AcceptedNow(stall_i)).rd ELSE Junk
    IN  /\ Unit(s)!LsuClock(ops, stall_i, ack_i, error_i, db_rd)
        /\ accepted' = IF answer THEN Tail(AcceptedNow(stall_i)) ELSE AcceptedNow(stall_i)
        /\ answered' = Unit(s)!confirm(ack_i, error_i)
        /\ IF taken = {} THEN queue' = left ELSE \E op \in taken : queue' = Append(left, op)
        /\ retired' = IF retires
                      THEN [outcome |-> {Shown(s, ack_i, error_i, db_rd)},
                            toggle |-> ~retired.toggle]
                      ELSE retired
        /\ UNCHANGED setting

Init ==
    /\ setting \in Settings
    /\ \E s \in Built : Unit(s)!LsuInit
    /\ accepted = <<>> /\ queue = <<>> /\ answered = FALSE
    /\ retired = [outcome |-> {}, toggle |-> FALSE]

\* Execute offers nothing or one operation.
Choices(s) == {{}} \cup {{op} : op \in Offers(s)}

Next == \E s \in Built, stall_i, ack_i, error_i \in BOOLEAN :
            /\ SlaveMay(s, stall_i, ack_i, error_i)
            /\ \E ops \in Choices(s) : Clock(s, ops, stall_i, ack_i, error_i)

Spec == Init /\ [][Next]_vars

(* The clock runs, and the slave accepts and answers a request in the end. *)
SlaveAnswers == \E s \in Built, ack_i, error_i \in BOOLEAN :
    /\ ack_i \/ error_i
    /\ SlaveMay(s, FALSE, ack_i, error_i)
    /\ \E ops \in Choices(s) : Clock(s, ops, FALSE, ack_i, error_i)

FairSpec == Spec /\ WF_vars(Next) /\ WF_vars(SlaveAnswers)

-----------------------------------------------------------------------------
(* Properties. *)

\* Operations retire once each, in order, a load with its own register, data
\* and width: rtl/loadstore.py picks register, kind, validity and width from
\* fixed slots of a pipe that shifts on some clocks, so this holds only if the
\* slots move in step with the requests and the answers.  In a unit with
\* several slots it holds for the operations that Joins and SlaveMay admit:
\* the three cases they leave out are restrictions of the design (README).
Port == INSTANCE LoadStorePort
PortSpec == Port!Spec

\* No operation stays in the unit for ever: with one in it, one retires, in
\* every setting.
Completes == \A b \in BOOLEAN :
    (queue # <<>> /\ retired.toggle = b) ~> retired.toggle # b

=============================================================================
