--------------------------- MODULE LoadStorePort ---------------------------
(***************************************************************************)
(* What the load/store unit promises to the execute stage: every operation *)
(* it takes is retired exactly once and in order, valid unless it is       *)
(* faulty, and a load delivers its own data, read with its own width, to   *)
(* its own register.                                                       *)
(***************************************************************************)
EXTENDS Sequences

CONSTANTS Rd      \* names of operations

Operations == [rd : Rd, store : BOOLEAN, width : {"byte", "word"},
               misalign : BOOLEAN, invalid_op : BOOLEAN]

VARIABLES
    queue,      \* operations taken and not retired, oldest first
    retired     \* what the unit showed when the last one retired

\* A load writes its register, unless it is not a valid operation.
Writes(op) == ~op.store /\ ~op.invalid_op
Outcome(op) ==
    [valid |-> ~op.invalid_op,
     written |-> IF Writes(op)
                 THEN {[rd |-> op.rd, data |-> [word |-> op.rd, width |-> op.width]]}
                 ELSE {}]

Init == queue = <<>> /\ retired = [outcome |-> {}, toggle |-> FALSE]

Take(q, op) == queue' = Append(q, op)

Retire ==
    /\ queue # <<>>
    /\ retired' = [outcome |-> {Outcome(Head(queue))}, toggle |-> ~retired.toggle]

\* Retiring the oldest and taking a new operation may coincide.
Next ==
    \/ Retire /\ queue' = Tail(queue)
    \/ \E op \in Operations :
          \/ Take(queue, op) /\ UNCHANGED retired
          \/ Retire /\ Take(Tail(queue), op)

Spec == Init /\ [][Next]_<<queue, retired>>

=============================================================================
