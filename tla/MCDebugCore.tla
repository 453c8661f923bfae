---------------------------- MODULE MCDebugCore ----------------------------
(* Small debugged cores for TLC. *)
EXTENDS DebugCore, TLC

BothLengths ==
    {[jump_bypass |-> TRUE, four_stage |-> FALSE],
     [jump_bypass |-> FALSE, four_stage |-> TRUE]}

Halt == Control(TRUE, TRUE, FALSE)
Resume_ == Control(TRUE, FALSE, TRUE)
Clear == [op |-> "abstractcs", clear |-> 0 .. 2]
WriteRegisterThenExecute == Command(TRUE, TRUE, TRUE, 0)

Buffer(first, second) == (0 :> first) @@ (1 :> second)
SomePrograms == {Buffer("insn", "dpc"), Buffer("dcsr", "ebreak")}

RunControl == {Release, Halt, Resume_, Clear, WriteRegisterThenExecute}

=============================================================================
