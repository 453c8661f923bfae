---------------------------- MODULE MCDebugModule ----------------------------
(* A debugger that makes any sequence of calls, for TLC. *)
EXTENDS DebugModule

Plain(ops) == [op : ops]
With(op, values) == [op : {op}, value : values]

EveryCall ==
    Plain({"readCSR", "readMemory", "halt", "request_resume", "ResetCore"})
    \cup With("writeGPR", {1}) \cup With("writeCSR", {1})
    \cup With("writeDcsr", {1}) \cup With("writeMemory", {1})

=============================================================================
