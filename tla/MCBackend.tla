----------------------------- MODULE MCBackend -----------------------------
(* The pipelines rtl/config.py can build, for TLC. *)
EXTENDS Backend

AllConfigs ==
    {[pipeline_length |-> 3, writeback_bypass |-> FALSE, jump_bypass |-> TRUE],
     [pipeline_length |-> 3, writeback_bypass |-> FALSE, jump_bypass |-> FALSE],
     [pipeline_length |-> 4, writeback_bypass |-> FALSE, jump_bypass |-> FALSE],
     [pipeline_length |-> 4, writeback_bypass |-> TRUE, jump_bypass |-> TRUE]}

Word(cmd, rd, rs1, rs2, val) == [cmd |-> cmd, rd |-> rd, rs1 |-> rs1, rs2 |-> rs2, val |-> val]

\* Every unit, with x0, x1 and x2 as destination and as either source.
SmallProgram ==
    {Word("alui", rd, 1, 0, 1) : rd \in 0 .. 1} \cup
    {Word("alu", 1, 2, 1, 0), Word("alu", 2, 0, 1, 0)} \cup
    {Word("lui", 2, 0, 0, 1)} \cup
    {Word("shift", rd, 1, 2, 0) : rd \in 0 .. 1} \cup
    {Word("load", rd, 1, 0, 1) : rd \in {0, 2}} \cup
    {Word("store", 1, 1, 2, 0), Word("branch", 2, 1, 2, 0)} \cup
    {Word("jal", 1, 0, 0, 1), Word("jalr", 1, 1, 0, 0), Word("csr", 1, 1, 0, 0)}

=============================================================================
