------------------------------ MODULE DebugApi ------------------------------
(***************************************************************************)
(* The debug API of tb/debug/debug_api.py: every call as the sequence of   *)
(* its accesses to the debug module interface.  A step of a call writes a  *)
(* register, or reads one and goes on by what it finds.                    *)
(***************************************************************************)
EXTENDS Sequences

CONSTANTS Control(_, _, _), Command(_, _, _, _)     \* the writes of DmiRegisters

Put(access) == [kind |-> "write", access |-> access]
Test(what) == [kind |-> what]

\* dmcontrol with ndmreset, dmactive set
Ndmreset == [Control(TRUE, FALSE, FALSE) EXCEPT !.ndmreset = TRUE]

PutData(value) == Put([op |-> "write", adr |-> "data", value |-> value])
writeProgbuf0(word) == <<Put([op |-> "write", adr |-> "progbuf0", value |-> word]),
                         Put([op |-> "write", adr |-> "progbuf1", value |-> "ebreak"])>>

\* The command, abstractcs until it is not busy, then data0, for the caller or
\* to be saved.
readReg(transfer, postexec, regno, to) ==
    <<Put(Command(transfer, FALSE, postexec, regno)), Test("busy"), Test(to)>>
\* mutant: the end of the command is not waited for
writeRegUnpolled(data, postexec, regno) == <<data, Put(Command(TRUE, TRUE, postexec, regno))>>
writeReg(data, postexec, regno) ==
    <<data, Put(Command(TRUE, TRUE, postexec, regno)), Test("busy")>>

readGPR(regno) == readReg(TRUE, FALSE, regno, "result")
writeGPR(regno, value) == writeReg(PutData(value), FALSE, regno)
saveScratch == readReg(TRUE, FALSE, 8, "save")
\* mutant: the value that was read is left in the scratch register
restoreScratchNot == <<>>
restoreScratch == writeReg(Test("restore"), FALSE, 8)

readCSR(csrr) ==
    saveScratch \o writeProgbuf0(csrr) \o readReg(FALSE, TRUE, 8, "result")
    \o readGPR(8) \o restoreScratch
writeCSR(csrw, value) ==
    saveScratch \o writeGPR(8, value) \o writeProgbuf0(csrw)
    \o readReg(FALSE, TRUE, 8, "result") \o restoreScratch

readMemory ==
    writeProgbuf0("load") \o writeReg(PutData(0), TRUE, 8) \o readGPR(8)
writeMemory(value) ==
    writeProgbuf0("store") \o writeGPR(8, 0) \o writeReg(PutData(value), TRUE, 9)

halt == <<Put(Control(TRUE, FALSE, FALSE)), Test("done if halted"),
          Put(Control(TRUE, TRUE, FALSE)), Test("until halted")>>
request_resume == <<Test("done if running"), Put(Control(TRUE, FALSE, TRUE)),
                    Test("until resumed")>>
ResetCore == <<Put(Ndmreset), Put(Control(TRUE, FALSE, FALSE))>>

Steps(call) ==
    CASE call.op = "readGPR" -> readGPR(8)
      [] call.op = "writeGPR" -> writeGPR(8, call.value)
      [] call.op = "readCSR" -> readCSR("csrr dpc")
      [] call.op = "writeCSR" -> writeCSR("csrw dpc", call.value)
      [] call.op = "writeDcsr" -> writeCSR("csrw dcsr", call.value)
      [] call.op = "readMemory" -> readMemory
      [] call.op = "writeMemory" -> writeMemory(call.value)
      [] call.op = "halt" -> halt
      [] call.op = "request_resume" -> request_resume
      [] call.op = "ResetCore" -> ResetCore

=============================================================================
