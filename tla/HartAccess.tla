----------------------------- MODULE HartAccess -----------------------------
(***************************************************************************)
(* What the debug API promises its caller: a call takes effect as a whole. *)
(* A running hart is halted by a call, or halts by itself; the program     *)
(* then goes on at dpc.  Registers and memory of a halted hart change by   *)
(* calls only.  A memory access leaves its operands in x8 and x9.          *)
(***************************************************************************)
CONSTANTS Calls, NoCall, Nothing, ResetPc

VARIABLES call, result,
          halted,           \* the hart is in Debug Mode
          x8, x9, mem, dpc, dcsr

access == <<call, result, halted, x8, x9, mem, dpc, dcsr>>
contents == <<x8, x9, mem, dpc, dcsr>>

Begin(c) == /\ call = NoCall /\ call' = c /\ result' = Nothing
            /\ UNCHANGED <<halted, contents>>

Return(op) == call # NoCall /\ call.op = op /\ call' = NoCall

ReadGPR == Return("readGPR") /\ result' = x8 /\ UNCHANGED <<halted, contents>>
WriteGPR == /\ Return("writeGPR") /\ x8' = call.value
            /\ UNCHANGED <<result, halted, x9, mem, dpc, dcsr>>
ReadCSR == Return("readCSR") /\ result' = dpc /\ UNCHANGED <<halted, contents>>
WriteCSR == /\ Return("writeCSR") /\ dpc' = call.value
            /\ UNCHANGED <<result, halted, x8, x9, mem, dcsr>>
WriteDcsr == /\ Return("writeDcsr") /\ dcsr' = call.value
             /\ UNCHANGED <<result, halted, x8, x9, mem, dpc>>
ReadMemory == /\ Return("readMemory") /\ result' = mem /\ x8' = mem
              /\ UNCHANGED <<halted, x9, mem, dpc, dcsr>>
WriteMemory == /\ Return("writeMemory") /\ mem' = call.value
               /\ x9' = call.value /\ x8' = 0
               /\ UNCHANGED <<result, halted, dpc, dcsr>>

\* halt returns when the hart is halted, request_resume when it has resumed.
Halt == Return("halt") /\ halted /\ UNCHANGED <<result, halted, contents>>
Resume == /\ call # NoCall /\ call.op = "request_resume" /\ halted /\ halted' = FALSE
          /\ UNCHANGED <<call, result, contents>>
Resumed == Return("request_resume") /\ UNCHANGED <<result, halted, contents>>

\* The hart enters Debug Mode: by request, by EBREAK, after a step.
Enter == /\ ~halted /\ halted' = TRUE
         /\ dpc' \in {0, 1} /\ UNCHANGED <<call, result, x8, x9, mem, dcsr>>

\* The core is reset: the debug CSRs are, and the hart stays in its mode or halts.
Reset == /\ call # NoCall /\ call.op = "ResetCore"
         /\ dpc' = ResetPc /\ dcsr' = 0
         /\ halted' \in {halted, TRUE} /\ UNCHANGED <<call, result, x8, x9, mem>>
ResetDone == Return("ResetCore") /\ UNCHANGED <<result, halted, contents>>

Init == /\ call = NoCall /\ result = Nothing /\ ~halted
        /\ x8 \in {0, 1} /\ x9 \in {0, 1} /\ mem \in {0, 1} /\ dpc = ResetPc /\ dcsr = 0

Next == \/ \E c \in Calls : Begin(c)
        \/ ReadGPR \/ WriteGPR \/ ReadCSR \/ WriteCSR \/ WriteDcsr
        \/ ReadMemory \/ WriteMemory
        \/ Halt \/ Resume \/ Resumed \/ Enter \/ Reset \/ ResetDone

Spec == Init /\ [][Next]_access

=============================================================================
