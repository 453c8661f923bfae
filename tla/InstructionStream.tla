------------------------- MODULE InstructionStream -------------------------
(***************************************************************************)
(* What the front end of the core promises to the execution units: the     *)
(* instructions of the program arrive one after the other, each exactly    *)
(* once, each with the word stored at its own address, and the instruction *)
(* after a jump is the one at the jump's destination.                      *)
(***************************************************************************)
EXTENDS Naturals

CONSTANTS Addresses, Start

VARIABLES
    pc,         \* address of the next instruction in program order
    issued      \* the last instruction executed

\* `toggle` tells two executions of one instruction from a stuttering step.
Issued == [ip : Addresses, word : Addresses, next : Addresses, toggle : BOOLEAN]

Init ==
    /\ pc = Start
    /\ issued \in Issued

\* The instruction at pc executes and decides where the program goes on.
Issue(next) ==
    /\ issued' = [ip |-> pc, word |-> pc, next |-> next, toggle |-> ~issued.toggle]
    /\ pc' = next

Next == \E next \in Addresses : Issue(next)

Spec == Init /\ [][Next]_<<pc, issued>>

=============================================================================
