----------------------------- MODULE MCUartLoop -----------------------------
EXTENDS UartLoop

\* Bytes that change with every bit, and one that never does.
SomeBytes == {b \in Byte : \A i \in 1 .. Bits - 1 : b[i] # b[i - 1]} \cup
             {[i \in 0 .. Bits - 1 |-> FALSE]}
=============================================================================
