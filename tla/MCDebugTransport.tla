-------------------------- MODULE MCDebugTransport --------------------------
EXTENDS DebugTransport

\* The host writes or reads.
HostScans == {[op |-> WRITE, adr |-> 0, data |-> 1], [op |-> READ, adr |-> 0, data |-> 0]}
=============================================================================
