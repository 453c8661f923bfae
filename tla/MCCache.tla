------------------------------ MODULE MCCache ------------------------------
EXTENDS Cache

At(tag, line, word, slice) == [tag |-> tag, line |-> line, word |-> word, slice |-> slice]

\* Every word of the memory is read; stores go to the first and to the last
\* word of one line, under two tags.
Stored == {At(0, 0, 0, 0), At(1, 0, LineSize - 1, 1)}
EveryRequest ==
    [adr : {a \in Adr : a.slice = 0} \cup Stored, we : {FALSE}, data : {0}] \cup
    [adr : Stored, we : {TRUE}, data : {0, 1}]

\* Between requests the bus shows either line.
EitherLine == [adr : {At(0, 0, 0, 0), At(0, 1, 0, 0)}, we : {FALSE}, data : {0}]

\* Each word that is never stored to holds its own address.
Pattern ==
    [a \in Adr |-> IF a \in Stored THEN 0
                  ELSE 2 + a.tag + 2 * a.line + 4 * a.word + 4 * LineSize * a.slice]
EveryWord == 0 .. 1 + 8 * LineSize
=============================================================================
