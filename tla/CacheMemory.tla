---------------------------- MODULE CacheMemory ----------------------------
(***************************************************************************)
(* What a cache promises to the bus master in front of it (the DbusBundle  *)
(* of rtl/bonfire_interfaces.py): it is a memory.  A request is performed  *)
(* at once or waits; requests are performed one at a time and in order, on *)
(* one store, and an answer is what the request performed in the last      *)
(* clock found there.                                                      *)
(***************************************************************************)
CONSTANTS
    Adr,            \* addresses
    Word,           \* contents
    Requests,       \* what the master may ask: [adr, we, data]
    Content         \* the contents at power up, a function on Adr

VARIABLES
    store,          \* the memory as the master sees it
    waiting,        \* {} or the accepted request that is not performed yet
    answer          \* {} or the answer given to the master in this clock

vars == <<store, waiting, answer>>

Found(r) == [request |-> r, data |-> IF r.we THEN {} ELSE {store[r.adr]}]

Perform(r) ==
    /\ answer' = {Found(r)}
    /\ store' = IF r.we THEN [store EXCEPT ![r.adr] = r.data] ELSE store

\* A request is accepted while none waits.
Immediate == /\ waiting = {} /\ answer' # {} /\ UNCHANGED waiting
             /\ \E r \in Requests : Perform(r)
Accept == /\ waiting = {} /\ waiting' # {} /\ answer' = {} /\ UNCHANGED store
          /\ \E r \in Requests : waiting' = {r}
Late == waiting' = {} /\ \E r \in waiting : Perform(r)
Pause == answer' = {} /\ UNCHANGED <<waiting, store>>

Init == store = Content /\ waiting = {} /\ answer = {}
Next == Immediate \/ Accept \/ Late \/ Pause
Spec == Init /\ [][Next]_vars

=============================================================================
