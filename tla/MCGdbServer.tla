----------------------------- MODULE MCGdbServer -----------------------------
(* A loop of three words, for TLC. *)
EXTENDS GdbServer

\* The word "next" goes on behind it, "loop" at the start.
Follow(word, a) == IF word = "next" /\ a + 1 < N THEN a + 1 ELSE 0
Loop == [a \in 0 .. N - 1 |-> IF a = N - 1 THEN "loop" ELSE "next"]

Plain(cmds) == [cmd : cmds]
At(cmds, addrs) == [cmd : cmds, addr : addrs]
Commands ==
    Plain({"g", "other", "halt", "resume", "reset"})
    \cup At({"P"}, {0, 1}) \cup At({"Z", "z"}, 0 .. N)
    \cup At({"s", "c"}, {1, NoAddr})
    \cup [cmd : {"M"}, addr : 0 .. N, word : Words]

=============================================================================
