----------------------------- MODULE DmiChannel -----------------------------
(***************************************************************************)
(* What a debug transport promises: a channel with one slot through which  *)
(* requests reach the registers of the debug module.  A request is carried *)
(* out once, before its slot becomes free; dtmhardreset gives it up.  Only *)
(* a reset of the scan side alone lets go of a request that may still take *)
(* effect later, once, until the core side has settled.                    *)
(***************************************************************************)
CONSTANTS Requests,     \* what a scan can send
          Write(_, _),  \* Write(r, regs): the registers after the access r
          InitRegs, Nothing

VARIABLES slot,         \* "free", "open": to be carried out, "done"
          request,      \* the request in the slot
          late,         \* Nothing or the request the scan side has let go of
          unsettled,    \* the scan side was reset a short while ago
          regs

channel == <<slot, request, late, unsettled, regs>>

Init == /\ slot = "free" /\ request \in Requests /\ late = Nothing
        /\ unsettled = FALSE /\ regs = InitRegs

Send(r) ==
    /\ slot = "free" /\ ~unsettled /\ slot' = "open" /\ request' = r
    /\ UNCHANGED <<late, unsettled, regs>>

Perform ==
    /\ slot = "open" /\ slot' = "done" /\ regs' = Write(request, regs)
    /\ UNCHANGED <<request, late, unsettled>>

\* dtmhardreset
Abort ==
    /\ slot = "open" /\ slot' = "done"
    /\ UNCHANGED <<request, late, unsettled, regs>>

Free ==
    /\ slot = "done" /\ slot' = "free"
    /\ UNCHANGED <<request, late, unsettled, regs>>

\* The scan side is reset, and the core side follows: the request may be
\* carried out in this very step, later or not at all, and the toggles that
\* return to zero may pass for a request without effect.
LetGo ==
    /\ unsettled' = TRUE
    /\ slot' \in {"free", "open", "done"} /\ request' \in Requests
    /\ slot' = "open" => \/ slot = "open" /\ request' = request
                         \/ Write(request', regs) = regs
    /\ \/ late' \in {late, Nothing} /\ UNCHANGED regs
       \/ slot = "open" /\ late' = request /\ UNCHANGED regs
       \/ slot = "open" /\ late' = Nothing /\ regs' = Write(request, regs)
       \/ late # Nothing /\ late' = Nothing /\ regs' = Write(late, regs)

Settle ==
    /\ unsettled /\ unsettled' = FALSE /\ late = Nothing /\ slot # "open"
    /\ slot' \in {slot, "free"} /\ UNCHANGED <<request, late, regs>>

\* The whole transport is reset; what is being carried out is not taken back.
Reset == /\ slot' = "free" /\ request' \in Requests /\ late' = Nothing
         /\ unsettled' = FALSE
         /\ \/ UNCHANGED regs
            \/ slot = "open" /\ regs' = Write(request, regs)
            \/ late # Nothing /\ regs' = Write(late, regs)

Next == \/ \E r \in Requests : Send(r)
        \/ Perform \/ Abort \/ Free \/ LetGo \/ Settle \/ Reset

Spec == Init /\ [][Next]_channel

=============================================================================
