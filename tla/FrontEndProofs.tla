--------------------------- MODULE FrontEndProofs ---------------------------
(***************************************************************************)
(* The control path delivers the instruction stream for every number of    *)
(* addresses, every bus latency and every program, proved from PathInv.    *)
(***************************************************************************)
EXTENDS FrontEnd, TLAPS

(* Supported configurations: with a registered jump the bus has to answer  *)
(* in the next clock (section 7 of README.md shows why).                   *)
Supported == JumpBypass \/ FastBus

\* The successor of an address is an address, whatever N is.
LEMMA SuccIsAddr == ASSUME NEW a \in Addr PROVE Succ(a) \in Addr
  BY AddressAssumption DEF Succ, Addr

\* NoRequest is not an address.
LEMMA NoRequestIsNoAddr == NoRequest \notin Addr
  BY AddressAssumption DEF NoRequest, Addr

\* Registers are reset to addresses.
LEMMA ZeroIsAddr == 0 \in Addr /\ ResetAddress \in Addr
  BY AddressAssumption DEF Addr

\* The stage and the pipeline start with well-typed, empty registers.
LEMMA InitType == Init => TypeOK
<1> SUFFICES ASSUME Init PROVE TypeOK
  OBVIOUS
<1>1. FetchTypeOK
  BY ZeroIsAddr DEF Init, FetchInit, FetchTypeOK
<1>2. issued \in [ip : Addr, word : Addr, next : Addr, toggle : BOOLEAN]
  BY ZeroIsAddr DEF Init
<1> QED BY <1>1, <1>2, ZeroIsAddr DEF Init, TypeOK

\* After reset every place is empty.
LEMMA InitPath == Init => PathInv
  BY NoRequestIsNoAddr, ZeroIsAddr
  DEF Init, FetchInit, PathInv, InReset, Bookkeeping, WordsMatch, Consecutive,
      NoAckWhileBusy, RedirectDue, NextRequested, NextParked, NextFetched

-----------------------------------------------------------------------------

\* A clock edge keeps every register in its range.
LEMMA StepType == TypeOK /\ [Next]_vars => TypeOK'
<1> SUFFICES ASSUME TypeOK, [Next]_vars PROVE TypeOK'
  OBVIOUS
<1>1. CASE UNCHANGED vars
  BY <1>1 DEF vars, fetchVars, coreVars, TypeOK, FetchTypeOK
<1>2. CASE Next
  <2>1. PICK ack \in BOOLEAN, jump \in BOOLEAN, multicycle \in BOOLEAN, dest \in Addr :
          Decides(jump, dest) /\ Clock(ack, jump, dest, multicycle)
    BY <1>2 DEF Next
  <2> DEFINE j == jump_o(jump)
             d == jump_dest_o(dest)
             en == en_o(stall_i, j)
             bs == bus_stall_i(en, ack)
  <2>2. /\ stall_i \in BOOLEAN /\ j \in BOOLEAN /\ d \in Addr
        /\ bs \in BOOLEAN /\ en \in BOOLEAN
    BY DEF stall_i, jump_o, jump_dest_o, bus_stall_i, en_o, new_jump, exec_busy,
           taken, TypeOK, FetchTypeOK
  <2>3. ack => pend \in Addr
    BY <2>1 DEF Clock, MayAnswer, TypeOK
  <2>4. FetchClock(stall_i, j, d, bs, ack, pend)
    BY <2>1 DEF Clock
  <2>5. FetchTypeOK'
    <3> USE <2>2, <2>3
    <3> HIDE DEF j, d, en, bs
    <3>1. outstanding' \in BOOLEAN
      BY <2>1 DEF Clock, FetchClock, TrackOutstanding, TypeOK, FetchTypeOK, en_o, new_jump
    <3>2. CASE LeaveReset
      BY <3>1, <3>2 DEF LeaveReset, TypeOK, FetchTypeOK
    <3>3. CASE Redirect(j, d, ack)
      BY <3>1, <3>3 DEF Redirect, TypeOK, FetchTypeOK
    <3>4. CASE AdvanceIp(stall_i, j, bs, ack) /\ Park(stall_i, ack, pend)
      <4>1. ip' \in Addr /\ jump_taken' \in BOOLEAN /\ run' \in BOOLEAN
        BY <3>4, SuccIsAddr DEF AdvanceIp, TypeOK, FetchTypeOK
      <4>2. busy' \in BOOLEAN /\ valid' \in BOOLEAN /\ current_word' \in [0 .. 1 -> Addr]
        BY <3>4 DEF Park, TypeOK, FetchTypeOK
      <4>3. current_ip' \in [0 .. 2 -> Addr]
        BY <3>4 DEF Park, TypeOK, FetchTypeOK
      <4> QED BY <3>1, <4>1, <4>2, <4>3 DEF FetchTypeOK
    <3>5. CASE AdvanceIp(stall_i, j, bs, ack) /\ ~Park(stall_i, ack, pend)
      <4>1. ip' \in Addr /\ jump_taken' \in BOOLEAN /\ run' \in BOOLEAN
        BY <3>5, SuccIsAddr DEF AdvanceIp, TypeOK, FetchTypeOK
      <4>2. \/ Unpark(stall_i) \/ Receive(stall_i, j, bs, ack, pend) \/ Bubble(stall_i, j, bs, ack)
        BY <2>4, <3>5 DEF FetchClock, LeaveReset, AdvanceIp, Redirect
      <4>3. busy' \in BOOLEAN /\ valid' \in BOOLEAN
        BY <4>2 DEF Unpark, Receive, Bubble, TypeOK, FetchTypeOK
      <4>5. current_word' \in [0 .. 1 -> Addr]
        <5>1. CASE Unpark(stall_i)
          BY <5>1 DEF Unpark, TypeOK, FetchTypeOK
        <5>2. CASE Receive(stall_i, j, bs, ack, pend)
          BY <5>2 DEF Receive, TypeOK, FetchTypeOK
        <5>3. CASE Bubble(stall_i, j, bs, ack)
          BY <5>3 DEF Bubble, TypeOK, FetchTypeOK
        <5> QED BY <4>2, <5>1, <5>2, <5>3
      <4>4. current_ip' \in [0 .. 2 -> Addr]
        BY <4>2 DEF Unpark, Receive, Bubble, RequestIp, TypeOK, FetchTypeOK
      <4> QED BY <3>1, <4>1, <4>3, <4>4, <4>5 DEF FetchTypeOK
    <3> QED BY <2>4, <3>2, <3>3, <3>4, <3>5 DEF FetchClock
  <2>6. pend' \in Addr \cup {NoRequest}
    BY <2>1 DEF Clock, BusClock, TypeOK, FetchTypeOK
  <2>7. valid_o' \in BOOLEAN /\ debug_current_ip_o' \in Addr /\ debug_word_o' \in Addr
    <3>1. current_ip[0] \in Addr /\ current_word[0] \in Addr
      BY DEF TypeOK, FetchTypeOK
    <3>2. DecodeClock(jump)
      BY <2>1 DEF Clock
    <3> QED BY <3>1, <3>2 DEF DecodeClock, TypeOK
  <2>8. /\ jump_r' \in BOOLEAN /\ jump_busy' \in BOOLEAN /\ unit_busy' \in BOOLEAN
        /\ jump_dest_r' \in Addr
    BY <2>1, ZeroIsAddr, ConfigAssumption DEF Clock, Execute, Wait, TypeOK
  <2>9. issued' \in [ip : Addr, word : Addr, next : Addr, toggle : BOOLEAN]
    <3>1. CASE Execute(jump, dest, multicycle)
      <4>1. (IF jump THEN dest ELSE Succ(debug_current_ip_o)) \in Addr
        BY SuccIsAddr DEF TypeOK
      <4>2. issued'.toggle \in BOOLEAN
        BY <3>1 DEF Execute
      <4> QED BY <3>1, <4>1, <4>2 DEF Execute, TypeOK
    <3>2. CASE Wait(multicycle)
      BY <3>2 DEF Wait, TypeOK
    <3> QED BY <2>1, <3>1, <3>2 DEF Clock
  <2> QED BY <2>5, <2>6, <2>7, <2>8, <2>9 DEF TypeOK
<1> QED BY <1>1, <1>2

\* The registers, pend, and everything derived from them are well typed.
THEOREM TypeCorrect == Spec => []TypeOK
<1>1. Init => TypeOK
  BY InitType
<1>2. TypeOK /\ [Next]_vars => TypeOK'
  BY StepType
<1> QED BY <1>1, <1>2, PTL DEF Spec

-----------------------------------------------------------------------------

\* A clock edge keeps the places of the front end consecutive: the step of the
\* fetch stage is split into its cases, and each moves the entries by at most
\* one place (rtl/fetch.py:79-127).
LEMMA StepPath == Supported /\ TypeOK /\ PathInv /\ [Next]_vars => PathInv'
<1> SUFFICES ASSUME Supported, TypeOK, PathInv, [Next]_vars PROVE PathInv'
  OBVIOUS
<1> USE ConfigAssumption
<1>1. CASE UNCHANGED vars
  BY <1>1 DEF vars, fetchVars, coreVars, PathInv, InReset, Bookkeeping, WordsMatch,
     Consecutive, NoAckWhileBusy, RedirectDue, NextRequested, NextParked, NextFetched
<1>2. CASE Next
  <2>1. PICK ack \in BOOLEAN, jump \in BOOLEAN, multicycle \in BOOLEAN, dest \in Addr :
          Decides(jump, dest) /\ Clock(ack, jump, dest, multicycle)
    BY <1>2 DEF Next
  <2> DEFINE j == jump_o(jump)
             d == jump_dest_o(dest)
             en == en_o(stall_i, j)
             bs == bus_stall_i(en, ack)
  <2>2. /\ FetchClock(stall_i, j, d, bs, ack, pend)
        /\ MayAnswer(ack) /\ BusClock(en, ack) /\ DecodeClock(jump)
        /\ Execute(jump, dest, multicycle) \/ Wait(multicycle)
    BY <2>1 DEF Clock
  <2>3. InReset'
    <3>1. CASE run'
      BY <3>1 DEF InReset
    <3>2. CASE ~run'
      <4>1. FALSE
        BY <2>2, <3>2 DEF FetchClock, LeaveReset, Redirect, AdvanceIp, TypeOK, FetchTypeOK
      <4> QED BY <4>1
    <3> QED BY <3>1, <3>2
  <2>4. Bookkeeping'
    <3>1. (outstanding <=> pend # NoRequest)'
      BY <2>1, <2>2, NoRequestIsNoAddr
      DEF FetchClock, TrackOutstanding, BusClock, bus_stall_i, MayAnswer, en_o,
          PathInv, Bookkeeping, TypeOK, FetchTypeOK
    <3>2. NoAckWhileBusy'
      BY <2>2, NoRequestIsNoAddr
      DEF FetchClock, LeaveReset, Redirect, AdvanceIp, Park, Unpark, Receive, Bubble,
          BusClock, bus_stall_i, MayAnswer, en_o, NoAckWhileBusy, CanRedirect,
          PathInv, Bookkeeping, InReset, TypeOK, FetchTypeOK
    <3>3. (jump_r => ~unit_busy)'
      BY <2>2 DEF Execute, Wait, PathInv, Bookkeeping, TypeOK
    <3>4. (jump_busy => jump_r /\ ~JumpBypass)'
      <4>1. CASE Execute(jump, dest, multicycle)
        BY <4>1 DEF Execute
      <4>2. CASE Wait(multicycle)
        BY <4>2 DEF Wait
      <4> QED BY <2>2, <4>1, <4>2
    <3>5. (jump_taken => jump_r /\ ~valid_o /\ ~jump_busy)'
      <4>1. CASE LeaveReset
        BY <4>1 DEF LeaveReset, PathInv, InReset
      <4>2. CASE Redirect(j, d, ack)
        <5>1. j /\ ~jump_taken
          BY <4>2 DEF Redirect, CanRedirect, new_jump
        <5>2. CASE taken
          <6>1. jump /\ JumpBypass /\ Execute(jump, dest, multicycle)
            BY <5>1, <5>2, <2>2 DEF Wait, jump_o
          <6>2. jump_r' /\ ~jump_busy'
            BY <6>1 DEF Execute
          <6>3. ~valid_o'
            BY <5>2, <6>1, <2>2 DEF DecodeClock, kill_i
          <6> QED BY <6>2, <6>3
        <5>3. CASE ~taken
          <6>1. jump_r /\ Wait(multicycle)
            BY <5>1, <5>3, <2>2 DEF Execute, jump_o
          <6>2. jump_r' /\ ~jump_busy'
            BY <6>1 DEF Wait
          <6>3. ~valid_o'
            BY <5>1, <5>3, <6>1, <2>2 DEF DecodeClock, kill_i, taken, exec_busy, stall_i, PathInv,
               Bookkeeping, RedirectDue, TypeOK
          <6> QED BY <6>2, <6>3
        <5> QED BY <5>2, <5>3
      <4>3. CASE AdvanceIp(stall_i, j, bs, ack)
        BY <4>3, <2>2 DEF AdvanceIp, Execute, Wait, DecodeClock, kill_i, taken, exec_busy,
           stall_i, PathInv, Bookkeeping, TypeOK, FetchTypeOK
      <4> QED BY <2>2, <4>1, <4>2, <4>3 DEF FetchClock
    <3>6. (RedirectDue /\ ~jump_busy => ~valid /\ ~busy /\ outstanding /\ JumpBypass)'
      <4> SUFFICES ASSUME jump_r', ~jump_taken', ~valid_o', ~jump_busy'
                   PROVE  ~valid' /\ ~busy' /\ outstanding' /\ JumpBypass
        BY DEF RedirectDue
      <4>1. CASE LeaveReset
        BY <4>1, <2>2 DEF LeaveReset, PathInv, InReset, Execute, Wait, taken
      <4>2. CASE Redirect(j, d, ack)
        BY <4>2 DEF Redirect
      <4>3. CASE AdvanceIp(stall_i, j, bs, ack)
        <5>1. ASSUME j, ~jump_taken, ~stall_i, ~busy
              PROVE  outstanding /\ ~valid' /\ ~busy' /\ outstanding'
          <6>1. new_jump(j) /\ outstanding /\ ~ack
            BY <4>3, <5>1 DEF AdvanceIp, CanRedirect, new_jump
          <6>2. ~en
            BY <6>1 DEF en_o
          <6>3. Bubble(stall_i, j, bs, ack)
            BY <2>2, <4>3, <5>1, <6>1 DEF FetchClock, LeaveReset, Redirect, AdvanceIp,
               Park, Unpark, Receive
          <6>4. outstanding'
            BY <2>2, <6>1, <6>2 DEF FetchClock, TrackOutstanding
          <6> QED BY <5>1, <6>1, <6>3, <6>4 DEF Bubble
        <5>2. CASE taken
          <6>1. Execute(jump, dest, multicycle) /\ jump /\ JumpBypass
            BY <5>2, <2>2 DEF Execute, Wait
          <6>2. j /\ ~jump_taken /\ ~stall_i
            BY <5>2, <6>1 DEF jump_o, taken, stall_i, PathInv, Bookkeeping
          <6>3. ~busy
            <7>1. new_jump(j) /\ outstanding
              BY <4>3, <6>2 DEF AdvanceIp, CanRedirect, new_jump
            <7> QED BY <7>1 DEF PathInv, Bookkeeping, NoAckWhileBusy
          <6> QED BY <5>1, <6>1, <6>2, <6>3
        <5>3. CASE ~taken
          <6>1. jump_r /\ j
            BY <5>3, <2>2 DEF Execute, Wait, jump_o
          <6>2. ~jump_busy
            <7> SUFFICES ASSUME jump_busy PROVE FALSE
              OBVIOUS
            <7>1. FastBus /\ ~jump_taken
              BY DEF Supported, PathInv, Bookkeeping
            <7>2. outstanding => ack
              BY <7>1, <2>2 DEF MayAnswer, PathInv, Bookkeeping
            <7> QED BY <4>3, <6>1, <7>1, <7>2 DEF AdvanceIp, CanRedirect, new_jump
          <6>3. ~valid_o /\ ~stall_i /\ ~kill_i(jump)
            BY <5>3, <6>1, <6>2 DEF taken, exec_busy, stall_i, kill_i, PathInv, Bookkeeping
          <6>4. ~valid
            BY <6>3, <2>2 DEF DecodeClock
          <6>5. ~jump_taken
            BY <4>3, <6>3, <6>4 DEF AdvanceIp
          <6>6. ~busy /\ JumpBypass
            BY <6>1, <6>2, <6>3, <6>5 DEF RedirectDue, PathInv, Bookkeeping
          <6> QED BY <5>1, <6>1, <6>3, <6>5, <6>6
        <5> QED BY <5>2, <5>3
      <4> QED BY <2>2, <4>1, <4>2, <4>3 DEF FetchClock
    <3> QED BY <3>1, <3>2, <3>3, <3>4, <3>5, <3>6 DEF Bookkeeping
  \* A jump that is due is seen by the fetch stage ...
  <2>5. RedirectDue => new_jump(j) /\ ~taken
    BY DEF RedirectDue, new_jump, jump_o, taken, exec_busy, PathInv, Bookkeeping
  \* ... which acts on it unless the answer to an older request is missing.
  <2>6. RedirectDue /\ AdvanceIp(stall_i, j, bs, ack) => ~ack /\ ~jump_busy
    <3> SUFFICES ASSUME RedirectDue, AdvanceIp(stall_i, j, bs, ack) PROVE ~ack /\ ~jump_busy
      OBVIOUS
    <3>1. outstanding /\ ~ack
      BY <2>5 DEF AdvanceIp, CanRedirect
    <3> QED BY <3>1, <2>2 DEF Supported, MayAnswer, PathInv, Bookkeeping
  <2>7. AdvanceIp(stall_i, j, bs, ack) /\ ack => pend = current_ip[2]
    BY <2>2, <2>6 DEF MayAnswer, PathInv, Consecutive
  \* What each way to advance does to the entries, slot by slot.
  <2>10. Park(stall_i, ack, pend) =>
           /\ stall_i /\ (valid' <=> valid)
           /\ current_ip'[0] = current_ip[0] /\ current_word'[0] = current_word[0]
           /\ current_ip'[2] = current_ip[2]
           /\ ack => busy' /\ current_ip'[1] = current_ip[2] /\ current_word'[1] = pend
           /\ ~ack => (busy' <=> busy) /\ current_ip'[1] = current_ip[1]
                      /\ current_word'[1] = current_word[1]
    <3> HIDE DEF j, d, en, bs
    <3> QED BY DEF Park, TypeOK, FetchTypeOK
  <2>11. Unpark(stall_i) =>
           /\ current_ip'[0] = current_ip[1] /\ current_word'[0] = current_word[1]
           /\ ~stall_i /\ busy /\ valid' /\ ~busy'
    <3> HIDE DEF j, d, en, bs
    <3> QED BY DEF Unpark, TypeOK, FetchTypeOK
  <2>12. Receive(stall_i, j, bs, ack, pend) =>
           /\ current_ip'[0] = current_ip[2] /\ current_word'[0] = pend
           /\ ~stall_i /\ ~busy /\ valid' /\ ~busy' /\ ack
           /\ current_ip'[2] = (IF bs THEN current_ip[2] ELSE ip)
    <3> HIDE DEF j, d, en, bs
    <3> QED BY DEF Receive, RequestIp, TypeOK, FetchTypeOK
  <2>13. Bubble(stall_i, j, bs, ack) =>
           /\ ~stall_i /\ ~busy /\ ~valid' /\ ~busy'
           /\ current_ip'[2] = (IF bs THEN current_ip[2] ELSE ip)
    <3> HIDE DEF j, d, en, bs
    <3> QED BY DEF Bubble, RequestIp, TypeOK, FetchTypeOK
  <2>14. AdvanceIp(stall_i, j, bs, ack) =>
           \/ Park(stall_i, ack, pend) \/ Unpark(stall_i)
           \/ Receive(stall_i, j, bs, ack, pend) \/ Bubble(stall_i, j, bs, ack)
    <3> HIDE DEF j, d, en, bs
    <3> QED BY <2>2 DEF FetchClock, LeaveReset, Redirect, AdvanceIp
  <2>8. WordsMatch'
    <3> HIDE DEF j, d, en, bs
    <3>1. CASE LeaveReset \/ Redirect(j, d, ack)
      <4>1. ~valid' /\ ~busy'
        BY <3>1 DEF LeaveReset, Redirect, PathInv, InReset
      <4>2. (valid_o => debug_word_o = debug_current_ip_o)'
        BY <2>2 DEF DecodeClock, PathInv, WordsMatch
      <4> QED BY <4>1, <4>2 DEF WordsMatch
    <3>2. CASE AdvanceIp(stall_i, j, bs, ack)
      <4>1. (valid => current_word[0] = current_ip[0])' /\ (busy => current_word[1] = current_ip[1])'
        <5>1. CASE Park(stall_i, ack, pend)
          BY <2>7, <2>10, <3>2, <5>1 DEF PathInv, WordsMatch
        <5>2. CASE Unpark(stall_i)
          BY <2>11, <5>2 DEF PathInv, WordsMatch
        <5>3. CASE Receive(stall_i, j, bs, ack, pend)
          BY <2>7, <2>12, <3>2, <5>3 DEF PathInv, WordsMatch
        <5>4. CASE Bubble(stall_i, j, bs, ack)
          BY <2>13, <5>4
        <5> QED BY <2>14, <3>2, <5>1, <5>2, <5>3, <5>4
      <4>3. (valid_o => debug_word_o = debug_current_ip_o)'
        BY <2>2 DEF DecodeClock, PathInv, WordsMatch
      <4> QED BY <4>1, <4>3 DEF WordsMatch
    <3> QED BY <2>2, <3>1, <3>2 DEF FetchClock
  <2>9. Consecutive'
    <3> SUFFICES ASSUME ~RedirectDue'
                 PROVE  /\ (pend # NoRequest => pend = current_ip[2] /\ ip = Succ(pend))'
                        /\ (busy => NextRequested = Succ(current_ip[1]))'
                        /\ (valid => NextParked = Succ(current_ip[0]))'
                        /\ (valid_o => NextFetched = Succ(debug_current_ip_o))'
      BY DEF Consecutive
    <3>1. CASE LeaveReset
      <4>1. pend' = NoRequest /\ ~busy' /\ ~valid' /\ ~valid_o'
        BY <2>2, <3>1 DEF LeaveReset, BusClock, MayAnswer, DecodeClock, en_o, PathInv, InReset
      <4> QED BY <4>1
    <3>2. CASE Redirect(j, d, ack)
      <4>1. pend' = NoRequest
        BY <2>2, <3>2 DEF Redirect, CanRedirect, BusClock, en_o, PathInv, Bookkeeping
      <4>2. ~busy' /\ ~valid' /\ jump_taken'
        BY <3>2 DEF Redirect
      <4> QED BY <2>4, <4>1, <4>2 DEF Bookkeeping
    <3>3. CASE AdvanceIp(stall_i, j, bs, ack)
      <4>1. ~RedirectDue
        <5> SUFFICES ASSUME RedirectDue PROVE FALSE
          OBVIOUS
        <5>1. ~jump_busy /\ jump_r /\ ~jump_taken /\ ~valid_o /\ ~valid
          BY <2>6, <3>3 DEF RedirectDue, PathInv, Bookkeeping
        <5>2. jump_r' /\ ~valid_o'
          <6>1. Wait(multicycle)
            BY <2>2, <2>5 DEF Execute
          <6>2. jump_r'
            BY <5>1, <6>1 DEF Wait
          <6>3. ~stall_i
            BY <5>1 DEF stall_i
          <6>4. ~valid_o'
            BY <2>2, <5>1, <6>3 DEF DecodeClock
          <6> QED BY <6>2, <6>4
        <5>3. ~jump_taken'
          BY <3>3, <5>1 DEF AdvanceIp
        <5> QED BY <5>2, <5>3 DEF RedirectDue
      <4>2. ~(taken /\ jump)
        <5> SUFFICES ASSUME taken, jump PROVE FALSE
          OBVIOUS
        <5>1. jump_r' /\ (~JumpBypass => jump_busy')
          BY <2>2 DEF Execute, Wait
        <5>2. JumpBypass
          BY <5>1 DEF RedirectDue
        <5>3. ~valid_o' /\ valid_o
          BY <2>2, <5>2 DEF DecodeClock, kill_i, taken
        <5>4. ~jump_taken'
          BY <3>3, <5>3 DEF AdvanceIp, PathInv, Bookkeeping
        <5> QED BY <5>1, <5>3, <5>4 DEF RedirectDue
      <4>3. ~jump_busy /\ ~kill_i(jump)
        BY <4>1, <4>2 DEF RedirectDue, kill_i
      <4>4. ~new_jump(j)
        BY <4>1, <4>2, <4>3 DEF new_jump, jump_o, RedirectDue, taken, exec_busy,
           PathInv, Bookkeeping
      <4>5. /\ pend # NoRequest => pend = current_ip[2] /\ ip = Succ(pend)
            /\ busy => pend = NoRequest /\ ip = Succ(current_ip[1])
            /\ valid => NextParked = Succ(current_ip[0])
            /\ valid_o => NextFetched = Succ(debug_current_ip_o)
        BY <4>1 DEF PathInv, Consecutive, Bookkeeping, NoAckWhileBusy, NextRequested
      <4>6. /\ ~stall_i /\ valid => valid_o' /\ debug_current_ip_o' = current_ip[0]
            /\ ~stall_i /\ ~valid => ~valid_o'
            /\ stall_i => valid_o /\ valid_o' /\ debug_current_ip_o' = debug_current_ip_o
        BY <2>2, <4>3 DEF DecodeClock, stall_i
      <4>7. en <=> ~busy /\ ~stall_i
        BY <3>3, <4>4 DEF en_o, AdvanceIp
      <4>8. /\ ack => pend # NoRequest
            /\ bs <=> en /\ pend # NoRequest /\ ~ack
            /\ pend' = IF en /\ ~bs THEN ip ELSE IF ack THEN NoRequest ELSE pend
        BY <2>2 DEF MayAnswer, BusClock, bus_stall_i
      <4>9. ip' = IF bs \/ busy \/ stall_i THEN ip ELSE Succ(ip)
        BY <3>3 DEF AdvanceIp
      <4>10. ip # NoRequest
        BY NoRequestIsNoAddr DEF TypeOK, FetchTypeOK
      <4> HIDE DEF j, d, en, bs
      <4>11. CASE Park(stall_i, ack, pend)
        <5>1. /\ ip' = ip /\ ~en
              /\ pend' = IF ack THEN NoRequest ELSE pend
              /\ current_ip'[2] = current_ip[2]
          BY <2>10, <4>7, <4>8, <4>9, <4>11
        <5>2. (pend # NoRequest => pend = current_ip[2] /\ ip = Succ(pend))'
          BY <4>5, <5>1 DEF Succ
        <5>3. busy' => pend' = NoRequest /\ ip' = Succ(current_ip'[1])
          BY <2>10, <4>5, <4>8, <4>11, <5>1
        <5>4. NextParked' = NextParked
          <6>1. CASE ack
            BY <6>1, <2>10, <4>5, <4>8, <4>11, <5>1 DEF NextParked, NextRequested
          <6>2. CASE ~ack
            <7>1. (busy' <=> busy) /\ current_ip'[1] = current_ip[1] /\ pend' = pend
              BY <6>2, <2>10, <4>11, <5>1
            <7>2. CASE busy
              BY <7>1, <7>2 DEF NextParked
            <7>3. CASE ~busy
              BY <7>1, <7>3, <5>1 DEF NextParked, NextRequested
            <7> QED BY <7>2, <7>3
          <6> QED BY <6>1, <6>2
        <5>5. NextFetched' = NextFetched /\ (valid' <=> valid) /\ current_ip'[0] = current_ip[0]
          <6>1. (valid' <=> valid) /\ current_ip'[0] = current_ip[0]
            BY <2>10, <4>11
          <6>2. CASE valid
            BY <6>1, <6>2 DEF NextFetched
          <6>3. CASE ~valid
            BY <6>1, <6>3, <5>4 DEF NextFetched
          <6> QED BY <6>1, <6>2, <6>3
        <5>6. valid_o /\ debug_current_ip_o' = debug_current_ip_o
          BY <2>10, <4>6, <4>11
        <5>7. (busy => NextRequested = Succ(current_ip[1]))'
          BY <5>3 DEF NextRequested
        <5>8. (valid => NextParked = Succ(current_ip[0]))'
          BY <4>5, <5>4, <5>5
        <5>9. (valid_o => NextFetched = Succ(debug_current_ip_o))'
          BY <4>5, <5>5, <5>6
        <5> QED BY <5>2, <5>7, <5>8, <5>9
      <4>12. CASE Unpark(stall_i)
        <5>1. ip' = ip /\ pend' = NoRequest /\ ~busy' /\ valid' /\ busy /\ ~stall_i
              /\ current_ip'[0] = current_ip[1]
          BY <2>11, <4>5, <4>7, <4>8, <4>9, <4>12
        <5>2. NextParked' = ip
          BY <5>1 DEF NextParked, NextRequested
        <5>3. NextFetched' = current_ip[1]
          BY <5>1 DEF NextFetched
        <5>4. NextParked = current_ip[1]
          BY <5>1 DEF NextParked
        <5>5. (valid_o => NextFetched = Succ(debug_current_ip_o))'
          BY <4>5, <4>6, <5>1, <5>3, <5>4
        <5> QED BY <4>5, <5>1, <5>2, <5>5
      <4>13. CASE Receive(stall_i, j, bs, ack, pend)
        <5>1. /\ pend # NoRequest /\ pend = current_ip[2] /\ ip = Succ(pend) /\ ~bs
              /\ pend' = ip /\ ip' = Succ(ip) /\ current_ip'[2] = ip
              /\ ~busy' /\ valid' /\ ~busy /\ ~stall_i /\ current_ip'[0] = pend
          BY <2>12, <4>5, <4>7, <4>8, <4>9, <4>13
        <5>2. NextParked' = ip
          BY <5>1, <4>10 DEF NextParked, NextRequested
        <5>3. NextFetched' = pend
          BY <5>1 DEF NextFetched
        <5>4. NextParked = pend
          BY <5>1 DEF NextParked, NextRequested
        <5>5. (valid_o => NextFetched = Succ(debug_current_ip_o))'
          BY <4>5, <4>6, <5>1, <5>3, <5>4
        <5> QED BY <5>1, <5>2, <5>5
      <4>14. CASE Bubble(stall_i, j, bs, ack)
        <5>1. /\ ~stall_i /\ ~busy /\ ~valid' /\ ~busy' /\ ~ack /\ en
          BY <2>13, <4>4, <4>7, <4>14 DEF Bubble
        <5>2. CASE pend # NoRequest
          <6>1. /\ pend' = pend /\ ip' = ip /\ current_ip'[2] = current_ip[2]
            BY <2>13, <4>8, <4>9, <4>14, <5>1, <5>2
          <6>2. NextFetched' = pend /\ NextParked = pend
            BY <5>1, <5>2, <6>1 DEF NextFetched, NextParked, NextRequested
          <6>3. (valid_o => NextFetched = Succ(debug_current_ip_o))'
            BY <4>5, <4>6, <5>1, <6>2
          <6> QED BY <4>5, <5>1, <6>1, <6>3
        <5>3. CASE pend = NoRequest
          <6>1. /\ pend' = ip /\ ip' = Succ(ip) /\ current_ip'[2] = ip
            BY <2>13, <4>8, <4>9, <4>14, <5>1, <5>3
          <6>2. NextFetched' = ip /\ NextParked = ip
            BY <5>1, <5>3, <6>1, <4>10 DEF NextFetched, NextParked, NextRequested
          <6>3. (valid_o => NextFetched = Succ(debug_current_ip_o))'
            BY <4>5, <4>6, <5>1, <6>2
          <6> QED BY <5>1, <6>1, <6>3
        <5> QED BY <5>2, <5>3
      <4> QED BY <2>14, <3>3, <4>11, <4>12, <4>13, <4>14
    <3> QED BY <2>2, <3>1, <3>2, <3>3 DEF FetchClock
  <2> QED BY <2>3, <2>4, <2>8, <2>9 DEF PathInv
<1> QED BY <1>1, <1>2


\* Whatever the bus latency, the stalls and the program, the places of the
\* front end hold consecutive addresses with their own words (rtl/fetch.py).
THEOREM PathCorrect == Supported /\ Spec => []PathInv
<1>1. Init => PathInv
  BY InitPath
<1>2. Supported /\ TypeOK /\ PathInv /\ [Next]_vars => PathInv'
  BY StepPath
<1> SUFFICES ASSUME Supported PROVE Spec => []PathInv
  OBVIOUS
<1>3. TypeOK /\ PathInv /\ [Next]_vars => PathInv'
  BY <1>2
<1> QED BY <1>1, <1>3, TypeCorrect, PTL DEF Spec

-----------------------------------------------------------------------------

\* Before the first instruction the stream starts at the reset address.
LEMMA InitStream == Init => Stream!Init
  BY ZeroIsAddr, NoRequestIsNoAddr
  DEF Init, FetchInit, Stream!Init, Stream!Issued, pc, RedirectDue, NextFetched,
      NextParked, NextRequested

\* A clock edge executes the instruction at pc and goes on where it decided,
\* or it executes nothing and leaves pc where it is.
LEMMA StepStream ==
  Supported /\ TypeOK /\ PathInv /\ PathInv' /\ [Next]_vars
    => [Stream!Next]_<<pc, issued>>
<1> SUFFICES ASSUME Supported, TypeOK, PathInv, PathInv', [Next]_vars
             PROVE  Stream!Next \/ (pc' = pc /\ issued' = issued)
  OBVIOUS
<1> USE ConfigAssumption
<1>1. CASE UNCHANGED vars
  BY <1>1 DEF vars, fetchVars, coreVars, pc, RedirectDue, NextFetched, NextParked,
     NextRequested
<1>2. CASE Next
  <2>1. PICK ack \in BOOLEAN, jump \in BOOLEAN, multicycle \in BOOLEAN, dest \in Addr :
          Decides(jump, dest) /\ Clock(ack, jump, dest, multicycle)
    BY <1>2 DEF Next
  <2> DEFINE j == jump_o(jump)
             d == jump_dest_o(dest)
             en == en_o(stall_i, j)
             bs == bus_stall_i(en, ack)
  <2>2. /\ FetchClock(stall_i, j, d, bs, ack, pend)
        /\ MayAnswer(ack) /\ BusClock(en, ack) /\ DecodeClock(jump)
        /\ Execute(jump, dest, multicycle) \/ Wait(multicycle)
    BY <2>1 DEF Clock
  \* A redirect leaves an empty stage that starts at the destination.
  <2>3. Redirect(j, d, ack) => jump_taken' /\ NextFetched' = d /\ ~valid_o'
    <3> SUFFICES ASSUME Redirect(j, d, ack)
                 PROVE  jump_taken' /\ NextFetched' = d /\ ~valid_o'
      OBVIOUS
    <3>1. ip' = d /\ ~busy' /\ ~valid' /\ jump_taken'
      BY DEF Redirect
    <3>2. pend' = NoRequest
      BY <2>2 DEF Redirect, CanRedirect, BusClock, en_o, PathInv, Bookkeeping
    <3>3. ~valid_o'
      BY <3>1 DEF PathInv, Bookkeeping
    <3> QED BY <3>1, <3>2, <3>3 DEF NextFetched, NextParked, NextRequested
  \* With nothing in the output entry, the places behind it keep their order.
  <2>4. ASSUME AdvanceIp(stall_i, j, bs, ack), ~new_jump(j), ~RedirectDue, ~stall_i, ~valid
        PROVE  NextFetched' = NextFetched
    <3>1. ip # NoRequest
      BY NoRequestIsNoAddr DEF TypeOK, FetchTypeOK
    <3>2. pend # NoRequest => pend = current_ip[2] /\ ip = Succ(pend)
      BY <2>4 DEF PathInv, Consecutive
    <3>3. busy => pend = NoRequest /\ ~ack
      BY <2>2 DEF PathInv, Bookkeeping, NoAckWhileBusy, MayAnswer
    <3>4. en <=> ~busy
      BY <2>4 DEF en_o, AdvanceIp
    <3>5. /\ ack => pend # NoRequest
          /\ bs <=> en /\ pend # NoRequest /\ ~ack
          /\ pend' = IF en /\ ~bs THEN ip ELSE IF ack THEN NoRequest ELSE pend
      BY <2>2 DEF MayAnswer, BusClock, bus_stall_i
    <3>6. ip' = IF bs \/ busy \/ stall_i THEN ip ELSE Succ(ip)
      BY <2>4 DEF AdvanceIp
    <3>7. ~Park(stall_i, ack, pend)
      BY <2>4 DEF Park
    <3> HIDE DEF j, d, en, bs
    <3>8. Unpark(stall_i) \/ Receive(stall_i, j, bs, ack, pend) \/ Bubble(stall_i, j, bs, ack)
      BY <2>2, <2>4, <3>7 DEF FetchClock, LeaveReset, Redirect, AdvanceIp
    <3>9. CASE Unpark(stall_i)
      <4>1. valid' /\ busy /\ current_ip'[0] = current_ip[1]
        BY <3>9 DEF Unpark, TypeOK, FetchTypeOK
      <4> QED BY <2>4, <4>1 DEF NextFetched, NextParked
    <3>10. CASE Receive(stall_i, j, bs, ack, pend)
      <4>1. valid' /\ ~busy /\ current_ip'[0] = current_ip[2] /\ ack
        BY <3>10 DEF Receive, TypeOK, FetchTypeOK
      <4> QED BY <2>4, <3>2, <3>5, <4>1 DEF NextFetched, NextParked, NextRequested
    <3>11. CASE Bubble(stall_i, j, bs, ack)
      <4>1. ~valid' /\ ~busy /\ ~busy' /\ ~ack
        BY <2>4, <3>11 DEF Bubble
      <4>2. NextFetched = IF pend # NoRequest THEN pend ELSE ip
        BY <2>4, <4>1 DEF NextFetched, NextParked, NextRequested
      <4>3. pend' = IF pend # NoRequest THEN pend ELSE ip
        BY <3>4, <3>5, <4>1
      <4>4. pend' # NoRequest
        BY <3>1, <4>3
      <4> QED BY <4>1, <4>2, <4>3, <4>4 DEF NextFetched, NextParked, NextRequested
    <3> QED BY <3>8, <3>9, <3>10, <3>11
  <2>5. CASE taken
    <3>1. Execute(jump, dest, multicycle) /\ ~stall_i /\ valid_o /\ ~jump_busy
      BY <2>2, <2>5 DEF Wait, taken, exec_busy, stall_i
    <3>2. pc = debug_current_ip_o /\ debug_word_o = debug_current_ip_o
      BY <3>1 DEF pc, RedirectDue, PathInv, WordsMatch
    <3> DEFINE next == IF jump THEN dest ELSE Succ(debug_current_ip_o)
    <3>3. next \in Addr
      BY SuccIsAddr DEF TypeOK
    <3>4. issued' = [ip |-> pc, word |-> pc, next |-> next, toggle |-> ~issued.toggle]
      BY <3>1, <3>2 DEF Execute
    <3>5. pc' = next
      <4>1. CASE jump
        <5>1. jump_r' /\ jump_dest_r' = dest /\ (~JumpBypass => jump_busy')
          BY <3>1, <4>1 DEF Execute
        <5>2. CASE RedirectDue'
          BY <4>1, <5>1, <5>2 DEF pc
        <5>3. CASE ~RedirectDue'
          <6>1. JumpBypass
            BY <5>1, <5>3 DEF RedirectDue
          <6>2. ~valid_o'
            BY <2>2, <4>1, <6>1, <2>5 DEF DecodeClock, kill_i
          <6>3. jump_taken'
            BY <5>1, <5>3, <6>2 DEF RedirectDue
          <6>4. ~jump_taken
            BY <3>1 DEF PathInv, Bookkeeping
          <6>5. Redirect(j, d, ack)
            BY <2>2, <6>3, <6>4 DEF FetchClock, LeaveReset, AdvanceIp
          <6>6. d = dest
            BY <2>5, <6>1 DEF jump_dest_o
          <6> QED BY <2>3, <4>1, <5>3, <6>2, <6>5, <6>6 DEF pc
        <5> QED BY <5>2, <5>3
      <4>2. CASE ~jump
        <5>1. ~jump_r' /\ ~jump_busy'
          BY <3>1, <4>2 DEF Execute
        <5>2. ~RedirectDue'
          BY <5>1 DEF RedirectDue
        <5>3. ~new_jump(j) /\ ~kill_i(jump) /\ ~RedirectDue
          BY <2>5, <3>1, <4>2 DEF new_jump, jump_o, kill_i, RedirectDue
        <5>4. AdvanceIp(stall_i, j, bs, ack)
          BY <2>2, <3>1, <5>3 DEF FetchClock, LeaveReset, Redirect, CanRedirect, PathInv, InReset
        <5>5. NextFetched = Succ(debug_current_ip_o)
          BY <3>1, <5>3 DEF PathInv, Consecutive
        <5>6. CASE valid
          <6>1. valid_o' /\ debug_current_ip_o' = current_ip[0]
            BY <2>2, <3>1, <5>3, <5>6 DEF DecodeClock
          <6>2. NextFetched = current_ip[0]
            BY <5>6 DEF NextFetched
          <6> QED BY <4>2, <5>2, <5>5, <6>1, <6>2 DEF pc
        <5>7. CASE ~valid
          <6>1. ~valid_o'
            BY <2>2, <3>1, <5>3, <5>7 DEF DecodeClock
          <6>2. NextFetched' = NextFetched
            BY <2>4, <3>1, <5>3, <5>4, <5>7
          <6> QED BY <4>2, <5>2, <5>5, <6>1, <6>2 DEF pc
        <5> QED BY <5>6, <5>7
      <4> QED BY <4>1, <4>2
    <3> HIDE DEF next
    <3> QED BY <3>3, <3>4, <3>5 DEF Stream!Next, Stream!Issue
  <2>6. CASE ~taken
    <3>1. Wait(multicycle) /\ d = jump_dest_r /\ (j <=> jump_r)
      BY <2>2, <2>6 DEF Execute, jump_dest_o, jump_o, TypeOK
    <3>2. /\ issued' = issued /\ (jump_r' <=> jump_r) /\ jump_dest_r' = jump_dest_r
          /\ ~jump_busy'
      BY <3>1 DEF Wait
    <3>3. pc' = pc
      <4>1. CASE RedirectDue
        <5>1. pc = jump_dest_r
          BY <4>1 DEF pc
        <5>2. CASE LeaveReset
          BY <4>1, <5>2 DEF LeaveReset, PathInv, InReset, RedirectDue
        <5>3. CASE Redirect(j, d, ack)
          BY <2>3, <3>1, <3>2, <5>1, <5>3 DEF pc, RedirectDue
        <5>4. CASE AdvanceIp(stall_i, j, bs, ack)
          <6>1. new_jump(j)
            BY <4>1, <3>1 DEF RedirectDue, new_jump, PathInv, Bookkeeping
          <6>2. outstanding /\ ~ack
            BY <5>4, <6>1 DEF AdvanceIp, CanRedirect
          <6>3. ~jump_busy
            BY <2>2, <6>2 DEF Supported, MayAnswer, PathInv, Bookkeeping
          <6>4. jump_r /\ ~jump_taken /\ ~valid_o /\ ~valid
            BY <4>1, <6>3 DEF RedirectDue, PathInv, Bookkeeping
          <6>5. ~jump_taken'
            BY <5>4, <6>4 DEF AdvanceIp
          <6>6. ~stall_i
            BY <6>4 DEF stall_i
          <6>7. ~valid_o'
            BY <2>2, <6>4, <6>6 DEF DecodeClock
          <6>8. RedirectDue'
            BY <3>2, <6>4, <6>5, <6>7 DEF RedirectDue
          <6> QED BY <3>2, <5>1, <6>8 DEF pc
        <5> QED BY <2>2, <5>2, <5>3, <5>4 DEF FetchClock
      <4>2. CASE ~RedirectDue
        <5>1. ~jump_busy /\ ~new_jump(j)
          BY <2>6, <3>1, <4>2 DEF RedirectDue, new_jump, taken, exec_busy, PathInv, Bookkeeping
        <5>2. ~kill_i(jump) /\ (stall_i <=> valid_o)
          BY <2>6, <5>1 DEF kill_i, stall_i, taken
        <5>3. CASE LeaveReset
          <6>1. /\ ~valid /\ ~busy /\ ~valid_o /\ ~jump_r /\ pend = NoRequest
                /\ ~valid' /\ ~busy' /\ ip' = ip
            BY <5>3 DEF LeaveReset, PathInv, InReset
          <6>2. pend' = NoRequest /\ ~valid_o'
            BY <2>2, <5>2, <5>3, <6>1 DEF BusClock, MayAnswer, DecodeClock, en_o, LeaveReset
          <6> QED BY <3>2, <4>2, <6>1, <6>2
                  DEF pc, RedirectDue, NextFetched, NextParked, NextRequested
        <5>4. CASE AdvanceIp(stall_i, j, bs, ack)
          <6>1. CASE valid_o
            <7>1. valid_o' /\ debug_current_ip_o' = debug_current_ip_o
              BY <2>2, <5>2, <6>1 DEF DecodeClock
            <7> QED BY <3>2, <4>2, <6>1, <7>1 DEF pc, RedirectDue
          <6>2. CASE ~valid_o /\ valid
            <7>1. valid_o' /\ debug_current_ip_o' = current_ip[0]
              BY <2>2, <5>2, <6>2 DEF DecodeClock
            <7> QED BY <3>2, <4>2, <6>2, <7>1 DEF pc, RedirectDue, NextFetched
          <6>3. CASE ~valid_o /\ ~valid
            <7>1. ~valid_o'
              BY <2>2, <5>2, <6>3 DEF DecodeClock
            <7>2. jump_r => jump_taken'
              BY <4>2, <5>2, <5>4, <6>3 DEF RedirectDue, AdvanceIp
            <7>3. ~RedirectDue'
              BY <3>2, <7>2 DEF RedirectDue
            <7>4. NextFetched' = NextFetched
              BY <2>4, <4>2, <5>1, <5>2, <5>4, <6>3
            <7> QED BY <4>2, <6>3, <7>1, <7>3, <7>4 DEF pc
          <6> QED BY <6>1, <6>2, <6>3
        <5> QED BY <2>2, <5>1, <5>3, <5>4 DEF FetchClock, Redirect, CanRedirect
      <4> QED BY <4>1, <4>2
    <3> QED BY <3>2, <3>3
  <2> QED BY <2>5, <2>6
<1> QED BY <1>1, <1>2

\* The control path of the core implements the instruction stream for every
\* memory size, bus latency and program, in every supported configuration.
THEOREM StreamCorrect == Supported /\ Spec => StreamSpec
<1> SUFFICES ASSUME Supported PROVE Spec => StreamSpec
  OBVIOUS
<1>1. Init => Stream!Init
  BY InitStream
<1>2. TypeOK /\ PathInv /\ PathInv' /\ [Next]_vars => [Stream!Next]_<<pc, issued>>
  BY StepStream
<1>3. Spec => []PathInv
  BY PathCorrect
<1> QED BY <1>1, <1>2, <1>3, TypeCorrect, PTL DEF Spec, StreamSpec, Stream!Spec

=============================================================================
