----------------------------- MODULE SocSlaves -----------------------------
(***************************************************************************)
(* The slaves of the system on chip: the block RAM (rtl/uncore/ram_dp.py), *)
(* the native peripherals and the Wishbone bridge                          *)
(* (rtl/bonfire_interfaces.py, DbusToWishbone) in the windows that         *)
(* rtl/soc/bonfire_core_soc.py gives them.                                 *)
(*                                                                         *)
(* The upper two bits of an address select the window, bit 0 a word in it. *)
(* In the native window word 0 is the LED register and word 1 is not       *)
(* assigned; both answer at once, so the nested interconnect in front of   *)
(* them never remembers a selection.  The external Wishbone slave answers  *)
(* in any clock in which it is strobed, with or without wait states.       *)
(***************************************************************************)
EXTENDS DbusInterconnect

CONSTANTS Bram, Native, Wishbone

ASSUME SocAssumption ==
    /\ Slaves = {Bram, Native, Wishbone} /\ Xlen = 3
    /\ Bram # Native /\ Native # Wishbone /\ Bram # Wishbone

\* 0xc, 0x8 and 0x4 in the upper bits
SocMap == [i \in Slaves |->
    [upper |-> 3, lower |-> 1,
     base |-> IF i = Bram THEN {2, 1} ELSE IF i = Native THEN {2} ELSE {1}]]

word(adr) == adr \cap {0}
Assigned(adr) == Native \in windows(adr) => word(adr) = {}

VARIABLES
    ram,            \* [words -> the store that wrote the word, or Nothing]
    dbout,          \* output register of the RAM port
    ack_rd,         \* a read was accepted in the last clock
    led_reg,        \* the store that wrote the LED register, or Nothing
    cyc_r,          \* the Wishbone cycle goes on
    served          \* external: what the Wishbone slave works on, or Nothing

slaveVars == <<ram, dbout, ack_rd, led_reg, cyc_r, served>>

RamInit == ram = [w \in SUBSET {0} |-> Nothing] /\ dbout = Nothing /\ ack_rd = FALSE
WishboneInit == cyc_r = FALSE /\ served = Nothing
SlavesInit == RamInit /\ led_reg = Nothing /\ WishboneInit

-----------------------------------------------------------------------------
(* What the slaves drive while those in `seen` see the request. *)

\* The standard Wishbone cycle: cyc_o and stb_o rise and fall together.
wb_stb(seen) == Wishbone \in seen \/ cyc_r

\* The external slave: the dummy of the SoC (which always takes TRUE), or another.
Acknowledges(seen) == {FALSE, wb_stb(seen)}

\* mutant: the bridge takes a request at once
wb_stallNever(seen, wbm_ack_i) == FALSE
\* stall_i holds the master until the slave acknowledges.
wb_stall(seen, wbm_ack_i) == wb_stb(seen) /\ ~wbm_ack_i

ram_write(seen, request) == Bram \in seen /\ slave_request(Bram, request).store
native_request(request) == slave_request(Native, request)

SlaveOutputs(seen, request) ==
    {[ack |-> {i \in Slaves :
                  \/ i = Bram /\ (ack_rd \/ ram_write(seen, request))
                  \/ i = Native /\ i \in seen /\ Assigned(native_request(request).adr)
                  \/ i = Wishbone /\ wbm_ack_i},
      error |-> {i \in seen : i = Native /\ ~Assigned(native_request(request).adr)},
      stall |-> {i \in Slaves : i = Wishbone /\ wb_stall(seen, wbm_ack_i)},
      data |-> [i \in Slaves |->
                   IF i = Bram THEN dbout
                   ELSE IF i = Native THEN led_reg
                   ELSE IF ~wbm_ack_i THEN Nothing
                   ELSE IF served # Nothing THEN served
                   ELSE slave_request(Wishbone, request)]] :
        wbm_ack_i \in Acknowledges(seen)}

-----------------------------------------------------------------------------
(* One clock edge. *)

\* A word is read before it is written; stores are acknowledged at once.
RamClock(seen, request) ==
    LET r == slave_request(Bram, request)
    IN  /\ ack_rd' = (Bram \in seen /\ ~r.store)
        /\ IF Bram \in seen
           THEN /\ dbout' = ram[word(r.adr)]
                /\ ram' = IF r.store THEN [ram EXCEPT ![word(r.adr)] = r] ELSE ram
           ELSE UNCHANGED <<ram, dbout>>

LedClock(seen, request) ==
    LET r == native_request(request)
    IN  led_reg' = IF Native \in seen /\ r.store /\ Assigned(r.adr) THEN r ELSE led_reg

\* Only an acknowledge ends a cycle.
WishboneClock(seen, request, sl) ==
    /\ cyc_r' = (Wishbone \notin sl.ack /\ Wishbone \in seen)
    /\ served' = IF Wishbone \in sl.ack THEN Nothing
                 ELSE IF wb_stb(seen) /\ served = Nothing
                      THEN slave_request(Wishbone, request) ELSE served

SlavesClock(seen, request, sl) ==
    /\ RamClock(seen, request)
    /\ LedClock(seen, request)
    /\ WishboneClock(seen, request, sl)

=============================================================================
