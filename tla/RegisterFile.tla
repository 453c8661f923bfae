---------------------------- MODULE RegisterFile ----------------------------
(***************************************************************************)
(* The register file, rtl/regfile.py: two synchronous read ports and one   *)
(* write port on a block RAM that returns the old content when a register  *)
(* is read and written in one clock; the collision registers make up for   *)
(* it.                                                                     *)
(***************************************************************************)
EXTENDS Naturals

CONSTANTS
    LastReg,        \* the highest register number
    Values          \* what a register can hold

ASSUME RegisterAssumption == LastReg \in Nat /\ 0 \in Values

VARIABLES
    registers,      \* [Reg -> Values]
    read_a, read_b, \* the RAM's output registers
    wdata_reg,      \* the last word written
    collision_a, collision_b    \* it was written to the address being read

rfVars == <<registers, read_a, read_b, wdata_reg, collision_a, collision_b>>

Reg == 0 .. LastReg

RfTypeOK ==
    /\ registers \in [Reg -> Values]
    /\ read_a \in Values /\ read_b \in Values /\ wdata_reg \in Values
    /\ collision_a \in BOOLEAN /\ collision_b \in BOOLEAN

RfInit ==
    /\ registers = [r \in Reg |-> 0]
    /\ read_a = 0 /\ read_b = 0 /\ wdata_reg = 0
    /\ collision_a = FALSE /\ collision_b = FALSE

\* The data of the two read ports.
port_a == IF collision_a THEN wdata_reg ELSE read_a
port_b == IF collision_b THEN wdata_reg ELSE read_b

Collides(ra, we, wa) == we /\ wa = ra /\ ra # 0

RfClock(ra, rb, we, wa, wd) ==
    /\ registers' = IF we /\ wa # 0 THEN [registers EXCEPT ![wa] = wd] ELSE registers
    /\ read_a' = IF ra = 0 THEN 0 ELSE registers[ra]
    /\ read_b' = IF rb = 0 THEN 0 ELSE registers[rb]
    /\ wdata_reg' = IF we THEN wd ELSE wdata_reg
    /\ collision_a' = Collides(ra, we, wa)
    /\ collision_b' = Collides(rb, we, wa)

=============================================================================
