------------------------------ MODULE Divider ------------------------------
(***************************************************************************)
(* The divider (rtl/divider.py): non restoring division of W bit words,    *)
(* one quotient bit per clock, with a complementer that is used twice, on  *)
(* the dividend and on the result.  Every step is one clock.               *)
(***************************************************************************)
EXTENDS Integers

CONSTANTS
    W,          \* width of a word, 32 in the code
    Later       \* bound: the divisions that follow the first one

ASSUME WidthAssumption == W \in Nat /\ W > 1 /\ W % 2 = 0

VARIABLES
    fsm_ce, want_remainder, inv_res,    \* fsm_control
    dividend, divisor, partial_remainder, sum_subtract, cnt, ceo,
    remainder_corrector, remainder_corrector_1, remainder_pos,
    sum_low, d_high,        \* Complementor
    job,                    \* history: {} or the division under way
    used                    \* history: there has been a division

control == <<fsm_ce, want_remainder, inv_res>>
fsm == <<dividend, divisor, partial_remainder, sum_subtract, cnt, ceo>>
restoration == <<remainder_corrector, remainder_corrector_1, remainder_pos>>
vars == <<control, fsm, restoration, sum_low, d_high, job, used>>

H == W \div 2
Word == 0 .. 2 ^ W - 1
Job == [op1 : Word, op2 : Word, signed : BOOLEAN, rem : BOOLEAN]

Bit(n, i) == (n \div 2 ^ i) % 2
One(b) == IF b THEN 1 ELSE 0
Trunc(n, w) == n % 2 ^ w
Negative(n, signed) == signed /\ Bit(n, W - 1) = 1

\* The words of w bits with every bit inverted if c.
Inverted(n, w, c) == IF c THEN 2 ^ w - 1 - n ELSE n

ASSUME LaterAssumption == Later \subseteq Job

-----------------------------------------------------------------------------
(* Combinational signals. *)

addend == Inverted(divisor, W + 1, sum_subtract)
sum_val == Trunc(partial_remainder + addend + One(sum_subtract), W + 1)
sum_positive == Bit(sum_val, W) = 0

\* The low half is added in one clock, its carry reaches the high half in the
\* next.
compl_out == Trunc(d_high + Bit(sum_low, H), H) * 2 ^ H + Trunc(sum_low, H)

result_pos == IF want_remainder THEN remainder_pos ELSE dividend
result_o == compl_out

-----------------------------------------------------------------------------
(* The clock of each part; start is {} or the division that ce_i starts.   *)

Complementor(start) ==
    LET inv == IF start = {} THEN inv_res
               ELSE \E j \in start : Negative(j.op1, j.signed)
        d == IF start = {} THEN result_pos ELSE (CHOOSE j \in start : TRUE).op1
        prepared == Inverted(d, W, inv)
    IN  sum_low' = Trunc(prepared, H) + One(inv) /\ d_high' = prepared \div 2 ^ H

\* mutant: the sign of a quotient by zero is that of a quotient
ControlZero(start) ==
    /\ fsm_ce' = (start # {})
    /\ IF start = {} THEN UNCHANGED <<want_remainder, inv_res>>
       ELSE \E j \in start :
            /\ want_remainder' = j.rem
            /\ inv_res' = (j.signed /\
                   IF j.rem THEN Bit(j.op1, W - 1) = 1
                   ELSE Bit(j.op1, W - 1) # Bit(j.op2, W - 1))

\* A remainder has the sign of the dividend, a quotient by zero none.
Control(start) ==
    /\ fsm_ce' = (start # {})
    /\ IF start = {} THEN UNCHANGED <<want_remainder, inv_res>>
       ELSE \E j \in start :
            /\ want_remainder' = j.rem
            /\ inv_res' = (j.signed /\
                   IF j.rem THEN Bit(j.op1, W - 1) = 1
                   ELSE Bit(j.op1, W - 1) # Bit(j.op2, W - 1) /\ j.op2 # 0)

Load(start) ==
    divisor' = IF start = {} THEN divisor
               ELSE LET j == CHOOSE j \in start : TRUE
                    IN  j.op2 + One(Negative(j.op2, j.signed)) * 2 ^ W

\* The clock after ce_i: the complementer has the dividend.
Begin ==
    /\ fsm_ce
    /\ dividend' = Trunc(compl_out * 2, W)
    /\ partial_remainder' = Bit(compl_out, W - 1)
    /\ sum_subtract' = (Bit(divisor, W) = 0)
    /\ cnt' = IF want_remainder THEN W + 2 ELSE W + 1

\* mutant: off by one
IterateShort ==
    /\ ~fsm_ce
    /\ partial_remainder' = Trunc(sum_val, W) * 2 + Bit(dividend, W - 1)
    /\ sum_subtract' = (sum_positive # (Bit(divisor, W) = 1))
    /\ dividend' = Trunc(dividend * 2, W) + One(sum_positive)
    /\ cnt' = IF cnt > 2 THEN cnt - 1 ELSE 0

Iterate ==
    /\ ~fsm_ce
    /\ partial_remainder' = Trunc(sum_val, W) * 2 + Bit(dividend, W - 1)
    /\ sum_subtract' = (sum_positive # (Bit(divisor, W) = 1))
    /\ dividend' = Trunc(dividend * 2, W) + One(sum_positive)
    /\ cnt' = IF cnt > 0 THEN cnt - 1 ELSE 0

\* The last remainder is corrected if it came out negative.
Restore ==
    LET negative == Bit(divisor, W) = 1 IN
    /\ remainder_corrector' = IF sum_positive THEN 0
                              ELSE Inverted(Trunc(divisor, W), W, negative)
    /\ remainder_corrector_1' = (negative /\ ~sum_positive)
    /\ remainder_pos' = Trunc((partial_remainder \div 2) + remainder_corrector +
                              One(remainder_corrector_1), W)

Clock(start) ==
    /\ Complementor(start) /\ Control(start) /\ Load(start)
    /\ (Begin \/ Iterate) /\ Restore
    /\ ceo' = (cnt = 1)
    /\ used' = (used \/ start # {})
    /\ job' = IF start # {} THEN start ELSE IF ceo THEN {} ELSE job

\* The user starts a division while none is under way, or in the clock of the
\* result of the last one.
Start == job = {} \/ ceo

\* A reset clears control and state machine, the rest runs on.
Reset ==
    /\ fsm_ce' = FALSE /\ want_remainder' = FALSE /\ inv_res' = FALSE
    /\ dividend' = 0 /\ divisor' = 0 /\ partial_remainder' = 0
    /\ sum_subtract' = FALSE /\ cnt' = 0 /\ ceo' = FALSE
    /\ Complementor({}) /\ Restore
    /\ job' = {} /\ UNCHANGED used

Init ==
    /\ fsm_ce = FALSE /\ want_remainder = FALSE /\ inv_res = FALSE
    /\ dividend = 0 /\ divisor = 0 /\ partial_remainder = 0
    /\ sum_subtract = FALSE /\ cnt = 0 /\ ceo = FALSE
    /\ remainder_corrector = 0 /\ remainder_corrector_1 = FALSE /\ remainder_pos = 0
    /\ sum_low = 0 /\ d_high = 0 /\ job = {} /\ used = FALSE

Next == \/ Start /\ \E j \in (IF used THEN Later ELSE Job) : Clock({j})
        \/ Clock({})
        \/ Reset

Spec == Init /\ [][Next]_vars

\* The clock runs.
FairSpec == Spec /\ WF_vars(Clock({}))

-----------------------------------------------------------------------------
(* Properties. *)

\* The result RISC-V defines: signed division rounds towards zero, a division
\* by zero gives all ones and leaves the dividend, the quotient that does not
\* fit wraps.
Value(n, signed) == IF Negative(n, signed) THEN n - 2 ^ W ELSE n
Abs(n) == IF n < 0 THEN -n ELSE n

Expected(j) ==
    LET a == Value(j.op1, j.signed)
        b == Value(j.op2, j.signed)
        q == IF (a < 0) = (b < 0) THEN Abs(a) \div Abs(b) ELSE -(Abs(a) \div Abs(b))
    IN  IF b = 0 THEN IF j.rem THEN j.op1 ELSE 2 ^ W - 1
        ELSE Trunc(IF j.rem THEN a - q * b ELSE q, W)

\* The result is announced for the division under way and for no other, and it
\* is its quotient or remainder, for every pair of operands.
Correct == ceo => \E j \in job : result_o = Expected(j)

\* Every division ends, by its result or by a reset.
Ends == \A r \in BOOLEAN : (\E j \in job : j.rem = r) ~> (ceo \/ job = {})
=============================================================================
