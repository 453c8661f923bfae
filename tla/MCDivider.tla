----------------------------- MODULE MCDivider -----------------------------
EXTENDS Divider

\* Any division comes first; it is followed by one of the least dividend by
\* one or by minus one.
Extremes == [op1 : {2 ^ (W - 1)}, op2 : {1, 2 ^ W - 1}, signed : BOOLEAN, rem : BOOLEAN]
=============================================================================
