------------------------------ MODULE MCSince ------------------------------
(***************************************************************************)
(* Two data rows between the two bracketing ones, time stamps that         *)
(* repeat or jump, windows that are empty, inverted or one-sided.          *)
(***************************************************************************)
EXTENDS Since

MCTime == 0..3
MCOffset == 0..2
MCOperands == {f \in [0..N -> BOOLEAN] : f[0] /\ f[N]}
============================================================================
