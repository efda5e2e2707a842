------------------------------ MODULE MCUntil ------------------------------
(***************************************************************************)
(* Three data rows between the two bracketing ones, time stamps that       *)
(* repeat or jump, windows that are open, half open, empty and inverted.   *)
(* The bracketing rows carry values no correct evaluation looks at.        *)
(***************************************************************************)
EXTENDS Until

MCTime == 0..2
MCOffset == 0..2
MCOperands == {f \in [0..N -> BOOLEAN] : f[0] /\ f[N]}
============================================================================
