----------------------------- MODULE MCIntegral ----------------------------
(***************************************************************************)
(* Three data rows, as for the temporal operators.  The heights drive a    *)
(* three bit integer (-4 .. 3) over either end, within a row and between   *)
(* rows.  The bracketing rows carry values no correct evaluation looks at. *)
(***************************************************************************)
EXTENDS Integral

MCTime == 0..3
MCOffset == 0..2
MCOperands == {f \in [0..N -> BOOLEAN] : ~f[0] /\ f[N]}

MCHeights ==
  {[i \in 0..N |-> <<3, h[1], h[2], h[3], 3>>[i + 1]] :
     h \in {<<1, 1, 1>>, <<3, 2, 1>>, <<-3, -2, 3>>}}
============================================================================
