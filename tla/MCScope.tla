------------------------------ MODULE MCScope ------------------------------
(***************************************************************************)
(* Four data rows, enough for two closed segments or a closed and an open  *)
(* one.  A body holds everywhere except on at most two segments; every     *)
(* wrong choice of segments shows up with such a body.                     *)
(***************************************************************************)
EXTENDS Scope

MCOperands == {f \in [0..N -> BOOLEAN] : f[0] /\ f[N]}
MCBodies == {Segment \ {s, t} : s, t \in Segment} \cup {Segment}
============================================================================
