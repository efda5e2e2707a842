---------------------------- MODULE MCDatabase -----------------------------
(***************************************************************************)
(* Names and values of one and two bytes, a value without bytes, and a     *)
(* span of numbers small enough for the second property or type to wrap.   *)
(***************************************************************************)
EXTENDS Database

MCNames == { <<2>>, <<3, 3>> }
MCPayloads == { <<>>, <<0, 4>> }
MCTimes == {0, 7}
============================================================================
