------------------------------- MODULE Answer -------------------------------
(***************************************************************************)
(* What every compiled operator promises.  It is a call with arguments     *)
(* that do not change, and it answers exactly once, with the meaning of    *)
(* the formula on those arguments.                                         *)
(***************************************************************************)
CONSTANTS
  Calls,       \* the arguments the operator may be called with
  Meant(_),    \* the meaning of a call
  Pending      \* no answer yet

VARIABLES call, answer

avars == <<call, answer>>

Init == call \in Calls /\ answer = Pending

Return ==
  /\ answer = Pending
  /\ answer' = Meant(call)
  /\ UNCHANGED call

Spec == Init /\ [][Return]_avars

FairSpec == Spec /\ WF_avars(Return)
=============================================================================
