------------------------------ MODULE Journal ------------------------------
(***************************************************************************)
(* What the database file promises: one side appends entries to a log,     *)
(* which may have some already, the other shows them in that order, none   *)
(* twice and none left out, and may come to its end at any point.  What is *)
(* printed in the turn that meets the end is not among them: it may be     *)
(* half an entry, or nothing that was ever appended.                       *)
(***************************************************************************)
EXTENDS Naturals, Sequences, SequencesExt

CONSTANT Entries

VARIABLES
  log,     \* what was appended
  shown,   \* what was shown of it
  over     \* nothing more will be shown

jvars == <<log, shown, over>>

Init == log \in Seq(Entries) /\ shown = <<>> /\ over = FALSE

Add ==
  /\ log' \in Seq(Entries) /\ Len(log') = Len(log) + 1 /\ Front(log') = log
  /\ UNCHANGED <<shown, over>>

Show ==
  /\ ~over /\ Len(shown) < Len(log)
  /\ shown' = Append(shown, log[Len(shown) + 1])
  /\ UNCHANGED <<log, over>>

(* The end, with or without something that is not in the log. *)
Finish == ~over /\ over' = TRUE /\ UNCHANGED <<log, shown>>

Next == Add \/ Show \/ Finish

Spec == Init /\ [][Next]_jvars
============================================================================
