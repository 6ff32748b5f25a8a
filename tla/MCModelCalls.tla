---------------------------- MODULE MCModelCalls ----------------------------
(***************************************************************************)
(* ModelCalls with three citation batches of two pairs each: a second wave, *)
(* batches recovered one after the other, and with the code's own budget of *)
(* six calls a third batch that finds it spent.                             *)
(***************************************************************************)
EXTENDS ModelCalls

\* Citation batches hold two pairs of a sentence and a passage.
Pairs == <<{"t1", "t2"}, {"t3", "t4"}, {"t5", "t6"}>>

\* max_tokens of synthesis, of the planner and of the two batch stages.
Caps == [single |-> 8000, repaired |-> 6000, evidence |-> 4000, citation |-> 3000]

=============================================================================
