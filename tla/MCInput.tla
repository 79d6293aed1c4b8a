------------------------------ MODULE MCInput ------------------------------
(* The state of a run that evaluates pure operators: one input, whose field
   "what" says for which of them. *)
VARIABLE input

Next == UNCHANGED input
=============================================================================
