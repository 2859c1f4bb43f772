---------------------------- MODULE MCQueueNames ----------------------------
(***************************************************************************)
(* QueueNames for TLC.  Machines that may crash or starve are not          *)
(* interchangeable with the others.                                        *)
(***************************************************************************)
EXTENDS QueueNames, TLC

Symmetry == Permutations(Machines \ (Crashing \cup Starved))
=============================================================================
