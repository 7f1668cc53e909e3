---------------------------- MODULE MCWorldServer ----------------------------
(* WorldServer with a save every other step and a clock of a few ticks.       *)
EXTENDS WorldServer

=============================================================================
