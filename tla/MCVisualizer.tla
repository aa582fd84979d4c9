---------------------------- MODULE MCVisualizer ----------------------------
(***************************************************************************)
(* Instances of Visualizer: a few update timers, so that callbacks nest,   *)
(* and a few pause messages.                                               *)
(***************************************************************************)
EXTENDS Visualizer
=============================================================================
