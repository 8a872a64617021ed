---------------------------- MODULE MCAutomation ----------------------------
(***************************************************************************)
(* A small instance of Automation for TLC: one automation that catches up  *)
(* once and one that skips what it missed.                                 *)
(***************************************************************************)
EXTENDS Automation

Intervals == <<1, 2>>
Anchors == <<0, 0>>
Policies == <<1, 0>>
Limits == <<1, 1>>

============================================================================
