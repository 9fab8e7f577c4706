----------------------------- MODULE MCSDRCollector -----------------------------
(* Instances of SDRCollector for TLC. *)
EXTENDS SDRCollector, TLC

CONSTANTS c1, c2
TwoCallers == {c1, c2}
OneCaller  == {c1}
=============================================================================
