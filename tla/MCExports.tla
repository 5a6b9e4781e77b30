----------------------------- MODULE MCExports ------------------------------
(* Values of Exports' constants for TLC.                                   *)
EXTENDS Exports

CONSTANTS t1, t2

TwoTasks == {t1, t2}
=============================================================================
