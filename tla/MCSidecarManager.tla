-------------------------- MODULE MCSidecarManager --------------------------
(* Values of SidecarManager's constants for TLC.                           *)
EXTENDS SidecarManager

CONSTANTS e1, e2

TwoEngines == {e1, e2}
=============================================================================
