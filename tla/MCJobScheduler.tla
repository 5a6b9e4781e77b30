--------------------------- MODULE MCJobScheduler ---------------------------
(* Values of JobScheduler's constants for TLC.                             *)
EXTENDS JobScheduler

CONSTANTS j1, j2, j3

TwoJobs == {j1, j2}
ThreeJobs == {j1, j2, j3}
\* The renderer submits focused jobs, a restart background ones.
UsedRanks == {Focused, Background}
=============================================================================
