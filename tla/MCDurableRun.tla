---------------------------- MODULE MCDurableRun ----------------------------
(* Values of DurableRun's constants for TLC, the fairness of its liveness  *)
(* run, and the contract it is checked to implement.                       *)
EXTENDS DurableRun, TLC

\* The commands the clients issue in each run of TLC.
EveryCommand == CommandKinds \ {"start"}
StreamCommands == {"cancel", "resume"}
\* An answer does what an approval does, and a steer changes nothing: `clients`
\* has them.
ContractCommands == EveryCommand \ {"accept_patch", "answer", "steer"}

CommandSymmetry == Permutations(CommandIds)
=============================================================================
