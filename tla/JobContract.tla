---------------------------- MODULE JobContract ----------------------------
(***************************************************************************)
(* What the job scheduler promises whoever submits jobs, with no queue, no *)
(* runner and no signals: one slot, handed on in the step that frees it; a *)
(* job that is paused, or held by an export, does no new run; an ending is *)
(* final, and "cancelled" exactly if the job was cancelled; finished parts *)
(* are kept until the job ends.  Which of the waiting jobs is next, the    *)
(* contract leaves open.  JobScheduler is proved to implement it.          *)
(***************************************************************************)
EXTENDS Naturals

CONSTANT Jobs

VARIABLES
  phase,      \* "none", "out" of the slot, "in" it, in it with a "run", or an ending
  paused,     \* the jobs the user has paused
  cancelled,  \* the jobs the user has cancelled
  windows,    \* what a job's runs have left: nothing, finished parts or an artifact
  exports     \* exports under way

vars == <<phase, paused, cancelled, windows, exports>>

Holding == {"in", "run"}
Live    == Holding \cup {"out"}
Endings == {"completed", "failed", "cancelled"}
Windows == {"none", "made", "committed"}

Init ==
  /\ phase = [j \in Jobs |-> "none"]
  /\ paused = [j \in Jobs |-> FALSE] /\ cancelled = [j \in Jobs |-> FALSE]
  /\ windows = [j \in Jobs |-> "none"] /\ exports = 0

\* The jobs that want the slot in phases p, when those of w are paused.
Wanting(p, w) == {j \in Jobs : p[j] = "out" /\ ~w[j]}

\* The slot goes to one of them, if it is free and n exports are none.
Served(p, w, n) ==
  IF n = 0 /\ (\A j \in Jobs : p[j] \notin Holding) /\ Wanting(p, w) # {}
  THEN {[k \in Jobs |-> IF k = j THEN "in" ELSE p[k]] : j \in Wanting(p, w)} ELSE {p}

HandOn(p) == phase' \in Served(p, paused', exports')

Submit(j) ==
  /\ phase[j] = "none"
  /\ UNCHANGED <<paused, cancelled, windows, exports>>
  /\ HandOn([phase EXCEPT ![j] = "out"])

Pause(j) ==
  /\ phase[j] \in Live
  /\ paused' = [paused EXCEPT ![j] = TRUE]
  /\ UNCHANGED <<phase, cancelled, windows, exports>>

Resume(j) ==
  /\ phase[j] \in Live
  /\ paused' = [paused EXCEPT ![j] = FALSE]
  /\ UNCHANGED <<cancelled, windows, exports>>
  /\ HandOn(phase)

\* A job outside the slot is over at once, the holder when its run returns.
Cancel(j) ==
  /\ phase[j] \in Live
  /\ cancelled' = [cancelled EXCEPT ![j] = TRUE]
  /\ UNCHANGED <<paused, windows, exports>>
  /\ HandOn(IF phase[j] = "out" THEN [phase EXCEPT ![j] = "cancelled"] ELSE phase)

StartExport ==
  /\ exports' = exports + 1
  /\ UNCHANGED <<phase, paused, cancelled, windows>>

EndExport ==
  /\ exports > 0
  /\ exports' = exports - 1
  /\ UNCHANGED <<paused, cancelled, windows>>
  /\ HandOn(phase)

Begin(j) ==
  /\ phase[j] = "in" /\ ~paused[j] /\ exports = 0
  /\ phase' = [phase EXCEPT ![j] = "run"]
  /\ UNCHANGED <<paused, cancelled, windows, exports>>

Work(j) ==
  /\ phase[j] = "run"
  /\ windows' = [windows EXCEPT ![j] = "made"]
  /\ UNCHANGED <<phase, paused, cancelled, exports>>

\* A run may leave one of ws; what never ran leaves what was there.
Leaves(j, ws) ==
  \E w \in IF phase[j] = "run" THEN ws ELSE {windows[j]} :
    windows' = [windows EXCEPT ![j] = w]

\* At a checkpoint the holder goes on, or makes room for a reason.
Yield(j) ==
  /\ phase[j] \in Holding /\ ~cancelled[j]
  /\ Leaves(j, {windows[j], "committed"})
  /\ UNCHANGED <<paused, cancelled, exports>>
  /\ \/ /\ ~paused[j] /\ exports = 0
        /\ phase' = [phase EXCEPT ![j] = "in"]
     \/ /\ paused[j] \/ exports > 0 \/ Wanting(phase, paused) # {}
        /\ HandOn([phase EXCEPT ![j] = "out"])

End(j) ==
  /\ phase[j] \in Holding
  /\ Leaves(j, Windows)
  /\ UNCHANGED <<paused, cancelled, exports>>
  /\ \E ending \in IF cancelled[j] THEN {"cancelled"} ELSE {"completed", "failed"} :
       HandOn([phase EXCEPT ![j] = ending])

Next ==
  \/ \E j \in Jobs :
       \/ Submit(j) \/ Pause(j) \/ Resume(j) \/ Cancel(j)
       \/ Begin(j) \/ Work(j) \/ Yield(j) \/ End(j)
  \/ StartExport \/ EndExport

Spec == Init /\ [][Next]_vars
=============================================================================
