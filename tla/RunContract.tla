---------------------------- MODULE RunContract ----------------------------
(***************************************************************************)
(* What a durable AI run promises its clients, with no log, no snapshot    *)
(* file, no cache and no failures: a run is accepted, works, waits at one  *)
(* gate at a time, ends once, and keeps a decision for each of its         *)
(* patches.  DurableRun, with its crashes and half-finished saves, is      *)
(* checked to implement it.                                                *)
(***************************************************************************)
EXTENDS Naturals

CONSTANTS
  Patches,    \* ids of the patches the agent may propose
  GateIds,    \* what identifies a gate
  MaxLedger   \* bound: versions of the working-state ledger

VARIABLES
  status,     \* "none" until the run is accepted
  outcome,    \* how it ended
  gate,       \* what it waits for
  decision,   \* what became of each patch
  ledger      \* version of the agent's working state

vars == <<status, outcome, gate, decision, ledger>>

Running == {"accepted", "executing", "verifying", "suspended",
            "awaiting_approval", "awaiting_answer"}

\* The outcomes that fit each terminal status.
Endings ==
  [completed |-> {"completed_no_changes", "completed_with_changes",
                  "completed_with_warnings"},
   failed    |-> {"failed", "interrupted", "timed_out"},
   cancelled |-> {"cancelled", "rejected"}]
Ended == DOMAIN Endings

Unset == [kind |-> "none", changed |-> FALSE]
NoGate == [id |-> 0, kind |-> "none"]

Nothing ==
  /\ status = "none" /\ outcome = Unset /\ gate = NoGate
  /\ decision = [p \in Patches |-> "none"] /\ ledger = 0

Init == Nothing

Accept ==
  /\ status = "none"
  /\ status' = "accepted"
  /\ UNCHANGED <<outcome, gate, decision, ledger>>

Work ==
  /\ status \in Running
  /\ status' \in Running
  /\ UNCHANGED <<outcome, gate, decision, ledger>>

Remember ==
  /\ status \in Running
  /\ ledger' \in ledger + 1 .. MaxLedger
  /\ UNCHANGED <<status, outcome, gate, decision>>

Wait ==
  /\ status \in Running /\ gate = NoGate
  /\ \/ status' = "awaiting_approval"
        /\ gate' \in [id : GateIds, kind : {"plan_approval"}]
     \/ status' = "awaiting_answer"
        /\ gate' \in [id : GateIds, kind : {"question"}]
  /\ UNCHANGED <<outcome, decision, ledger>>

Answer ==
  /\ status \in Running /\ gate # NoGate
  /\ status' = "executing" /\ gate' = NoGate
  /\ UNCHANGED <<outcome, decision, ledger>>

Resume ==
  /\ status = "suspended"
  /\ status' = "accepted" /\ gate' = NoGate
  /\ UNCHANGED <<outcome, decision, ledger>>

End ==
  /\ status \in Running
  /\ status' \in Ended
  /\ \E kind \in Endings[status'], changed \in BOOLEAN :
       outcome' = [kind |-> kind, changed |-> changed]
  /\ gate' = NoGate
  /\ UNCHANGED <<decision, ledger>>

\* A patch's fate may still become known after the run has ended.
Decide ==
  /\ status # "none"
  /\ \E p \in Patches :
       \/ decision[p] = "none" /\ decision' = [decision EXCEPT ![p] = "pending"]
       \/ decision[p] = "pending" /\ decision' = [decision EXCEPT ![p] = "rejected"]
       \/ \E d \in {"stale", "committed"} : decision' = [decision EXCEPT ![p] = d]
  /\ UNCHANGED <<status, outcome, gate, ledger>>

\* Retention forgets a run that has ended.
Forget == status \in Ended /\ Nothing'

Next ==
  Accept \/ Work \/ Remember \/ Wait \/ Answer \/ Resume \/ End \/ Decide \/ Forget

Spec == Init /\ [][Next]_vars
=============================================================================
