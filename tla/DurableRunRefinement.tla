------------------------ MODULE DurableRunRefinement ------------------------
(***************************************************************************)
(* DurableRun implements RunContract, and its reconciliation closes every  *)
(* run an earlier process left open, for every value of the constants with *)
(* which no client accepts a patch: an accept that comes before the run    *)
(* has ended gives it an outcome (the run early_accept).                   *)
(***************************************************************************)
EXTENDS DurableRunHistory, FiniteSetTheorems

\* A run has a status once it has a record; when it ends it gets an outcome and has
\* no gate.
Shaped(s) ==
  /\ s.status # "none"
  /\ Settled(s) => s.gate = NoGate
  /\ s.outcome # NoOutcome <=> Settled(s)

Shapes == \A i \in 1 .. Last : Shaped(view[i])

LEMMA Kept ==
  ASSUME NEW s, NEW t, Shaped(s), t.status = s.status, t.gate = s.gate, t.outcome = s.outcome
  PROVE  Shaped(t)
BY DEF Shaped, Settled

LEMMA Unsettled ==
  ASSUME NEW t, t.status \in Working, t.outcome = NoOutcome PROVE Shaped(t)
BY DEF Shaped, Settled, Working, Terminals

LEMMA Ended ==
  ASSUME NEW t, NEW status \in Terminals, NEW kind \in OutcomeKinds \ {"none"}, NEW changed,
         EndsWith(t, status, kind, changed)
  PROVE  Shaped(t)
BY DEF Shaped, Settled, Terminals, EndsWith, NoOutcome

\* A run that has not ended is working, without an outcome.
LEMMA WorkingIs ==
  ASSUME NEW s \in Snapshot, Shaped(s), ~Settled(s)
  PROVE  s.status \in Working /\ s.outcome = NoOutcome
BY DEF Shaped, Settled, Snapshot, Statuses

\* The records a client that accepts no patch, the stream and the host may add.
LEMMA AddedKinds ==
  ASSUME "accept_patch" \notin ClientKinds, NEW e \in Event, Admissible(e)
  PROVE  \/ Last = 0 /\ e.kind = "start"
         \/ /\ Last > 0
            /\ \/ /\ e.kind \in {"approve_plan", "answer", "reject_plan", "cancel", "resume"}
                  /\ e \in Commands(e.kind) /\ Admits(Now, e) /\ ~Settled(Now)
               \/ /\ e.kind = "reject_patch"
                  /\ e \in Commands(e.kind) /\ Admits(Now, e)
               \/ e.kind \in {"steer", "editor_lifecycle", "effect"}
               \/ /\ e.kind = "stream" /\ ~Settled(Now)
                  /\ e.status \in StreamStatuses \cup {"none"}
               \/ OpensGate(e) /\ ~Settled(Now)
               \/ e.kind \in PatchEvents /\ e.patch \in Patches
               \/ Concludes(e)
<1>1. e.kind \in ClientKinds =>
        e.kind \in {"approve_plan", "answer", "resume", "steer", "reject_plan", "cancel",
                    "reject_patch"}
  BY KindsApart DEF CommandKinds, PlanKinds, PatchKinds
<1>2. Admits(Now, e) /\ e.kind \in {"approve_plan", "answer", "resume", "reject_plan", "cancel"}
        => ~Settled(Now)
  BY DEF Admits, PatchKinds, Settled, Terminals
<1> QED
  BY <1>1, <1>2 DEF Admissible

\* A compatible ending is one of the contract's.
LEMMA EndingKinds ==
  ASSUME NEW status, NEW kind, Compatible(status, kind)
  PROVE  /\ status \in Terminals /\ kind \in OutcomeKinds \ {"none"}
         /\ status \in Contract!Ended /\ kind \in Contract!Endings[status]
BY DEF Compatible, Terminals, OutcomeKinds, Contract!Ended, Contract!Endings

LEMMA ProjectShaped ==
  ASSUME "accept_patch" \notin ClientKinds, NEW e \in Event, Admissible(e), Now \in Snapshot,
         Last > 0 => Shaped(Now)
  PROVE  Shaped(Project(Now, e))
<1> DEFINE t == Project(Now, e)
<1>1. CASE e.kind = "start"
  BY <1>1, StartEffect, Unsettled DEF Working
<1>2. CASE Last > 0 /\ e.kind \in {"approve_plan", "answer", "resume"} /\ ~Settled(Now)
  <2>1. t.status \in Working /\ t.outcome \in {Now.outcome, NoOutcome}
    BY <1>2, AnswerEffect, ResumeEffect DEF Working
  <2> HIDE DEF t
  <2> QED
    BY <1>2, <2>1, WorkingIs, Unsettled DEF t
<1>3. CASE e.kind \in {"reject_plan", "cancel"}
  <2>1. \/ EndsWith(t, "cancelled", "rejected", FALSE)
        \/ EndsWith(t, "completed", "completed_with_warnings", AnyCommitted(Now))
        \/ EndsWith(t, "cancelled", "cancelled", AnyCommitted(Now))
    BY <1>3, EndEffect, Zenon
  <2>2. /\ {"cancelled", "completed"} \subseteq Terminals
        /\ {"rejected", "cancelled", "completed_with_warnings"} \subseteq OutcomeKinds \ {"none"}
    BY DEF Terminals, OutcomeKinds
  <2> HIDE DEF t
  <2> QED
    BY <2>1, <2>2, Ended, Zenon DEF t
<1>4. CASE Last > 0 /\ (e.kind \in {"reject_patch", "steer", "editor_lifecycle", "effect"}
                        \/ e.kind \in PatchEvents)
  <2>1. t.status = Now.status /\ t.gate = Now.gate /\ t.outcome = Now.outcome
    <3>1. CASE e.kind = "reject_patch"
      BY <3>1, RejectEffect
    <3>2. CASE e.kind \in {"steer", "editor_lifecycle", "effect"}
      <4>1. Alike(Project(Now, e), Now)
        BY <3>2, SilentEffect
      <4> QED
        BY <4>1 DEF Alike
    <3>3. CASE e.kind \in PatchEvents
      BY <3>3, PatchEffect DEF PatchEvents
    <3> QED
      BY <1>4, <3>1, <3>2, <3>3
  <2> HIDE DEF t
  <2> QED
    BY <1>4, <2>1, Kept DEF t
<1>5. CASE Last > 0 /\ e.kind = "stream" /\ ~Settled(Now) /\ e.status \in StreamStatuses \cup {"none"}
  <2>1. t.status \in Working /\ t.outcome = NoOutcome
    BY <1>5, StreamEffect, WorkingIs, ConstantsAssumption
  <2> QED
    BY <2>1, Unsettled
<1>6. CASE Last > 0 /\ OpensGate(e) /\ ~Settled(Now)
  <2>1. t.status \in Working /\ t.outcome = NoOutcome
    BY <1>6, GateEffect, WorkingIs DEF OpensGate, Working
  <2> QED
    BY <2>1, Unsettled
<1>7. CASE Last > 0 /\ Concludes(e)
  <2>1. /\ t.status = e.status /\ t.outcome = e.outcome /\ t.gate = NoGate
        /\ EndsWith(t, e.status, e.outcome.kind, e.outcome.changed)
    BY <1>7, TerminalEffect DEF Concludes, EndsWith
  <2>2. CASE Settled(Now)
    BY <1>7, <2>1, <2>2, Kept DEF Concludes, Shaped
  <2>3. CASE ~Settled(Now)
    <3>1. e.status \in Terminals /\ e.outcome.kind \in OutcomeKinds \ {"none"}
      BY <1>7, <2>3, EndingKinds DEF Concludes
    <3> HIDE DEF t
    <3> QED
      BY <2>1, <3>1, Ended DEF t
  <2> QED
    BY <2>2, <2>3
<1> QED
  BY <1>1, <1>2, <1>3, <1>4, <1>5, <1>6, <1>7, AddedKinds

LEMMA ShapesStep ==
  ASSUME "accept_patch" \notin ClientKinds, Ground, Shapes, [Next]_vars PROVE Shapes'
<1> USE DEF Shapes
<1>0. StoreOK /\ Last \in Nat /\ Now \in Snapshot /\ (Last > 0 => Shaped(Now))
  BY LastNat, ConstantsAssumption, NowType DEF Ground, TypeOK
<1>1. CASE Same
  BY <1>1 DEF Same, Last
<1>2. CASE Cuts
  BY <1>0, <1>2 DEF Cuts
<1>3. ASSUME NEW s \in Snapshot, Amends(s) PROVE Shapes'
  <2>1. /\ Last' = Last /\ Last > 0
        /\ \A i \in 1 .. Last : view'[i] = IF i = Last THEN s ELSE view[i]
        /\ ~Settled(Now) /\ s.outcome = Now.outcome
        /\ s.status \in StreamStatuses \/ s.status = Now.status
    BY <1>3 DEF Amends
  <2>2. s.status \in Working /\ s.outcome = NoOutcome
    BY <1>0, <2>1, WorkingIs, ConstantsAssumption
  <2>3. Shaped(s)
    BY <2>2, Unsettled
  <2> QED
    BY <2>1, <2>3
<1>4. ASSUME NEW e \in Event, Adds(e) PROVE Shapes'
  <2>1. /\ Last' = Last + 1 /\ view'[Last'] = Project(Now, e)
        /\ \A i \in 1 .. Last : view'[i] = view[i]
        /\ Admissible(e)
    BY <1>4 DEF Adds
  <2>2. Shaped(Project(Now, e))
    BY <1>0, <2>1, ProjectShaped
  <2>3. \A i \in 1 .. Last' : i \in 1 .. Last \/ i = Last'
    BY <1>0, <2>1
  <2> QED
    BY <2>1, <2>2, <2>3
<1> QED
  BY <1>1, <1>2, <1>3, <1>4, NextIsLogStep DEF Ground, LogStep

-----------------------------------------------------------------------------
(* Each step is one of the contract's, or leaves what the clients see.     *)

Promised == Contract!Next \/ UNCHANGED Contract!vars

LEMMA Stutters ==
  ASSUME Now'.status = Now.status, Now'.outcome = Now.outcome, Now'.gate = Now.gate,
         Now'.decision = Now.decision, Now'.ledger = Now.ledger
  PROVE  Promised
BY DEF Promised, Contract!vars

LEMMA Ends ==
  ASSUME Now.status \in Working,
         NEW status, NEW kind, NEW changed \in BOOLEAN, EndsWith(Now', status, kind, changed),
         status \in Contract!Ended, kind \in Contract!Endings[status],
         SameFate(Now, Now')
  PROVE  Promised
<1>1. Now'.status = status /\ Now'.outcome = [kind |-> kind, changed |-> changed]
      /\ Now'.gate = NoGate
  BY DEF EndsWith
<1>2. Contract!End
  BY <1>1 DEF Contract!End, Contract!Running, Contract!NoGate, Working, NoGate, SameFate
<1> QED
  BY <1>2 DEF Promised, Contract!Next

LEMMA Decides ==
  ASSUME Last > 0, Now.status # "none", Now'.status = Now.status, Now'.outcome = Now.outcome,
         Now'.gate = Now.gate, Now'.ledger = Now.ledger,
         NEW p \in Patches, NEW d,
         Now'.decision = [Now.decision EXCEPT ![p] = d],
         \/ Now.decision[p] = "none" /\ d = "pending"
         \/ Now.decision[p] = "pending" /\ d = "rejected"
         \/ d \in {"stale", "committed"}
  PROVE  Promised
<1>1. Contract!Decide
  BY DEF Contract!Decide
<1> QED
  BY <1>1 DEF Promised, Contract!Next

LEMMA CommandPromised ==
  ASSUME NEW e \in Event, Now \in Snapshot, Shaped(Now), Now' = Project(Now, e),
         e.kind \in {"approve_plan", "answer", "reject_plan", "cancel", "resume"},
         e \in Commands(e.kind), Admits(Now, e), ~Settled(Now)
  PROVE  Promised
<1>0. Now.status \in Working /\ Now.outcome = NoOutcome
  BY WorkingIs
<1>1. CASE e.kind \in {"approve_plan", "answer"}
  <2>1. Now.gate = e.gate /\ e.gate.kind \in GateKinds
    BY <1>1 DEF Admits, Commands, PlanKinds, GateKinds
  <2>2. Now.gate # NoGate
    BY <2>1 DEF NoGate, GateKinds
  <2>3. Contract!Answer
    BY <1>0, <1>1, <2>2, AnswerEffect
       DEF Contract!Answer, Contract!Running, Contract!NoGate, NoGate, Working, SameFate
  <2> QED
    BY <2>3 DEF Promised, Contract!Next
<1>2. CASE e.kind \in {"reject_plan", "cancel"}
  <2>1. /\ SameFate(Now, Now')
        /\ \/ EndsWith(Now', "cancelled", "rejected", FALSE)
           \/ EndsWith(Now', "completed", "completed_with_warnings", AnyCommitted(Now))
           \/ EndsWith(Now', "cancelled", "cancelled", AnyCommitted(Now))
    BY <1>2, EndEffect, Zenon
  <2>2. AnyCommitted(Now) \in BOOLEAN /\ FALSE \in BOOLEAN
    BY DEF AnyCommitted
  <2>3. /\ "cancelled" \in Contract!Ended /\ "completed" \in Contract!Ended
        /\ "rejected" \in Contract!Endings["cancelled"]
        /\ "cancelled" \in Contract!Endings["cancelled"]
        /\ "completed_with_warnings" \in Contract!Endings["completed"]
    BY DEF Contract!Ended, Contract!Endings
  <2> QED
    BY <1>0, <2>1, <2>2, <2>3, Ends, Zenon
<1>3. CASE e.kind = "resume"
  <2>1. Now.status = "suspended"
    BY <1>3 DEF Admits
  <2>2. Contract!Resume
    BY <1>0, <1>3, <2>1, ResumeEffect DEF Contract!Resume, Contract!NoGate, NoGate, SameFate
  <2> QED
    BY <2>2 DEF Promised, Contract!Next
<1> QED
  BY <1>1, <1>2, <1>3

LEMMA PatchPromised ==
  ASSUME NEW e \in Event, Last > 0, Now \in Snapshot, Shaped(Now), Now' = Project(Now, e),
         \/ e.kind = "reject_patch" /\ e \in Commands(e.kind) /\ Admits(Now, e)
         \/ e.kind \in PatchEvents /\ e.patch \in Patches
  PROVE  Promised
<1>0. Now.status # "none" /\ Now.decision \in [Patches -> Decisions]
  BY DEF Shaped, Snapshot
<1>1. CASE e.kind = "reject_patch" /\ e \in Commands(e.kind) /\ Admits(Now, e)
  <2>1. e.patch \in Patches /\ Now.decision[e.patch] = "pending"
    BY <1>1 DEF Commands, Admits, PatchKinds
  <2> QED
    BY <1>0, <1>1, <2>1, RejectEffect, Decides
<1>2. CASE e.kind \in PatchEvents /\ e.patch \in Patches
  <2> DEFINE d == PatchDecision(Now.decision[e.patch], e.kind)
  <2>1. /\ Now'.status = Now.status /\ Now'.outcome = Now.outcome
        /\ Now'.gate = Now.gate /\ Now'.ledger = Now.ledger
        /\ Now'.decision = [Now.decision EXCEPT ![e.patch] = d]
    BY <1>2, PatchEffect DEF PatchEvents
  <2>2. \/ Now.decision[e.patch] = "none" /\ d = "pending"
        \/ d \in {"stale", "committed"}
        \/ d = Now.decision[e.patch]
    BY <1>2 DEF PatchDecision, PatchEvents
  <2> HIDE DEF d
  <2>3. CASE d = Now.decision[e.patch]
    <3>1. Now'.decision = Now.decision
      BY <1>0, <2>1, <2>3
    <3> QED
      BY <2>1, <3>1, Stutters
  <2>4. CASE d # Now.decision[e.patch]
    BY <1>0, <1>2, <2>1, <2>2, <2>4, Decides
  <2> QED
    BY <2>3, <2>4
<1> QED
  BY <1>1, <1>2

LEMMA AddPromised ==
  ASSUME "accept_patch" \notin ClientKinds, Ground, Shapes, NEW e \in Event, Adds(e)
  PROVE  Promised
<1>0. StoreOK /\ Last \in Nat /\ Now \in Snapshot /\ (Last > 0 => Shaped(Now))
  BY LastNat, ConstantsAssumption, NowType DEF Ground, TypeOK, Shapes
<1>1. /\ Last' = Last + 1 /\ view'[Last'] = Project(Now, e)
      /\ Admissible(e) /\ Last < WalLimit
  BY DEF Adds
<1>2. Now' = Project(Now, e)
  BY <1>0, <1>1 DEF Now
<1>3. Last > 0 /\ ~Settled(Now) => Now.status \in Working /\ Now.outcome = NoOutcome
  BY <1>0, WorkingIs
<1>4. CASE Last = 0 /\ e.kind = "start"
  <2>1. Now = Absent
    BY <1>4 DEF Now
  <2>2. Contract!Accept
    BY <1>0, <1>2, <1>4, <2>1, StartEffect
       DEF Contract!Accept, Absent
  <2> QED
    BY <2>2 DEF Promised, Contract!Next
<1>5. CASE /\ Last > 0
           /\ e.kind \in {"approve_plan", "answer", "reject_plan", "cancel", "resume"}
           /\ e \in Commands(e.kind) /\ Admits(Now, e) /\ ~Settled(Now)
  BY <1>0, <1>2, <1>5, CommandPromised
<1>6. CASE /\ Last > 0
           /\ \/ e.kind = "reject_patch" /\ e \in Commands(e.kind) /\ Admits(Now, e)
              \/ e.kind \in PatchEvents /\ e.patch \in Patches
  BY <1>0, <1>2, <1>6, PatchPromised
<1>7. CASE Last > 0 /\ e.kind \in {"steer", "editor_lifecycle", "effect"}
  <2>1. Alike(Now', Now)
    BY <1>0, <1>2, <1>7, SilentEffect
  <2> QED
    BY <2>1, Stutters DEF Alike
<1>8. CASE /\ Last > 0 /\ e.kind = "stream" /\ ~Settled(Now)
           /\ e.status \in StreamStatuses \cup {"none"}
  <2>1. /\ Now.status \in Working /\ Now'.status \in Working
        /\ Now'.gate = Now.gate /\ Now'.outcome = Now.outcome /\ SameFate(Now, Now')
    BY <1>0, <1>2, <1>3, <1>8, StreamEffect, ConstantsAssumption
  <2>2. Contract!Work
    BY <2>1 DEF Contract!Work, Contract!Running, Working, SameFate
  <2> QED
    BY <2>2 DEF Promised, Contract!Next
<1>9. CASE Last > 0 /\ OpensGate(e) /\ ~Settled(Now)
  <2>1. /\ Now.status \in Working /\ Now.gate = NoGate
        /\ Now'.status = e.status /\ Now'.gate = e.gate
        /\ Now'.outcome = Now.outcome /\ SameFate(Now, Now')
    BY <1>0, <1>2, <1>3, <1>9, GateEffect DEF OpensGate
  <2>2. Last + 1 \in 1 .. WalLimit
    BY <1>0, <1>1, ConstantsAssumption
  <2>3. \/ Now'.status = "awaiting_approval" /\ Now'.gate = [id |-> Last + 1, kind |-> "plan_approval"]
        \/ Now'.status = "awaiting_answer" /\ Now'.gate = [id |-> Last + 1, kind |-> "question"]
    BY <1>9, <2>1 DEF OpensGate
  <2>4. Contract!Wait
    BY <2>1, <2>2, <2>3
       DEF Contract!Wait, Contract!Running, Contract!NoGate, Working, NoGate, SameFate
  <2> QED
    BY <2>4 DEF Promised, Contract!Next
<1>10. CASE Last > 0 /\ Concludes(e)
  <2>1. /\ EndsWith(Now', e.status, e.outcome.kind, e.outcome.changed)
        /\ Now'.outcome = e.outcome /\ SameFate(Now, Now')
    BY <1>0, <1>2, <1>10, TerminalEffect DEF Concludes
  <2>2. CASE Settled(Now)
    <3>1. e.status = Now.status /\ e.outcome = Now.outcome /\ Now.gate = NoGate
      BY <1>0, <1>10, <2>2 DEF Concludes, Shaped
    <3>2. Now'.status = e.status /\ Now'.gate = NoGate
      BY <2>1 DEF EndsWith
    <3> QED
      BY <2>1, <3>1, <3>2, Stutters DEF SameFate
  <2>3. CASE ~Settled(Now)
    <3>1. /\ Now.status \in Working /\ Compatible(e.status, e.outcome.kind)
          /\ e.outcome.changed \in BOOLEAN
      BY <1>3, <1>10, <2>3 DEF Concludes, Event, Outcome
    <3>2. e.status \in Contract!Ended /\ e.outcome.kind \in Contract!Endings[e.status]
      BY <3>1, EndingKinds
    <3> QED
      BY <2>1, <3>1, <3>2, Ends, Zenon
  <2> QED
    BY <2>2, <2>3
<1> QED
  BY <1>1, <1>4, <1>5, <1>6, <1>7, <1>8, <1>9, <1>10, AddedKinds

LEMMA StepPromised ==
  ASSUME "accept_patch" \notin ClientKinds, Ground, Shapes, FirstEndingStands, [Next]_vars
  PROVE  [Contract!Next \/ PowerLoss \/ ~SnapshotWithinLog]_(Contract!vars)
<1>0. /\ StoreOK /\ Last \in Nat /\ Now \in Snapshot /\ (Last > 0 => Shaped(Now))
      /\ RecoveryAgrees /\ snap \in Snapshot /\ Positions
  BY LastNat, ConstantsAssumption, NowType
     DEF Ground, TypeOK, StoreOK, Shapes, RecoveryInv
<1>1. CASE Same
  BY <1>1 DEF Same, Now, Last, Contract!vars
<1>2. CASE Cuts
  <2>1. CASE PowerLoss
    BY <2>1
  <2>2. CASE Settled(snap) /\ Last' = 0 /\ SnapshotWithinLog
    <3>1. snap.seq # 0
      BY <1>0, <2>2 DEF Positions, Settled, Absent, Terminals
    <3>2. snap.seq \in 1 .. Last /\ Last \in 1 .. Last
      BY <1>0, <2>2, <3>1, ConstantsAssumption DEF SnapshotWithinLog, Snapshot
    <3>3. snap = view[snap.seq] /\ Now = view[Last]
      BY <1>0, <3>2, NowType DEF RecoveryAgrees
    <3>4. Now.status \in Terminals
      <4>1. CASE snap.seq = Last
        BY <2>2, <3>3, <4>1 DEF Settled
      <4>2. CASE snap.seq < Last
        BY <2>2, <3>2, <3>3, <4>2 DEF FirstEndingStands, Settled
      <4> QED
        BY <1>0, <3>2, <4>1, <4>2
    <3>5. Now' = Absent
      BY <2>2 DEF Now
    <3>6. Contract!Forget
      BY <3>4, <3>5
         DEF Contract!Forget, Contract!Nothing, Contract!Ended, Contract!Endings, Terminals,
             Contract!Unset, Contract!NoGate, Absent, NoOutcome, NoGate
    <3> QED
      BY <3>6 DEF Contract!Next
  <2> QED
    BY <1>2, <2>1, <2>2 DEF Cuts
<1>3. ASSUME NEW s \in Snapshot, Amends(s) PROVE Promised
  <2>1. /\ Last' = Last /\ Last > 0 /\ view'[Last] = s
        /\ ~Settled(Now) /\ s.outcome = Now.outcome /\ s.gate = Now.gate
        /\ s.decision = Now.decision
        /\ \/ s.status \in StreamStatuses /\ s.ledger = Now.ledger
           \/ s.status = Now.status /\ s.ledger \in 1 .. MaxLedger /\ s.ledger > Now.ledger
    BY <1>0, <1>3 DEF Amends
  <2>2. Now' = s /\ Now.status \in Working
    BY <1>0, <2>1, WorkingIs DEF Now
  <2>3. CASE s.status \in StreamStatuses /\ s.ledger = Now.ledger
    <3>1. Contract!Work
      BY <2>1, <2>2, <2>3, ConstantsAssumption DEF Contract!Work, Contract!Running, Working
    <3> QED
      BY <3>1 DEF Promised, Contract!Next
  <2>4. CASE s.status = Now.status /\ s.ledger \in 1 .. MaxLedger /\ s.ledger > Now.ledger
    <3>1. s.ledger \in Now.ledger + 1 .. MaxLedger
      BY <1>0, <2>4, ConstantsAssumption DEF Snapshot
    <3>2. Contract!Remember
      BY <2>1, <2>2, <2>4, <3>1 DEF Contract!Remember, Contract!Running, Working
    <3> QED
      BY <3>2 DEF Promised, Contract!Next
  <2> QED
    BY <2>1, <2>3, <2>4
<1>4. ASSUME NEW e \in Event, Adds(e) PROVE Promised
  BY <1>4, AddPromised
<1> QED
  BY <1>1, <1>2, <1>3, <1>4, NextIsLogStep DEF Ground, LogStep, Promised

LEMMA ShapesKept == ASSUME "accept_patch" \notin ClientKinds PROVE Spec => []Shapes
<1>1. Init => Shapes
  BY InitEmpty DEF Shapes
<1>2. Ground /\ Shapes /\ [Next]_vars => Shapes'
  BY ShapesStep
<1> QED
  BY <1>1, <1>2, Grounded, PTL DEF Spec

\* Through crashes between append and save, replays, failed writes and retention, the
\* durable run does what its clients were promised: every step is one of the contract's
\* or invisible to them, except a loss of power, and as long as no client accepts a
\* patch before the run has ended (RunContract against the whole of DurableRun).
THEOREM RefinesContract ==
  ASSUME "accept_patch" \notin ClientKinds
  PROVE  Spec => ImplementsContract
<1>1. Init => Contract!Init
  <2> SUFFICES ASSUME Init PROVE Contract!Init
    OBVIOUS
  <2>1. Last = 0 /\ Now = Absent
    BY InitEmpty DEF Now
  <2> QED
    BY <2>1
       DEF Contract!Init, Contract!Nothing, Contract!Unset, Contract!NoGate, Absent,
           NoOutcome, NoGate
<1>2. Ground /\ Shapes /\ FirstEndingStands /\ [Next]_vars
        => [Contract!Next \/ PowerLoss \/ ~SnapshotWithinLog]_(Contract!vars)
  BY StepPromised
<1> QED
  BY <1>1, <1>2, ShapesKept, FirstEndingIsKept, Grounded, PTL DEF Spec, ImplementsContract

-----------------------------------------------------------------------------
(* A run that an earlier process left open.                                *)

TerminalEnds == \A i \in 1 .. Last : wal[i].kind = "terminal" => Settled(view[i])

LEMMA TerminalEndsStep ==
  ASSUME Ground, TerminalEnds, [Next]_vars PROVE TerminalEnds'
<1> USE DEF TerminalEnds
<1>0. StoreOK /\ Last \in Nat /\ Now \in Snapshot
  BY LastNat, NowType, ConstantsAssumption DEF Ground, TypeOK
<1>1. CASE Same
  BY <1>1 DEF Same, Last
<1>2. CASE Cuts
  BY <1>0, <1>2 DEF Cuts
<1>3. ASSUME NEW s \in Snapshot, Amends(s) PROVE TerminalEnds'
  <2>1. /\ Last' = Last /\ Last > 0 /\ wal' = wal /\ ~Settled(view[Last])
        /\ \A i \in 1 .. Last : view'[i] = IF i = Last THEN s ELSE view[i]
    BY <1>0, <1>3, NowType DEF Amends
  <2>2. wal[Last].kind # "terminal"
    BY <1>0, <2>1
  <2> QED
    BY <2>1, <2>2
<1>4. ASSUME NEW e \in Event, Adds(e) PROVE TerminalEnds'
  <2>1. /\ Last' = Last + 1 /\ wal'[Last'] = e /\ view'[Last'] = Project(Now, e)
        /\ \A i \in 1 .. Last : wal'[i] = wal[i] /\ view'[i] = view[i]
        /\ Admissible(e)
    BY <1>4 DEF Adds
  <2>2. e.kind = "terminal" => Settled(Project(Now, e))
    <3>1. e.kind = "terminal" => Concludes(e)
      BY <2>1, KindsApart DEF Admissible, PatchEvents, OpensGate
    <3> QED
      BY <1>0, <3>1, TerminalEffect DEF Concludes, EndsWith, Settled
  <2>3. \A i \in 1 .. Last' : i \in 1 .. Last \/ i = Last'
    BY <1>0, <2>1
  <2> QED
    BY <2>1, <2>2, <2>3
<1> QED
  BY <1>1, <1>2, <1>3, <1>4, NextIsLogStep DEF Ground, LogStep

\* The log has no room left, not even for the record that ends the run.
Full == Last >= WalLimit /\ ~HasEvent("terminal")

\* Reconciliation closes a run it has read to the end of its log, and is through with
\* a run only when it has ended, is about to be saved as ended, or has a full log.
Reconciled ==
  /\ recon \in {"close", "close_changed"} /\ saving = Absent =>
       Settled(snap) \/ snap.seq = Last
  /\ recon \in {"sweep", "done"} /\ Last > 0 =>
       Settled(snap) \/ Settled(saving) \/ Full

OrphanInv == producer = "lost" /\ fate = "kept" => Reconciled

\* A stream that is lost was lost before, or this launch is still to look at the run.
LEMMA LostBefore ==
  ASSUME [Next]_vars, producer' = "lost"
  PROVE  recon' = "look" \/ (producer = "lost" /\ ~Stream /\ \A e : ~Start(e))
<1>1. CASE producer = "lost"
  BY <1>1 DEF Start, Stream, Attach, EditorLifecycle, RuntimeEffect, StopPublishing,
     SettleRefused, StreamEnded, RecordStream, SkipStream, FoldLedger, OpenGate, Streaming,
     WritePatch, ProposePatch, RecordCommitted, RecordStale, Complete
<1>2. CASE producer # "lost"
  <2>1. CASE Clients \/ Store \/ Reconcile \/ Prune \/ UNCHANGED vars
    BY <1>2, <2>1 DEF Clients, Start, Command, Store, Save, SaveFails, Load, CatchUp, Persist,
       Evict, Reconcile, ReconcileSkip, ReconcileLook, ReconcileClose, ReconcileFails, Prune,
       vars
  <2>2. CASE Stream
    BY <1>2, <2>2 DEF Stream, Attach, EditorLifecycle, RuntimeEffect, StopPublishing,
       SettleRefused, RecordStream, SkipStream, FoldLedger, OpenGate, WritePatch, ProposePatch,
       RecordCommitted, RecordStale, Complete
  <2>3. CASE Crash \/ PowerLoss \/ AppendFails
    BY <1>2, <2>3 DEF Crash, PowerLoss, AppendFails, Restart
  <2> QED
    BY <2>1, <2>2, <2>3 DEF Next
<1> QED
  BY <1>1, <1>2

LEMMA OrphanStep ==
  ASSUME "accept_patch" \notin ClientKinds, "disk" \notin Failures,
         Ground, Shapes, FirstEndingStands, LedgersGrow, SavingLoaded, TerminalEnds,
         OrphanInv, [Next]_vars
  PROVE  OrphanInv'
<1> SUFFICES ASSUME producer' = "lost", fate' = "kept" PROVE Reconciled'
  BY DEF OrphanInv
<1>0. /\ TypeOK /\ StoreOK /\ RecoveryInv /\ Positions /\ RecoveryAgrees /\ Begun
      /\ Last \in Nat /\ Now \in Snapshot /\ (Last > 0 => Shaped(Now))
      /\ snap \in Snapshot /\ mem \in Snapshot /\ saving \in Snapshot
  BY LastNat, NowType, ConstantsAssumption DEF Ground, TypeOK, StoreOK, RecoveryInv, Shapes
<1>1. CASE Settled(snap)
  <2>1. Settled(snap')
    BY <1>1, SnapshotStep DEF Succeeds, Settled
  <2> QED
    BY <2>1 DEF Reconciled
<1>2. CASE recon' = "look"
  BY <1>2 DEF Reconciled
<1> SUFFICES ASSUME ~Settled(snap), recon' # "look" PROVE Reconciled'
  BY <1>1, <1>2
<1>3. producer = "lost" /\ ~Stream /\ (\A e : ~Start(e)) /\ fate = "kept" /\ Reconciled
  BY LostBefore, HostMoves DEF OrphanInv
<1>4. Current => mem = Now /\ mem.seq = Last /\ saving = Absent
  BY <1>0, NowIsMem DEF Current
<1>5. ~Settled(Absent) /\ Valid(Absent)
  BY DEF Absent, Settled, Terminals, Valid
\* What recovery replays the schema accepts.
<1>6. Current => Recoverable
  <2> SUFFICES ASSUME Current PROVE Valid(Now)
    BY <1>4 DEF Recoverable
  <2>1. CASE Last = 0
    BY <1>5, <2>1 DEF Now
  <2>2. CASE Last > 0
    BY <1>0, <2>2 DEF Shaped, Valid
  <2> QED
    BY <1>0, <2>1, <2>2
\* A snapshot at the end of the log is the run as it stands.
<1>7. snap.seq = Last /\ Last > 0 => snap = Now
  BY <1>0, NowType DEF RecoveryAgrees
<1>8. Full /\ Last' = Last /\ wal' = wal => Full'
  BY DEF Full, HasEvent, Last
<1>9. CASE Clients
  <2>1. PICK kind \in ClientKinds : \E e \in Commands(kind) : Command(e)
    BY <1>3, <1>9 DEF Clients
  <2>2. PICK e \in Commands(kind) : Command(e)
    BY <2>1
  <2>3. /\ mem.seq > 0 /\ Current /\ Last < WalLimit /\ recon' = recon
        /\ saving' = Project(mem, e)
    BY <2>2 DEF Command, Record
  <2>4. e \in Event /\ mem.seq < WalLimit
    BY <1>4, <2>3, CommandType, ConstantsAssumption
  <2>5. saving'.seq = mem.seq + 1
    BY <1>0, <2>3, <2>4, ProjectType
  <2>6. saving' # Absent
    BY <1>0, <1>4, <2>3, <2>5 DEF Absent
  <2>7. recon \notin {"sweep", "done"}
    BY <1>0, <1>3, <1>4, <1>5, <2>3, ConstantsAssumption DEF Reconciled, Full
  <2> QED
    BY <2>3, <2>6, <2>7 DEF Reconciled
<1>10. CASE Save
  <2>1. /\ saving # Absent /\ snap' = saving /\ saving' = Absent /\ wal' = wal /\ recon' = recon
    BY <1>10 DEF Save, SaveSnapshot
  <2>2. saving.seq = Last /\ Last' = Last
    BY <1>0, <2>1 DEF Positions, Last
  <2> QED
    BY <1>3, <1>8, <2>1, <2>2 DEF Reconciled
<1>11. ~SaveFails
  <2>1. saving # Absent => Last > 0 /\ saving = Now
    BY <1>0, NowType DEF Positions, RecoveryAgrees
  <2>2. saving # Absent => Valid(saving)
    BY <1>0, <2>1 DEF Shaped, Valid
  <2> QED
    BY <2>2 DEF SaveFails
<1>12. CASE Load \/ CatchUp \/ Evict \/ UNCHANGED vars
  <2>1. /\ snap' = snap /\ saving' = saving /\ wal' = wal /\ recon' = recon /\ Last' = Last
    BY <1>12 DEF Load, CatchUp, Evict, vars, Last
  <2> QED
    BY <1>3, <1>8, <2>1 DEF Reconciled
<1>13. CASE Persist
  <2>1. /\ Current /\ snap' = mem /\ saving' = Absent /\ wal' = wal /\ recon' = recon
    BY <1>4, <1>13 DEF Persist, SaveNow, SaveSnapshot
  <2>2. Last' = Last
    BY <2>1 DEF Last
  <2> QED
    BY <1>3, <1>4, <1>5, <1>8, <2>1, <2>2 DEF Reconciled
<1>14. CASE ReconcileLook
  <2>1. /\ Current /\ wal' = wal /\ saving' = saving
        /\ IF mem.seq = snap.seq THEN snap' = snap ELSE snap' = mem
        /\ recon' \in {"sweep", "close", "close_changed"}
        /\ recon' = "sweep" => mem.seq = 0 \/ Settled(mem)
    BY <1>14 DEF ReconcileLook, SaveNow, SaveSnapshot, disk
  <2>2. Last' = Last /\ snap'.seq = Last
    BY <1>4, <2>1 DEF Last
  <2>3. Settled(mem) /\ Last > 0 => Settled(snap')
    BY <1>4, <1>7, <2>1
  <2> QED
    BY <1>4, <2>1, <2>2, <2>3 DEF Reconciled
<1>15. CASE ReconcileClose
  <2> DEFINE t == TerminalEvent("failed", "interrupted", recon = "close_changed")
  <2>1. Record(t) /\ recon' = "sweep"
    BY <1>15 DEF ReconcileClose
  <2>2. saving' = Project(mem, t)
    BY <2>1 DEF Record
  <2>3. t \in Event /\ t.kind = "terminal"
    BY <1>0, TerminalEventType
       DEF StoreOK, Statuses, Terminals, OutcomeKinds, TerminalEvent, Blank
  <2>4. t.status \in Terminals
    BY DEF TerminalEvent, Blank, Settled, Terminals
  <2> HIDE DEF t
  <2>5. Settled(saving')
    BY <1>0, <2>2, <2>3, <2>4, TerminalEffect DEF EndsWith, Settled
  <2> QED
    BY <2>1, <2>5 DEF Reconciled
<1>16. CASE ReconcileFails
  <2>1. /\ Current /\ recon \in {"close", "close_changed"}
        /\ HasEvent("terminal") \/ CompletionRefused
        /\ wal' = wal
    BY <1>6, <1>16 DEF ReconcileFails, disk
  <2>2. snap = Now /\ Last > 0 /\ mem = Now
    BY <1>0, <1>3, <1>4, <1>7, <2>1 DEF Reconciled, Begun
  <2>3. ~HasEvent("terminal")
    BY <1>0, <2>2, EndedNow DEF HasEvent, TerminalEnds
  <2>4. Full /\ Last' = Last
    BY <1>6, <2>1, <2>2, <2>3 DEF CompletionRefused, Full, Last
  <2> QED
    BY <1>8, <1>16, <2>1, <2>4 DEF Reconciled, ReconcileFails
<1>17. CASE Prune
  <2>1. /\ wal' = wal /\ snap' = snap /\ saving' = saving /\ recon = "sweep" /\ recon' = "done"
        /\ Last' = Last
    BY <1>17 DEF Prune, disk, Last
  <2> QED
    BY <1>3, <1>8, <2>1 DEF Reconciled
<1>18. ~ReconcileSkip /\ ~AppendFails /\ ~Crash /\ ~PowerLoss
  BY DEF ReconcileSkip, AppendFails, Crash, PowerLoss, Restart
<1> QED
  BY <1>3, <1>9, <1>10, <1>11, <1>12, <1>13, <1>14, <1>15, <1>16, <1>17, <1>18
     DEF Next, Store, Reconcile

LEMMA OrphanKept ==
  ASSUME "accept_patch" \notin ClientKinds, "disk" \notin Failures PROVE Spec => []OrphanInv
<1>1. Init => TerminalEnds /\ OrphanInv
  <2>1. Init => producer = "idle"
    BY DEF Init
  <2> QED
    BY <2>1, InitEmpty DEF TerminalEnds, OrphanInv
<1>2. Ground /\ TerminalEnds /\ [Next]_vars => TerminalEnds'
  BY TerminalEndsStep
<1>3. Ground /\ Shapes /\ FirstEndingStands /\ LedgersGrow /\ SavingLoaded /\ TerminalEnds
        /\ OrphanInv /\ [Next]_vars => OrphanInv'
  BY OrphanStep
<1> QED
  BY <1>1, <1>2, <1>3, ShapesKept, FirstEndingIsKept, LedgersAndSaving, Grounded, PTL DEF Spec

\* Whatever state a dead process left a run in, the next launch closes it, unless the
\* log has no room for the record that would: for any number of crashes and losses of
\* power, on a disk that does not fail and with no patch accepted before the run has
\* ended (reconcileInterruptedRuns and close).
THEOREM OrphansAreClosedOrFull ==
  ASSUME "accept_patch" \notin ClientKinds, "disk" \notin Failures
  PROVE  Spec => [](OrphansClosed \/ Full)
<1>1. OrphanInv => OrphansClosed \/ Full
  BY DEF OrphanInv, Reconciled, OrphansClosed, Absent, Settled, Terminals
<1> QED
  BY <1>1, OrphanKept, PTL

\* The records up to n that a full log makes room for: all but the stream's.
Integrity(log, n) == {i \in 1 .. n : log[i].kind # "stream"}

LEMMA IntegrityFinite ==
  ASSUME NEW log, NEW n \in Nat
  PROVE  IsFiniteSet(Integrity(log, n)) /\ Cardinality(Integrity(log, n)) \in Nat
<1>1. IsFiniteSet(1 .. n)
  BY FS_Interval
<1>2. Integrity(log, n) \in SUBSET (1 .. n)
  BY DEF Integrity
<1>3. IsFiniteSet(Integrity(log, n))
  BY <1>1, <1>2, FS_Subset
<1> QED
  BY <1>3, FS_CardinalityType

\* The stream writes only into its share of the log, and what is neither the stream's
\* nor the run's ending or beginning only while there are integrity records to spare.
Afforded(e) ==
  /\ e.kind = "stream" => Last < StreamLimit
  /\ e.kind \notin {"stream", "terminal", "start"} =>
       Cardinality(Integrity(wal, Last)) < MaxIntegrity

LEMMA AddedIs ==
  ASSUME StoreOK, NEW e \in Event, NEW f \in Event, wal' = Append(wal, f), Adds(e)
  PROVE  e = f
<1>1. wal \in Seq(Event) /\ Last' = Len(wal) + 1 /\ wal'[Last'] = e
  BY DEF StoreOK, Adds, Last
<1>2. wal'[Len(wal) + 1] = f
  BY <1>1, AppendProperties
<1> QED
  BY <1>1, <1>2

LEMMA Affords ==
  ASSUME TypeOK, NEW e \in Event, Adds(e), [Next]_vars PROVE Afforded(e)
<1> USE DEF TypeOK
<1>0. /\ Last \in Nat /\ Last' = Last + 1 /\ wal' # wal
      /\ IntegrityRecords = Cardinality(Integrity(wal, Last))
  <2>1. Last \in Nat /\ Last' = Last + 1
    BY LastNat, ConstantsAssumption DEF Adds
  <2>2. wal' # wal
    BY <2>1 DEF Last
  <2> QED
    BY <2>1, <2>2 DEF IntegrityRecords, Integrity
<1>1. ASSUME NEW f \in Event, Record(f) PROVE e = f
  BY <1>1, AddedIs DEF Record
<1>2. CASE Clients
  <2>1. ASSUME NEW c \in Commands("start"), Start(c) PROVE Afforded(e)
    <3>1. c \in Event /\ c.kind = "start" /\ Record(c)
      BY <2>1, CommandType DEF CommandKinds, Start
    <3> QED
      BY <1>1, <3>1 DEF Afforded
  <2>2. ASSUME NEW kind \in ClientKinds, NEW c \in Commands(kind), Command(c)
        PROVE  Afforded(e)
    <3>1. c \in Event /\ c.kind \in CommandKinds /\ Record(c) /\ IntegrityRecords < MaxIntegrity
      BY <2>2, CommandType, ConstantsAssumption DEF Command
    <3>2. c.kind # "stream"
      BY <3>1, KindsApart
    <3> QED
      BY <1>0, <1>1, <3>1, <3>2 DEF Afforded
  <2> QED
    BY <1>2, <2>1, <2>2 DEF Clients
<1>3. ~Store
  BY <1>0 DEF Store, Save, SaveFails, Load, CatchUp, Persist, Evict, SaveNow
<1>4. CASE Stream
  <2>1. CASE EditorLifecycle \/ RuntimeEffect
    <3>1. PICK kind \in {"editor_lifecycle", "effect"} : wal' = Append(wal, Blank(kind))
      BY <2>1 DEF EditorLifecycle, RuntimeEffect, Record
    <3>2. Blank(kind) \in Event /\ Blank(kind).kind = kind
      BY <3>1, BlankType DEF RuntimeKinds, Blank
    <3>3. e.kind = kind /\ IntegrityRecords < MaxIntegrity
      BY <2>1, <3>1, <3>2, AddedIs DEF EditorLifecycle, RuntimeEffect
    <3> QED
      BY <1>0, <3>3 DEF Afforded
  <2>2. ASSUME NEW status \in StreamStatuses \cup {"none"}, NEW optional \in BOOLEAN,
               RecordStream(status, optional)
        PROVE  Afforded(e)
    <3> DEFINE f == [Blank("stream") EXCEPT !.status = status]
    <3>1. f \in Event /\ f.kind = "stream"
      BY StreamEventType
    <3>2. wal' = Append(wal, f) /\ Last < (IF optional THEN OptionalLimit ELSE StreamLimit)
      BY <2>2 DEF RecordStream
    <3> HIDE DEF f
    <3>3. e.kind = "stream"
      BY <3>1, <3>2, AddedIs
    <3>4. Last < StreamLimit
      BY <1>0, <3>2, ConstantsAssumption
    <3> QED
      BY <3>3, <3>4 DEF Afforded
  <2>3. ASSUME NEW kind \in GateKinds, OpenGate(kind) PROVE Afforded(e)
    <3>1. PICK status, gate :
            Record([Blank("gate_opened") EXCEPT !.status = status, !.gate = gate])
      BY <2>3 DEF OpenGate
    <3> DEFINE f == [Blank("gate_opened") EXCEPT !.status = status, !.gate = gate]
    <3>2. f.kind = "gate_opened" /\ wal' = Append(wal, f)
      BY <3>1 DEF Record, Blank
    <3> HIDE DEF f
    <3>3. wal'[Last'] = f
      BY <1>0, <3>2, AppendProperties DEF StoreOK, Last
    <3>4. e.kind = "gate_opened" /\ IntegrityRecords < MaxIntegrity
      BY <2>3, <3>2, <3>3 DEF Adds, OpenGate
    <3> QED
      BY <1>0, <3>4 DEF Afforded
  <2>4. ASSUME NEW p \in Patches, NEW rev \in (0 .. MaxRevision) \cup {NoRevision},
               ProposePatch(p, rev) \/ RecordCommitted(p, rev) \/ RecordStale(p, rev)
        PROVE  Afforded(e)
    <3>1. PICK kind \in PatchEvents : Record(PatchEvent(kind, p, rev))
      BY <2>4 DEF ProposePatch, RecordCommitted, RecordStale, PatchEvents
    <3>2. kind \in RuntimeKinds
      BY DEF RuntimeKinds, PatchEvents
    <3> DEFINE f == PatchEvent(kind, p, rev)
    <3>3. f \in Event /\ f.kind = kind
      BY <3>2, PatchEventType
    <3> HIDE DEF f
    <3>4. e.kind = kind /\ IntegrityRecords < MaxIntegrity
      BY <1>1, <2>4, <3>1, <3>3 DEF ProposePatch, RecordCommitted, RecordStale, f
    <3> QED
      BY <1>0, <3>4 DEF Afforded, PatchEvents
  <2>5. ASSUME NEW settlement \in Settlements, Complete(settlement) PROVE Afforded(e)
    <3> DEFINE f == TerminalEvent(settlement.status, settlement.kind, AutoCommitted)
    <3>1. f.kind = "terminal" /\ wal' = Append(wal, f)
      BY <2>5 DEF Complete, Record, TerminalEvent, Blank
    <3> HIDE DEF f
    <3>2. e = f
      BY <1>0, <3>1, AppendProperties DEF StoreOK, Last, Adds
    <3> QED
      BY <3>1, <3>2 DEF Afforded
  <2>6. ~Attach /\ ~StopPublishing /\ ~SettleRefused
        /\ (\A status \in StreamStatuses : ~SkipStream(status))
        /\ (\A version \in 1 .. MaxLedger : ~FoldLedger(version))
        /\ (\A p \in Patches : ~WritePatch(p))
    BY <1>0 DEF Attach, StopPublishing, SettleRefused, SkipStream, FoldLedger, WritePatch,
       SaveNow, disk
  <2> QED
    BY <1>4, <2>1, <2>2, <2>3, <2>4, <2>5, <2>6 DEF Stream
<1>5. CASE ReconcileClose
  <2> DEFINE f == TerminalEvent("failed", "interrupted", recon = "close_changed")
  <2>1. f.kind = "terminal" /\ wal' = Append(wal, f)
    BY <1>5 DEF ReconcileClose, Record, TerminalEvent, Blank
  <2> HIDE DEF f
  <2>2. e = f
    BY <1>0, <2>1, AppendProperties DEF StoreOK, Last, Adds
  <2> QED
    BY <2>1, <2>2 DEF Afforded
<1>6. /\ ~ReconcileSkip /\ ~ReconcileLook /\ ~ReconcileFails /\ ~Crash /\ ~AppendFails
      /\ vars' # vars
  BY <1>0 DEF ReconcileSkip, ReconcileLook, ReconcileFails, Crash, AppendFails, SaveNow, disk,
     vars
<1>7. ~PowerLoss /\ ~Prune
  <2>1. ASSUME NEW n \in synced .. Last, wal' = SubSeq(wal, 1, n), view' = SubSeq(view, 1, n)
        PROVE  FALSE
    <3>1. n \in 0 .. Last
      BY <1>0 DEF StoreOK
    <3>2. Last' = n
      BY <2>1, <3>1, CutLog DEF CutAt
    <3> QED
      BY <1>0, <3>1, <3>2
  <2>2. ASSUME wal' = <<>> PROVE FALSE
    <3>1. Last' = 0
      BY <2>2, EmptySeq, Zenon DEF Last
    <3> QED
      BY <1>0, <3>1
  <2> QED
    BY <1>0, <2>1, <2>2 DEF PowerLoss, Prune, disk
<1> QED
  BY <1>2, <1>3, <1>4, <1>5, <1>6, <1>7 DEF Next, Reconcile

\* Until its terminal record, a log holds no more integrity records than it has room for.
Budget ==
  \A n \in 0 .. Last :
    \/ \E i \in 1 .. n : wal[i].kind = "terminal"
    \/ Cardinality(Integrity(wal, n)) <= MaxIntegrity

StreamEarly == \A i \in 1 .. Last : wal[i].kind = "stream" => i <= StreamLimit

BudgetInv == Budget /\ StreamEarly

LEMMA BudgetStep ==
  ASSUME MaxIntegrity > 0, Ground, BudgetInv, [Next]_vars PROVE BudgetInv'
<1> USE DEF BudgetInv
<1>0. StoreOK /\ Last \in Nat
  BY LastNat, ConstantsAssumption DEF Ground, TypeOK
\* Where the log keeps its records, so does the count of them.
<1>keep. ASSUME NEW n \in 0 .. Last, \A i \in 1 .. n : wal'[i] = wal[i]
         PROVE  /\ \A i \in 1 .. n : wal'[i].kind = "stream" => i <= StreamLimit
                /\ \A k \in 0 .. n : Integrity(wal', k) = Integrity(wal, k)
                /\ \A k \in 0 .. n : \/ \E i \in 1 .. k : wal'[i].kind = "terminal"
                                     \/ Cardinality(Integrity(wal', k)) <= MaxIntegrity
  <2>1. \A i \in 1 .. n : i \in 1 .. Last
    BY <1>0
  <2>2. ASSUME NEW k \in 0 .. n PROVE \A i \in 1 .. k : wal'[i] = wal[i]
    BY <1>0, <1>keep
  <2>3. ASSUME NEW k \in 0 .. n PROVE Integrity(wal', k) = Integrity(wal, k)
    BY <2>2 DEF Integrity
  <2>4. \A k \in 0 .. n : k \in 0 .. Last
    BY <1>0
  <2> QED
    BY <1>keep, <2>1, <2>2, <2>3, <2>4 DEF Budget, StreamEarly
<1>1. CASE Same
  <2>1. Last' = Last /\ Last \in 0 .. Last /\ \A i \in 1 .. Last : wal'[i] = wal[i]
    BY <1>0, <1>1 DEF Same, Last
  <2> QED
    BY <1>keep, <2>1 DEF Budget, StreamEarly
<1>2. CASE Cuts
  <2>1. Last' \in 0 .. Last /\ \A i \in 1 .. Last' : wal'[i] = wal[i]
    BY <1>2 DEF Cuts
  <2> QED
    BY <1>keep, <2>1 DEF Budget, StreamEarly
<1>3. ASSUME NEW s \in Snapshot, Amends(s) PROVE BudgetInv'
  <2>1. Last' = Last /\ Last \in 0 .. Last /\ \A i \in 1 .. Last : wal'[i] = wal[i]
    BY <1>0, <1>3 DEF Amends
  <2> QED
    BY <1>keep, <2>1 DEF Budget, StreamEarly
<1>4. ASSUME NEW e \in Event, Adds(e) PROVE BudgetInv'
  <2>1. /\ Last' = Last + 1 /\ wal'[Last'] = e /\ Last \in 0 .. Last
        /\ \A i \in 1 .. Last : wal'[i] = wal[i]
        /\ Admissible(e) /\ Afforded(e)
    BY <1>0, <1>4, Affords DEF Adds, Ground
  <2>2. StreamEarly'
    <3>1. e.kind = "stream" => Last' <= StreamLimit
      BY <1>0, <2>1, ConstantsAssumption DEF Afforded
    <3>2. \A i \in 1 .. Last' : i \in 1 .. Last \/ i = Last'
      BY <1>0, <2>1
    <3> QED
      BY <1>keep, <2>1, <3>1, <3>2 DEF StreamEarly
  <2>3. \/ \E i \in 1 .. Last' : wal'[i].kind = "terminal"
        \/ Cardinality(Integrity(wal', Last')) <= MaxIntegrity
    <3>1. Integrity(wal', Last) = Integrity(wal, Last) /\ Last' \in 1 .. Last'
      BY <1>0, <1>keep, <2>1
    <3>2. Integrity(wal', Last') =
            IF e.kind = "stream" THEN Integrity(wal, Last) ELSE Integrity(wal, Last) \cup {Last'}
      <4>1. 1 .. Last' = (1 .. Last) \cup {Last'}
        BY <1>0, <2>1
      <4>2. Integrity(wal', Last') = {i \in 1 .. Last' : wal'[i].kind # "stream"}
        BY DEF Integrity
      <4> QED
        BY <2>1, <4>1, <4>2 DEF Integrity
    <3>3. /\ IsFiniteSet(Integrity(wal, Last)) /\ Cardinality(Integrity(wal, Last)) \in Nat
          /\ Cardinality(Integrity(wal, Last) \cup {Last'})
               \in 0 .. Cardinality(Integrity(wal, Last)) + 1
      <4>1. IsFiniteSet(Integrity(wal, Last)) /\ Cardinality(Integrity(wal, Last)) \in Nat
        BY <1>0, IntegrityFinite
      <4>2. Cardinality(Integrity(wal, Last) \cup {Last'}) =
              IF Last' \in Integrity(wal, Last) THEN Cardinality(Integrity(wal, Last))
              ELSE Cardinality(Integrity(wal, Last)) + 1
        BY <4>1, FS_AddElement
      <4> QED
        BY <4>1, <4>2
    <3>4. CASE e.kind = "stream"
      <4>1. \/ \E i \in 1 .. Last : wal'[i].kind = "terminal"
            \/ Cardinality(Integrity(wal, Last)) <= MaxIntegrity
        BY <1>keep, <2>1, <3>1
      <4>2. \A i \in 1 .. Last : i \in 1 .. Last'
        BY <1>0, <2>1
      <4> QED
        BY <3>2, <3>4, <4>1, <4>2
    <3>5. CASE e.kind = "terminal"
      BY <2>1, <3>1, <3>5
    <3>6. CASE e.kind = "start"
      <4>1. Last = 0
        BY <2>1, <3>6, KindsApart DEF Admissible, PatchEvents, OpensGate, Concludes
      <4>2. Integrity(wal, Last) = {}
        BY <4>1 DEF Integrity
      <4>3. Cardinality(Integrity(wal, Last)) = 0
        BY <4>2, FS_EmptySet
      <4> QED
        BY <3>2, <3>3, <3>6, <4>3, ConstantsAssumption
    <3>7. CASE e.kind \notin {"stream", "terminal", "start"}
      <4>1. Cardinality(Integrity(wal, Last)) < MaxIntegrity
        BY <2>1, <3>7 DEF Afforded
      <4> QED
        BY <3>2, <3>3, <3>7, <4>1, ConstantsAssumption
    <3> QED
      BY <3>4, <3>5, <3>6, <3>7
  <2>4. \A n \in 0 .. Last' : n \in 0 .. Last \/ n = Last'
    BY <1>0, <2>1
  <2>5. Budget'
    BY <1>keep, <2>1, <2>3, <2>4 DEF Budget
  <2> QED
    BY <2>2, <2>5
<1> QED
  BY <1>1, <1>2, <1>3, <1>4, NextIsLogStep DEF Ground, LogStep

\* A log with room for its stream, its integrity records and one more is never full.
LEMMA RoomToEnd ==
  ASSUME Ground, BudgetInv, StreamLimit + MaxIntegrity < WalLimit PROVE ~Full
<1> SUFFICES ASSUME Full PROVE FALSE
  OBVIOUS
<1>0. Last \in Nat /\ WalLimit \in Nat /\ StreamLimit \in Nat /\ MaxIntegrity \in Nat
      /\ Last >= WalLimit
  BY LastNat, ConstantsAssumption DEF Ground, TypeOK, Full
<1>1. IsFiniteSet(Integrity(wal, Last)) /\ Cardinality(Integrity(wal, Last)) \in Nat
  BY <1>0, IntegrityFinite
<1>2. Cardinality(Integrity(wal, Last)) <= MaxIntegrity
  BY <1>0 DEF BudgetInv, Budget, Full, HasEvent
<1>3. IsFiniteSet(1 .. StreamLimit) /\ Cardinality(1 .. StreamLimit) = StreamLimit
  BY <1>0, FS_Interval
<1>4. Cardinality(1 .. Last) = Last
  BY <1>0, FS_Interval
<1> DEFINE S == (1 .. StreamLimit) \cup Integrity(wal, Last)
<1>5. IsFiniteSet(S) /\ Cardinality(S) <= StreamLimit + MaxIntegrity
  <2>1. /\ IsFiniteSet(S)
        /\ Cardinality(S) = Cardinality(1 .. StreamLimit) + Cardinality(Integrity(wal, Last))
                              - Cardinality((1 .. StreamLimit) \cap Integrity(wal, Last))
    BY <1>1, <1>3, FS_Union
  <2>2. Cardinality((1 .. StreamLimit) \cap Integrity(wal, Last)) \in Nat
    BY <1>1, <1>3, FS_Subset, FS_CardinalityType
  <2> QED
    BY <1>0, <1>1, <1>2, <1>3, <2>1, <2>2
<1>6. 1 .. Last \in SUBSET S
  BY <1>0 DEF BudgetInv, StreamEarly, Integrity
<1>7. Cardinality(1 .. Last) <= Cardinality(S)
  BY <1>5, <1>6, FS_Subset
<1>8. Cardinality(S) \in Nat
  BY <1>5, FS_CardinalityType
<1> HIDE DEF S
<1> QED
  BY <1>0, <1>4, <1>5, <1>7, <1>8

\* No run of an earlier process is left open by the next launch, where a log has room
\* for its stream, its integrity records and the one that ends it (the reserve of
\* RUN_WAL_MAX_RECORDS over the limits of the stream).
THEOREM NoOrphanIsLeft ==
  ASSUME "accept_patch" \notin ClientKinds, "disk" \notin Failures,
         MaxIntegrity > 0, StreamLimit + MaxIntegrity < WalLimit
  PROVE  Spec => []OrphansClosed
<1>1. Init => BudgetInv
  <2> SUFFICES ASSUME Init PROVE BudgetInv
    OBVIOUS
  <2>1. Last = 0
    BY InitEmpty
  <2>2. \A n \in 0 .. Last : Integrity(wal, n) = {}
    BY <2>1 DEF Integrity
  <2>3. \A n \in 0 .. Last : Cardinality(Integrity(wal, n)) <= MaxIntegrity
    BY <2>2, FS_EmptySet, ConstantsAssumption
  <2> QED
    BY <2>1, <2>3 DEF BudgetInv, Budget, StreamEarly
<1>2. Ground /\ BudgetInv /\ [Next]_vars => BudgetInv'
  BY BudgetStep
<1>3. Ground /\ BudgetInv => ~Full
  BY RoomToEnd
<1> QED
  BY <1>1, <1>2, <1>3, OrphansAreClosedOrFull, Grounded, PTL DEF Spec
=============================================================================
