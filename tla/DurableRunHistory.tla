------------------------- MODULE DurableRunHistory -------------------------
(***************************************************************************)
(* Theorems about what the log of a durable run can say, for every value   *)
(* of DurableRun's constants: how a run ends, what its gates and its       *)
(* outcome are worth, that nothing durable reverts, and that the run       *)
(* implements its contract.  A step that matters here cuts the log,        *)
(* restates its last projection, or adds one record to it.                 *)
(***************************************************************************)
EXTENDS DurableRunProofs

-----------------------------------------------------------------------------
(* What one record does to a projection.                                   *)

\* Two projections that differ at most in their position and revision.
Alike(s, t) ==
  /\ s.status = t.status /\ s.outcome = t.outcome /\ s.gate = t.gate
  /\ s.decision = t.decision /\ s.ledger = t.ledger

\* The run has ended, with this outcome and no gate.
EndsWith(t, status, kind, changed) ==
  t.status = status /\ t.outcome = [kind |-> kind, changed |-> changed] /\ t.gate = NoGate

SameFate(s, t) == t.decision = s.decision /\ t.ledger = s.ledger

LEMMA StartEffect ==
  ASSUME NEW s \in Snapshot, NEW e \in Event, e.kind = "start"
  PROVE  /\ Project(s, e).status = "accepted" /\ Project(s, e).outcome = NoOutcome
         /\ Project(s, e).gate = NoGate /\ Project(s, e).decision = Absent.decision
         /\ Project(s, e).ledger = 0
BY DEF Project, ReduceCommand, CommandKinds, Absent

LEMMA AnswerEffect ==
  ASSUME NEW s \in Snapshot, NEW e \in Event, e.kind \in {"approve_plan", "answer"}
  PROVE  /\ Project(s, e).status = "executing" /\ Project(s, e).gate = NoGate
         /\ Project(s, e).outcome = s.outcome /\ SameFate(s, Project(s, e))
BY DEF Project, ReduceCommand, CommandKinds, PlanKinds, Snapshot, SameFate

LEMMA EndEffect ==
  ASSUME NEW s \in Snapshot, NEW e \in Event, e.kind \in {"reject_plan", "cancel"}
  PROVE  /\ SameFate(s, Project(s, e))
         /\ \/ e.kind = "reject_plan" /\ EndsWith(Project(s, e), "cancelled", "rejected", FALSE)
            \/ /\ e.kind = "cancel"
               /\ EndsWith(Project(s, e), "completed", "completed_with_warnings", AnyCommitted(s))
            \/ /\ e.kind = "cancel"
               /\ EndsWith(Project(s, e), "cancelled", "cancelled", AnyCommitted(s))
BY DEF Project, ReduceCommand, CommandKinds, PlanKinds, Snapshot, SameFate, EndsWith, Settle

LEMMA ResumeEffect ==
  ASSUME NEW s \in Snapshot, NEW e \in Event, e.kind = "resume"
  PROVE  /\ Project(s, e).status = "accepted" /\ Project(s, e).gate = NoGate
         /\ Project(s, e).outcome = NoOutcome /\ SameFate(s, Project(s, e))
BY DEF Project, ReduceCommand, CommandKinds, Snapshot, SameFate

LEMMA AcceptEffect ==
  ASSUME NEW s \in Snapshot, NEW e \in Event, e.kind = "accept_patch"
  PROVE  /\ Project(s, e).status = s.status /\ Project(s, e).gate = s.gate
         /\ Project(s, e).ledger = s.ledger
         /\ Project(s, e).decision = [s.decision EXCEPT ![e.patch] = "committed"]
BY DEF Project, ReduceCommand, CommandKinds, PatchKinds, Snapshot, Decide

LEMMA RejectEffect ==
  ASSUME NEW s \in Snapshot, NEW e \in Event, e.kind = "reject_patch"
  PROVE  /\ Project(s, e).status = s.status /\ Project(s, e).gate = s.gate
         /\ Project(s, e).outcome = s.outcome /\ Project(s, e).ledger = s.ledger
         /\ Project(s, e).decision = [s.decision EXCEPT ![e.patch] = "rejected"]
BY DEF Project, ReduceCommand, CommandKinds, PatchKinds, Snapshot, Decide

LEMMA SilentEffect ==
  ASSUME NEW s \in Snapshot, NEW e \in Event,
         e.kind \in {"steer", "editor_lifecycle", "effect"}
  PROVE  Alike(Project(s, e), s)
BY DEF Project, ReduceCommand, CommandKinds, PlanKinds, PatchKinds, Snapshot, Alike

LEMMA StreamEffect ==
  ASSUME NEW s \in Snapshot, NEW e \in Event, e.kind = "stream"
  PROVE  /\ Project(s, e).status = IF e.status = "none" THEN s.status ELSE e.status
         /\ Project(s, e).gate = s.gate /\ Project(s, e).outcome = s.outcome
         /\ SameFate(s, Project(s, e))
BY DEF Project, CommandKinds, PlanKinds, PatchKinds, Snapshot, SameFate

LEMMA GateEffect ==
  ASSUME NEW s \in Snapshot, NEW e \in Event, e.kind = "gate_opened"
  PROVE  /\ Project(s, e).status = e.status /\ Project(s, e).gate = e.gate
         /\ Project(s, e).outcome = s.outcome /\ SameFate(s, Project(s, e))
BY DEF Project, CommandKinds, PlanKinds, PatchKinds, Snapshot, SameFate

LEMMA TerminalEffect ==
  ASSUME NEW s \in Snapshot, NEW e \in Event, e.kind = "terminal"
  PROVE  /\ EndsWith(Project(s, e), e.status, e.outcome.kind, e.outcome.changed)
         /\ Project(s, e).outcome = e.outcome
         /\ SameFate(s, Project(s, e))
BY DEF Project, CommandKinds, PlanKinds, PatchKinds, Snapshot, SameFate, EndsWith, Settle,
       Event, Outcome

PatchDecision(now, kind) ==
  IF kind = "patch_stale" THEN "stale"
  ELSE IF kind = "patch_committed" THEN "committed"
  ELSE IF now = "none" THEN "pending" ELSE now

LEMMA PatchEffect ==
  ASSUME NEW s \in Snapshot, NEW e \in Event,
         e.kind \in {"patch_proposed", "patch_stale", "patch_committed"}
  PROVE  /\ Project(s, e).status = s.status /\ Project(s, e).gate = s.gate
         /\ Project(s, e).outcome = s.outcome /\ Project(s, e).ledger = s.ledger
         /\ Project(s, e).decision =
              [s.decision EXCEPT ![e.patch] = PatchDecision(s.decision[e.patch], e.kind)]
BY DEF Project, PatchLifecycle, CommandKinds, PlanKinds, PatchKinds, Snapshot, Decide,
       PatchDecision

-----------------------------------------------------------------------------
(* What a step does to the log: it leaves it, adds one record, restates    *)
(* the last projection, or cuts it.                                        *)

PatchEvents == {"patch_proposed", "patch_stale", "patch_committed"}

\* The record with which the stream, or the next launch, ends a run.
Concludes(e) ==
  /\ e.kind = "terminal" /\ ~HasEvent("terminal")
  /\ IF Settled(Now)
       THEN e.status = Now.status /\ e.outcome = Now.outcome
       ELSE /\ e.status \in Terminals
            /\ Compatible(e.status, e.outcome.kind)
            /\ e.outcome.changed => AutoCommitted \/ recon = "close_changed"

OpensGate(e) ==
  /\ e.kind = "gate_opened" /\ Now.gate = NoGate
  /\ \/ e.status = "awaiting_approval" /\ e.gate = [id |-> Last + 1, kind |-> "plan_approval"]
     \/ e.status = "awaiting_answer" /\ e.gate = [id |-> Last + 1, kind |-> "question"]

\* What may be recorded after the projection the log has reached.
Admissible(e) ==
  \/ Last = 0 /\ e.kind = "start"
  \/ /\ Last > 0
     /\ \/ e.kind \in ClientKinds /\ e \in Commands(e.kind) /\ Admits(Now, e)
        \/ e.kind \in {"editor_lifecycle", "effect"} /\ ~Settled(Now)
        \/ e.kind = "stream" /\ ~Settled(Now) /\ e.status \in StreamStatuses \cup {"none"}
        \/ OpensGate(e) /\ ~Settled(Now)
        \/ /\ e.kind \in PatchEvents /\ e.patch \in Patches
           /\ e.kind = "patch_committed" => Written(e.patch)
        \/ Concludes(e)

Same == wal' = wal /\ view' = view

Adds(e) ==
  /\ Admissible(e) /\ Last < WalLimit
  /\ Last' = Last + 1
  /\ \A i \in 1 .. Last : wal'[i] = wal[i] /\ view'[i] = view[i]
  /\ wal'[Last'] = e /\ view'[Last'] = Project(Now, e)

Amends(s) ==
  /\ Last > 0 /\ Last' = Last /\ wal' = wal
  /\ \A i \in 1 .. Last : view'[i] = IF i = Last THEN s ELSE view[i]
  /\ ~Settled(Now) /\ ~Settled(s)
  /\ s.outcome = Now.outcome /\ s.gate = Now.gate /\ s.decision = Now.decision
  /\ \/ s.status \in StreamStatuses /\ s.ledger = Now.ledger
     \/ s.status = Now.status /\ s.ledger \in 1 .. MaxLedger /\ s.ledger > Now.ledger

Cuts ==
  /\ \/ PowerLoss
     \/ Prune /\ fate = "kept" /\ Settled(snap) /\ fate' = "pruned" /\ Last' = 0
  /\ Last' \in 0 .. Last
  /\ \A i \in 1 .. Last' : wal'[i] = wal[i] /\ view'[i] = view[i]

LogStep ==
  \/ Same \/ Cuts
  \/ \E e \in Event : Adds(e)
  \/ \E s \in Snapshot : Amends(s)

\* A stream that can still record, and a run about to be closed, have a record.
Begun ==
  (/\ fate = "kept"
   /\ producer \in {"live", "stopping"} \/ recon \in {"close", "close_changed"}) => Last > 0

LEMMA NowIsMem ==
  ASSUME TypeOK, RecoveryInv, Current
  PROVE  mem = Now /\ Now \in Snapshot /\ (mem.seq > 0 <=> Last > 0) /\ fate = "kept"
BY CurrentIsBefore, LastNat DEF TypeOK, StoreOK, RecoveryInv, Now, Current

LEMMA AddsIt ==
  ASSUME TypeOK, RecoveryInv, NEW e \in Event, Current, Last < WalLimit,
         Follows(e, Project(mem, e)), Admissible(e)
  PROVE  LogStep
<1>1. mem = Now /\ mem \in Snapshot /\ mem.seq < WalLimit
  BY NowIsMem DEF Current
<1>2. Project(mem, e) \in Snapshot
  BY <1>1, ProjectType
<1>3. /\ Last' = Last + 1
      /\ \A i \in 1 .. Last : wal'[i] = wal[i] /\ view'[i] = view[i]
      /\ wal'[Last'] = e /\ view'[Last'] = Project(mem, e)
  BY <1>2, AppendLog DEF TypeOK
<1>4. Adds(e)
  BY <1>1, <1>3 DEF Adds
<1> QED
  BY <1>4 DEF LogStep

LEMMA RecordsIt ==
  ASSUME TypeOK, RecoveryInv, NEW e \in Event, Record(e), Admissible(e)
  PROVE  LogStep
<1>1. Current /\ Last < WalLimit /\ Follows(e, Project(mem, e))
  BY DEF Record, Follows
<1> QED
  BY <1>1, AddsIt

LEMMA AmendsIt ==
  ASSUME TypeOK, RecoveryInv, Current, mem.seq > 0, ~Settled(mem),
         NEW s \in Snapshot, wal' = wal, view' = [view EXCEPT ![Last] = s], ~Settled(s),
         s.outcome = mem.outcome, s.gate = mem.gate, s.decision = mem.decision,
         \/ s.status \in StreamStatuses /\ s.ledger = mem.ledger
         \/ s.status = mem.status /\ s.ledger \in 1 .. MaxLedger /\ s.ledger > mem.ledger
  PROVE  LogStep
<1>1. mem = Now /\ Last > 0
  BY NowIsMem
<1>2. /\ Last' = Last
      /\ \A i \in 1 .. Last : view'[i] = IF i = Last THEN s ELSE view[i]
  BY <1>1, RestateLog DEF Restated, TypeOK
<1>3. Amends(s)
  BY <1>1, <1>2 DEF Amends
<1> QED
  BY <1>3 DEF LogStep

LEMMA ClientLog == ASSUME TypeOK, RecoveryInv, Clients PROVE LogStep
<1>1. ASSUME NEW e \in Commands("start"), Start(e) PROVE LogStep
  <2>1. e \in Event /\ e.kind = "start"
    BY CommandType DEF CommandKinds
  <2>2. Record(e) /\ Admissible(e)
    BY <1>1, <2>1 DEF Start, Admissible
  <2> QED
    BY <2>1, <2>2, RecordsIt
<1>2. ASSUME NEW kind \in ClientKinds, NEW e \in Commands(kind), Command(e)
      PROVE  LogStep
  <2>1. kind \in CommandKinds
    BY ConstantsAssumption
  <2>2. e \in Event /\ e.kind = kind
    BY <2>1, CommandType
  <2>3. Record(e) /\ Current /\ mem.seq > 0 /\ Admits(mem, e)
    BY <1>2 DEF Command, Record
  <2>4. Last > 0 /\ Admits(Now, e)
    BY <2>3, NowIsMem
  <2>5. Admissible(e)
    BY <2>2, <2>4 DEF Admissible
  <2> QED
    BY <2>2, <2>3, <2>5, RecordsIt
<1> QED
  BY <1>1, <1>2 DEF Clients

LEMMA StoreLog == ASSUME TypeOK, Store PROVE LogStep
<1>1. UNCHANGED <<wal, view>>
  BY DEF Store, Save, SaveFails, Load, CatchUp, Persist, Evict, SaveNow
<1> QED
  BY <1>1 DEF LogStep, Same

LEMMA StreamEventType ==
  ASSUME NEW status \in StreamStatuses \cup {"none"}
  PROVE  LET e == [Blank("stream") EXCEPT !.status = status]
         IN  e \in Event /\ e.kind = "stream" /\ e.status = status
<1>1. status \in Statuses
  BY ConstantsAssumption DEF Statuses
<1> QED
  BY <1>1, BlankType DEF Blank, Event, RuntimeKinds

LEMMA StreamLog == ASSUME TypeOK, RecoveryInv, Begun, Stream PROVE LogStep
<1> USE DEF TypeOK
<1>1. CASE Attach \/ StopPublishing \/ SettleRefused
  BY <1>1 DEF Attach, StopPublishing, SettleRefused, disk, LogStep, Same
<1>2. CASE EditorLifecycle
  <2> DEFINE e == Blank("editor_lifecycle")
  <2>1. e \in Event /\ e.kind = "editor_lifecycle"
    BY BlankType DEF RuntimeKinds, Blank
  <2>2. /\ Current /\ Last < WalLimit /\ Follows(e, Project(mem, e))
        /\ mem.seq > 0 /\ ~Settled(mem)
    BY <1>2 DEF EditorLifecycle, Follows
  <2> HIDE DEF e
  <2>3. Admissible(e)
    BY <2>1, <2>2, NowIsMem DEF Admissible
  <2> QED
    BY <2>1, <2>2, <2>3, AddsIt
<1>3. CASE RuntimeEffect
  <2> DEFINE e == Blank("effect")
  <2>1. e \in Event /\ e.kind = "effect"
    BY BlankType DEF RuntimeKinds, Blank
  <2>2. Record(e) /\ Current /\ mem.seq > 0 /\ ~Settled(mem)
    BY <1>3 DEF RuntimeEffect, Record
  <2> HIDE DEF e
  <2>3. Admissible(e)
    BY <2>1, <2>2, NowIsMem DEF Admissible
  <2> QED
    BY <2>1, <2>2, <2>3, RecordsIt
<1>4. ASSUME NEW status \in StreamStatuses \cup {"none"}, NEW optional \in BOOLEAN,
             RecordStream(status, optional)
      PROVE  LogStep
  <2> DEFINE e == [Blank("stream") EXCEPT !.status = status]
  <2>1. e \in Event /\ e.kind = "stream" /\ e.status = status
    BY StreamEventType
  <2>2. Follows(e, Project(mem, e))
    BY <1>4 DEF RecordStream, Follows
  <2> HIDE DEF e
  <2>3. Current /\ mem.seq > 0 /\ ~Settled(mem)
    BY <1>4 DEF RecordStream, Streaming
  <2>4. Last < WalLimit
    BY <1>4, LastNat, ConstantsAssumption DEF RecordStream
  <2>5. Admissible(e)
    BY <2>1, <2>3, NowIsMem DEF Admissible
  <2> QED
    BY <2>1, <2>2, <2>3, <2>4, <2>5, AddsIt
<1>5. ASSUME NEW status \in StreamStatuses, SkipStream(status) PROVE LogStep
  <2> DEFINE s == [mem EXCEPT !.status = status]
  <2>1. status \in Statuses \ Terminals
    BY ConstantsAssumption DEF Statuses, Working, Terminals
  <2>2. /\ s \in Snapshot /\ ~Settled(s) /\ s.status = status
        /\ s.outcome = mem.outcome /\ s.gate = mem.gate /\ s.decision = mem.decision
        /\ s.ledger = mem.ledger
    BY <2>1 DEF StoreOK, Snapshot, Settled
  <2>3. /\ Current /\ mem.seq > 0 /\ ~Settled(mem) /\ SaveNow(s)
        /\ view' = [view EXCEPT ![Last] = snap']
    BY <1>5 DEF SkipStream, Streaming
  <2> HIDE DEF s
  <2>4. wal' = wal /\ view' = [view EXCEPT ![Last] = s]
    BY <2>3 DEF SaveNow, SaveSnapshot
  <2> QED
    BY <2>2, <2>3, <2>4, AmendsIt
<1>6. ASSUME NEW version \in 1 .. MaxLedger, FoldLedger(version) PROVE LogStep
  <2> DEFINE s == [mem EXCEPT !.ledger = version]
  <2>1. version \in 0 .. MaxLedger
    BY ConstantsAssumption
  <2>2. /\ s \in Snapshot /\ s.status = mem.status /\ s.ledger = version
        /\ s.outcome = mem.outcome /\ s.gate = mem.gate /\ s.decision = mem.decision
    BY <2>1 DEF StoreOK, Snapshot
  <2>3. /\ Current /\ mem.seq > 0 /\ ~Settled(mem) /\ SaveNow(s) /\ version > mem.ledger
        /\ view' = [view EXCEPT ![Last] = snap']
    BY <1>6 DEF FoldLedger, Streaming
  <2> HIDE DEF s
  <2>4. wal' = wal /\ view' = [view EXCEPT ![Last] = s] /\ ~Settled(s)
    BY <2>2, <2>3 DEF SaveNow, SaveSnapshot, Settled
  <2> QED
    BY <2>2, <2>3, <2>4, AmendsIt
<1>7. ASSUME NEW kind \in GateKinds, OpenGate(kind) PROVE LogStep
  <2> DEFINE e == [Blank("gate_opened") EXCEPT
       !.status = IF kind = "plan_approval" THEN "awaiting_approval" ELSE "awaiting_answer",
       !.gate = [id |-> Last + 1, kind |-> kind]]
  <2>1. /\ Record(e) /\ Current /\ mem.seq > 0 /\ ~Settled(mem) /\ mem.gate = NoGate
    BY <1>7 DEF OpenGate, Streaming
  <2>2. Last + 1 \in 0 .. WalLimit
    BY <2>1, LastNat, ConstantsAssumption DEF Record
  <2>3. [id |-> Last + 1, kind |-> kind] \in Gate
    BY <2>2 DEF Gate
  <2>4. e \in Event
    BY <2>3, BlankType DEF Blank, Event, RuntimeKinds, Statuses, Working
  <2>5. /\ e.kind = "gate_opened" /\ e.gate = [id |-> Last + 1, kind |-> kind]
        /\ e.status = IF kind = "plan_approval" THEN "awaiting_approval" ELSE "awaiting_answer"
    BY DEF Blank
  <2> HIDE DEF e
  <2>6. OpensGate(e)
    BY <2>1, <2>5, NowIsMem DEF OpensGate, GateKinds
  <2>7. Admissible(e)
    BY <2>1, <2>6, NowIsMem DEF Admissible
  <2> QED
    BY <2>1, <2>4, <2>7, RecordsIt
<1>8. ASSUME NEW p \in Patches, WritePatch(p) PROVE LogStep
  BY <1>8 DEF WritePatch, disk, LogStep, Same
<1>9. ASSUME NEW p \in Patches, NEW rev \in (0 .. MaxRevision) \cup {NoRevision},
             ProposePatch(p, rev) \/ RecordCommitted(p, rev) \/ RecordStale(p, rev)
      PROVE  LogStep
  <2>1. PICK kind \in PatchEvents :
          /\ Record(PatchEvent(kind, p, rev))
          /\ kind = "patch_committed" => verdict[p] = "written"
    BY <1>9 DEF ProposePatch, RecordCommitted, RecordStale, PatchEvents
  <2>2. kind \in RuntimeKinds
    BY DEF RuntimeKinds, PatchEvents
  <2> DEFINE e == PatchEvent(kind, p, rev)
  <2>3. e \in Event /\ e.kind = kind /\ e.patch = p
    BY <2>2, PatchEventType
  <2> HIDE DEF e
  <2>4. producer = "live" /\ Current
    BY <1>9, <2>1 DEF ProposePatch, RecordCommitted, RecordStale, Streaming, Record
  <2>5. Last > 0
    BY <2>4, NowIsMem DEF Begun
  <2>6. Admissible(e)
    BY <2>1, <2>3, <2>5 DEF Admissible, Written
  <2> QED
    BY <2>1, <2>3, <2>6, RecordsIt DEF e
<1>10. ASSUME NEW settlement \in Settlements, Complete(settlement) PROVE LogStep
  <2> DEFINE e == TerminalEvent(settlement.status, settlement.kind, AutoCommitted)
  <2>1. /\ settlement.status \in Terminals /\ settlement.kind \in OutcomeKinds
        /\ Compatible(settlement.status, settlement.kind)
    BY DEF Settlements, Terminals, OutcomeKinds, Compatible
  <2>2. AutoCommitted \in BOOLEAN
    BY DEF AutoCommitted
  <2>3. Record(e) /\ Current /\ mem.seq > 0 /\ ~HasEvent("terminal")
    BY <1>10 DEF Complete, StreamEnded, Record
  <2>4. e \in Event
    BY <2>1, <2>2, TerminalEventType DEF StoreOK, Statuses
  <2>5. /\ e.kind = "terminal"
        /\ e.status = IF Settled(mem) THEN mem.status ELSE settlement.status
        /\ e.outcome = IF Settled(mem) THEN mem.outcome
                       ELSE [kind |-> settlement.kind, changed |-> AutoCommitted]
    BY DEF TerminalEvent, Blank
  <2> HIDE DEF e
  <2>6. Concludes(e)
    BY <2>1, <2>3, <2>5, NowIsMem DEF Concludes
  <2>7. Admissible(e)
    BY <2>3, <2>6, NowIsMem DEF Admissible
  <2> QED
    BY <2>3, <2>4, <2>7, RecordsIt
<1> QED
  BY <1>1, <1>2, <1>3, <1>4, <1>5, <1>6, <1>7, <1>8, <1>9, <1>10 DEF Stream

LEMMA ReconcileLog == ASSUME TypeOK, RecoveryInv, Begun, Reconcile PROVE LogStep
<1> USE DEF TypeOK
<1>1. CASE ReconcileSkip \/ ReconcileFails \/ ReconcileLook
  BY <1>1 DEF ReconcileSkip, ReconcileFails, ReconcileLook, SaveNow, disk, LogStep, Same
<1>2. CASE ReconcileClose
  <2> DEFINE e == TerminalEvent("failed", "interrupted", recon = "close_changed")
  <2>1. e \in Event
    BY TerminalEventType DEF StoreOK, Statuses, Terminals, OutcomeKinds
  <2>2. Record(e) /\ Current /\ ~HasEvent("terminal") /\ recon \in {"close", "close_changed"}
    BY <1>2 DEF ReconcileClose, Record
  <2>3. /\ e.kind = "terminal"
        /\ e.status = IF Settled(mem) THEN mem.status ELSE "failed"
        /\ e.outcome = IF Settled(mem) THEN mem.outcome
                       ELSE [kind |-> "interrupted", changed |-> recon = "close_changed"]
    BY DEF TerminalEvent, Blank
  <2> HIDE DEF e
  <2>4. Last > 0 /\ mem = Now
    BY <2>2, NowIsMem DEF Begun
  <2>5. Concludes(e)
    <3>1. CASE Settled(mem)
      BY <2>2, <2>3, <2>4, <3>1 DEF Concludes
    <3>2. CASE ~Settled(mem)
      <4>1. /\ e.status = "failed" /\ e.outcome.kind = "interrupted"
            /\ e.outcome.changed = (recon = "close_changed")
        BY <2>3, <3>2
      <4>2. "failed" \in Terminals /\ Compatible("failed", "interrupted")
        BY DEF Compatible, Terminals
      <4> QED
        BY <2>2, <2>3, <2>4, <3>2, <4>1, <4>2 DEF Concludes
    <3> QED
      BY <3>1, <3>2
  <2>6. Admissible(e)
    BY <2>4, <2>5 DEF Admissible
  <2> QED
    BY <2>1, <2>2, <2>6, RecordsIt
<1> QED
  BY <1>1, <1>2 DEF Reconcile

LEMMA FailureLog ==
  ASSUME TypeOK, Crash \/ PowerLoss \/ AppendFails \/ Prune PROVE LogStep
<1>1. CASE Crash \/ AppendFails
  BY <1>1 DEF Crash, AppendFails, LogStep, Same
<1>2. CASE PowerLoss
  <2>1. PICK n \in synced .. Last : CutAt(n)
    BY <1>2 DEF PowerLoss, CutAt
  <2>2. n \in 0 .. Last
    BY LastNat DEF TypeOK, StoreOK
  <2>3. Cuts
    BY <1>2, <2>1, <2>2, CutLog DEF Cuts, TypeOK
  <2> QED
    BY <2>3 DEF LogStep
<1>3. CASE Prune
  <2>1. CASE UNCHANGED <<disk, loaded, mem, saving, view>>
    BY <2>1 DEF disk, LogStep, Same
  <2>2. CASE Settled(snap) /\ fate' = "pruned" /\ wal' = <<>> /\ view' = <<>>
    <3>1. Len(<<>>) = 0
      BY EmptySeq
    <3>2. Last' = 0
      BY <2>2, <3>1, Zenon DEF Last
    <3>3. Last' \in 0 .. Last /\ fate = "kept"
      BY <1>3, <3>2, LastNat, ConstantsAssumption DEF TypeOK, Prune
    <3>4. Cuts
      BY <1>3, <2>2, <3>2, <3>3 DEF Cuts
    <3> QED
      BY <3>4 DEF LogStep
  <2> QED
    BY <1>3, <2>1, <2>2 DEF Prune
<1> QED
  BY <1>1, <1>2, <1>3

LEMMA NextIsLogStep ==
  ASSUME TypeOK, RecoveryInv, Begun, [Next]_vars PROVE LogStep
<1>1. CASE UNCHANGED vars
  BY <1>1 DEF vars, LogStep, Same
<1> QED
  BY <1>1, ClientLog, StoreLog, StreamLog, ReconcileLog, FailureLog DEF Next

Alive == producer \in {"live", "stopping"}
Closing == recon \in {"close", "close_changed"}

\* A stream is attached, and a run found open, only when it has a record.
LEMMA HostMoves ==
  ASSUME [Next]_vars
  PROVE  /\ fate' = "kept" => fate = "kept"
         /\ Alive' => Alive \/ (Current /\ mem.seq > 0)
         /\ Closing' => Closing \/ (Current /\ mem.seq # 0)
         /\ (Crash \/ PowerLoss) => ~Alive' /\ ~Closing'
<1> USE DEF Alive, Closing
<1>1. CASE Clients
  BY <1>1 DEF Clients, Start, Command, Record, Crash, PowerLoss, Restart
<1>2. CASE Store
  BY <1>2 DEF Store, Save, SaveFails, Load, CatchUp, Persist, Evict, SaveNow, Crash,
     PowerLoss, Restart
<1>3. CASE Stream
  BY <1>3 DEF Stream, Attach, EditorLifecycle, RuntimeEffect, StopPublishing, SettleRefused,
     RecordStream, SkipStream, FoldLedger, OpenGate, WritePatch, ProposePatch,
     RecordCommitted, RecordStale, Complete, Record, SaveNow, disk, Crash, PowerLoss, Restart
<1>4. CASE Reconcile
  BY <1>4 DEF Reconcile, ReconcileSkip, ReconcileLook, ReconcileClose, ReconcileFails,
     Record, SaveNow, disk, Crash, PowerLoss, Restart
<1>5. CASE Crash \/ PowerLoss \/ AppendFails
  BY <1>5 DEF Crash, PowerLoss, AppendFails, Restart
<1>6. CASE Prune
  BY <1>6 DEF Prune, disk, Crash, PowerLoss, Restart
<1>7. CASE UNCHANGED vars
  BY <1>7 DEF vars, Crash, PowerLoss, Restart
<1> QED
  BY <1>1, <1>2, <1>3, <1>4, <1>5, <1>6, <1>7 DEF Next

LEMMA BegunStep ==
  ASSUME TypeOK, RecoveryInv, Begun, [Next]_vars PROVE Begun'
<1>0. Last \in Nat
  BY LastNat DEF TypeOK
<1>1. CASE Same
  <2>1. Last' = Last
    BY <1>1 DEF Same, Last
  <2>2. Current /\ mem.seq # 0 => Last > 0
    BY <1>0 DEF Current
  <2>3. Current /\ mem.seq > 0 => Last > 0
    BY <1>0 DEF Current
  <2> QED
    BY <2>1, <2>2, <2>3, HostMoves DEF Begun, Alive, Closing
<1>2. CASE Cuts
  BY <1>2, HostMoves DEF Cuts, Begun, Alive, Closing
<1>3. CASE Last' > 0
  BY <1>3 DEF Begun
<1>4. (\E e \in Event : Adds(e)) \/ (\E s \in Snapshot : Amends(s)) => Last' > 0
  BY <1>0 DEF Adds, Amends
<1> QED
  BY <1>1, <1>2, <1>3, <1>4, NextIsLogStep DEF LogStep

\* What the lemmas below are about: a well-typed run whose recovery is exact.
Ground == TypeOK /\ RecoveryInv /\ Begun

THEOREM Grounded == Spec => []Ground
<1>1. Init => RecoveryInv /\ Begun
  <2> SUFFICES ASSUME Init PROVE RecoveryInv /\ Begun
    OBVIOUS
  <2>1. snap = Absent /\ mem = Absent /\ saving = Absent /\ producer = "idle" /\ recon = "done"
    BY DEF Init
  <2> QED
    BY <2>1, InitEmpty DEF RecoveryInv, RecoveryAgrees, Absent, Begun
<1>2. TypeOK /\ RecoveryInv /\ Begun /\ [Next]_vars => RecoveryInv' /\ Begun'
  BY NextIsStoreStep, StoreStepPositions, StoreStepAgrees, BegunStep DEF TypeOK, RecoveryInv
<1> QED
  BY <1>1, <1>2, TypeCorrect, PTL DEF Spec, Ground

-----------------------------------------------------------------------------
(* How a run ends.                                                         *)

LEMMA NowType ==
  ASSUME StoreOK
  PROVE  /\ Now \in Snapshot /\ (Last > 0 => Now = view[Last])
         /\ \A i \in 1 .. Last : wal[i] \in Event /\ view[i] \in Snapshot
<1>1. Last \in Nat /\ Last = Len(view) /\ Last = Len(wal)
  BY LastNat, ConstantsAssumption DEF StoreOK, Last
<1>2. \A i \in 1 .. Last : wal[i] \in Event /\ view[i] \in Snapshot
  BY <1>1, ElementOfSeq DEF StoreOK
<1> QED
  BY <1>1, <1>2, AbsentType DEF Now

AfterEnd == PatchKinds \cup PatchEvents \cup {"terminal"}

\* Once a run has ended, what is still recorded keeps its status and, but for an
\* accepted patch, its outcome, and opens no gate.
LEMMA EndedStays ==
  ASSUME StoreOK, Last > 0, Settled(Now), NEW e \in Event, Admissible(e)
  PROVE  /\ e.kind \in AfterEnd
         /\ Project(Now, e).status = Now.status
         /\ e.kind # "accept_patch" => Project(Now, e).outcome = Now.outcome
         /\ Project(Now, e).gate \in {Now.gate, NoGate}
<1> USE DEF AfterEnd
<1>0. Now \in Snapshot
  BY NowType
<1>1. CASE e.kind \in ClientKinds /\ Admits(Now, e)
  <2>1. e.kind # "resume"
    BY <1>1 DEF Admits, Settled, Terminals
  <2>2. e.kind \in PatchKinds
    BY <1>1, <2>1 DEF Admits
  <2> QED
    BY <1>0, <2>2, AcceptEffect, RejectEffect DEF PatchKinds
<1>2. CASE e.kind \in PatchEvents
  BY <1>0, <1>2, PatchEffect DEF PatchEvents
<1>3. CASE Concludes(e)
  BY <1>0, <1>3, TerminalEffect DEF Concludes, EndsWith
<1> QED
  BY <1>1, <1>2, <1>3 DEF Admissible

LEMMA EndingStandsStep ==
  ASSUME Ground, FirstEndingStands, [Next]_vars PROVE FirstEndingStands'
<1> USE DEF FirstEndingStands
<1>0. StoreOK /\ Last \in Nat
  BY LastNat, ConstantsAssumption DEF Ground, TypeOK
<1>1. CASE Same
  BY <1>1 DEF Same, Last
<1>2. CASE Cuts
  <2> SUFFICES ASSUME NEW i \in 1 .. Last', NEW j \in 1 .. Last', i < j, Settled(view'[i])
               PROVE  /\ view'[j].status = view'[i].status
                      /\ (\A k \in i + 1 .. j : wal'[k].kind # "accept_patch") =>
                           view'[j].outcome = view'[i].outcome
    OBVIOUS
  <2>1. i \in 1 .. Last /\ j \in 1 .. Last /\ \A k \in i + 1 .. j : k \in 1 .. Last'
    BY <1>0, <1>2 DEF Cuts
  <2>2. view'[i] = view[i] /\ view'[j] = view[j] /\ \A k \in i + 1 .. j : wal'[k] = wal[k]
    BY <1>2, <2>1 DEF Cuts
  <2> QED
    BY <2>1, <2>2
<1>3. ASSUME NEW s \in Snapshot, Amends(s) PROVE FirstEndingStands'
  <2>1. \A i \in 1 .. Last : i < Last => ~Settled(view[i])
    BY <1>0, <1>3, NowType DEF Amends, Settled
  <2> QED
    BY <1>0, <1>3, <2>1 DEF Amends
<1>4. ASSUME NEW e \in Event, Adds(e) PROVE FirstEndingStands'
  <2>1. /\ Last' = Last + 1 /\ wal'[Last'] = e /\ view'[Last'] = Project(Now, e)
        /\ \A i \in 1 .. Last : wal'[i] = wal[i] /\ view'[i] = view[i]
        /\ Admissible(e)
    BY <1>4 DEF Adds
  <2> SUFFICES ASSUME NEW i \in 1 .. Last', NEW j \in 1 .. Last', i < j, Settled(view'[i])
               PROVE  /\ view'[j].status = view'[i].status
                      /\ (\A k \in i + 1 .. j : wal'[k].kind # "accept_patch") =>
                           view'[j].outcome = view'[i].outcome
    OBVIOUS
  <2>2. i \in 1 .. Last /\ view'[i] = view[i] /\ Last > 0
    BY <1>0, <2>1
  <2>3. CASE j \in 1 .. Last
    <3>1. view'[j] = view[j] /\ \A k \in i + 1 .. j : wal'[k] = wal[k]
      BY <1>0, <2>1, <2>3
    <3> QED
      BY <2>2, <2>3, <3>1
  <2>4. CASE j = Last'
    <3>1. /\ Now.status = view[i].status
          /\ (\A k \in i + 1 .. Last : wal[k].kind # "accept_patch") =>
               Now.outcome = view[i].outcome
      BY <1>0, <2>2, NowType
    <3>2. Settled(Now)
      BY <2>2, <3>1 DEF Settled
    <3>3. /\ view'[j].status = Now.status
          /\ wal'[j].kind # "accept_patch" => view'[j].outcome = Now.outcome
      BY <1>0, <2>1, <2>2, <2>4, <3>2, EndedStays
    <3>4. (\A k \in i + 1 .. j : wal'[k].kind # "accept_patch") =>
            /\ wal'[j].kind # "accept_patch"
            /\ \A k \in i + 1 .. Last : wal[k].kind # "accept_patch"
      BY <1>0, <2>1, <2>2, <2>4
    <3> QED
      BY <2>2, <3>1, <3>3, <3>4
  <2> QED
    BY <1>0, <2>1, <2>3, <2>4
<1> QED
  BY <1>1, <1>2, <1>3, <1>4, NextIsLogStep DEF Ground, LogStep

\* The first ending of a run stands, for any number of clients, patches, crashes and
\* losses of power: neither the provider's teardown nor the reconciliation of a later
\* launch replaces it (completeUnlocked keeps what the client decided).
THEOREM FirstEndingIsKept == Spec => []FirstEndingStands
<1>1. Init => FirstEndingStands
  BY InitEmpty DEF FirstEndingStands
<1> QED
  BY <1>1, EndingStandsStep, Grounded, PTL DEF Spec

LEMMA KindsApart ==
  /\ ClientKinds \subseteq CommandKinds \ {"start"}
  /\ CommandKinds \cap (PatchEvents \cup {"terminal", "stream", "gate_opened",
                                           "editor_lifecycle", "effect"}) = {}
BY ConstantsAssumption DEF CommandKinds, PlanKinds, PatchKinds, PatchEvents

\* A run that has ended once has ended at the end of its log.
LEMMA EndedNow ==
  ASSUME StoreOK, FirstEndingStands, NEW i \in 1 .. Last, Settled(view[i])
  PROVE  Last > 0 /\ Settled(Now)
<1>1. Last \in Nat
  BY LastNat, ConstantsAssumption
<1> QED
  BY <1>1, NowType DEF FirstEndingStands, Settled

LEMMA ClosedStep ==
  ASSUME Ground, FirstEndingStands, ClosedLog, [Next]_vars PROVE ClosedLog'
<1> USE DEF ClosedLog
<1>0. StoreOK /\ Last \in Nat
  BY LastNat, ConstantsAssumption DEF Ground, TypeOK
<1>1. CASE Same
  BY <1>1 DEF Same, Last
<1>2. CASE Cuts
  <2>1. Last' \in Nat /\ Last' <= Last
    BY <1>0, <1>2 DEF Cuts
  <2>2. \A i \in 1 .. Last' : i \in 1 .. Last /\ wal'[i] = wal[i] /\ view'[i] = view[i]
    BY <1>0, <1>2, <2>1 DEF Cuts
  <2> QED
    BY <2>1, <2>2
<1>3. ASSUME NEW s \in Snapshot, Amends(s) PROVE ClosedLog'
  <2>1. \A i \in 1 .. Last : i < Last => view'[i] = view[i]
    BY <1>3 DEF Amends
  <2>2. \A i, j \in 1 .. Last : i < j => i < Last
    BY <1>0
  <2> QED
    BY <1>3, <2>1, <2>2 DEF Amends
<1>4. ASSUME NEW e \in Event, Adds(e) PROVE ClosedLog'
  <2>1. /\ Last' = Last + 1 /\ wal'[Last'] = e
        /\ \A i \in 1 .. Last : wal'[i] = wal[i] /\ view'[i] = view[i]
        /\ Admissible(e)
    BY <1>4 DEF Adds
  <2> SUFFICES ASSUME NEW i \in 1 .. Last', NEW j \in 1 .. Last', i < j, Settled(view'[i])
               PROVE  /\ wal'[j].kind \in AfterEnd
                      /\ wal'[i].kind = "terminal" => wal'[j].kind # "terminal"
    BY DEF AfterEnd, PatchEvents
  <2>2. i \in 1 .. Last /\ view'[i] = view[i] /\ wal'[i] = wal[i]
    BY <1>0, <2>1
  <2>3. CASE j \in 1 .. Last
    BY <2>1, <2>2, <2>3 DEF AfterEnd, PatchEvents
  <2>4. CASE j = Last'
    <3>1. Last > 0 /\ Settled(Now)
      BY <1>0, <2>2, EndedNow
    <3>2. e.kind \in AfterEnd
      BY <1>0, <2>1, <3>1, EndedStays
    <3>3. e.kind = "terminal" => ~HasEvent("terminal")
      <4>1. e.kind = "terminal" => Concludes(e)
        BY <2>1, <3>1, KindsApart DEF Admissible, PatchEvents, OpensGate
      <4> QED
        BY <4>1 DEF Concludes
    <3>4. wal[i].kind = "terminal" => HasEvent("terminal")
      BY <2>2 DEF HasEvent
    <3> QED
      BY <2>1, <2>2, <2>4, <3>2, <3>3, <3>4
  <2> QED
    BY <1>0, <2>1, <2>3, <2>4
<1> QED
  BY <1>1, <1>2, <1>3, <1>4, NextIsLogStep DEF Ground, LogStep

\* The log of a run that has ended is closed, whatever the stream still says, a client
\* sends or a later launch reconciles (recordStream and acceptUnlocked on a settled run).
THEOREM EndedLogIsClosed == Spec => []ClosedLog
<1>1. Init => ClosedLog
  BY InitEmpty DEF ClosedLog
<1> QED
  BY <1>1, ClosedStep, FirstEndingIsKept, Grounded, PTL DEF Spec

-----------------------------------------------------------------------------
(* Gates.                                                                  *)

Closers == PlanKinds \cup {"answer", "gate_opened", "cancel", "resume", "terminal"}

\* The gate a projection waits at was opened, and nothing has closed it since.
OpenedIn(log, g, i) ==
  \E j \in 1 .. i :
    /\ log[j].kind = "gate_opened" /\ log[j].gate = g
    /\ \A k \in j + 1 .. i : log[k].kind \notin Closers

GatesOpened == \A i \in 1 .. Last : view[i].gate # NoGate => OpenedIn(wal, view[i].gate, i)

GateInv == GatesOpened /\ GateAnsweredOnce

\* A record that leaves a gate open either opens it, or closes none.
LEMMA GateEffects ==
  ASSUME NEW s \in Snapshot, NEW e \in Event, Project(s, e).gate # NoGate, Admissible(e)
  PROVE  \/ e.kind = "gate_opened" /\ Project(s, e).gate = e.gate
         \/ e.kind \notin Closers /\ Project(s, e).gate = s.gate
<1> USE DEF Closers, PlanKinds
<1>1. CASE e.kind \in {"start", "approve_plan", "answer", "reject_plan", "cancel", "resume"}
  <2>1. e.kind \in {"start", "approve_plan", "answer", "resume"} => Project(s, e).gate = NoGate
    BY StartEffect, AnswerEffect, ResumeEffect
  <2>2. e.kind \in {"reject_plan", "cancel"} => Project(s, e).gate = NoGate
    BY EndEffect DEF EndsWith
  <2> QED
    BY <1>1, <2>1, <2>2
<1>2. CASE e.kind \in {"accept_patch", "reject_patch"}
  BY <1>2, AcceptEffect, RejectEffect
<1>3. CASE e.kind \in {"steer", "editor_lifecycle", "effect"}
  BY <1>3, SilentEffect DEF Alike
<1>4. CASE e.kind \in {"stream", "gate_opened", "terminal"}
  BY <1>4, StreamEffect, GateEffect, TerminalEffect DEF EndsWith
<1>5. CASE e.kind \in PatchEvents
  BY <1>5, PatchEffect DEF PatchEvents
<1>6. \/ e.kind \in CommandKinds \cup PatchEvents
      \/ e.kind \in {"stream", "gate_opened", "terminal", "editor_lifecycle", "effect"}
  BY KindsApart DEF Admissible, OpensGate, Concludes, CommandKinds
<1> QED
  BY <1>1, <1>2, <1>3, <1>4, <1>5, <1>6 DEF CommandKinds, PatchKinds

LEMMA GateStep ==
  ASSUME Ground, GateInv, [Next]_vars PROVE GateInv'
<1> USE DEF GateInv
<1>0. StoreOK /\ Last \in Nat
  BY LastNat, ConstantsAssumption DEF Ground, TypeOK
\* Where the log keeps its records, an open gate stays open and an answer answered.
<1>keep. ASSUME NEW n \in 0 .. Last, \A i \in 1 .. n : wal'[i] = wal[i]
         PROVE  /\ \A g : \A i \in 1 .. n : OpenedIn(wal, g, i) => OpenedIn(wal', g, i)
                /\ \A i \in 1 .. n : wal'[i].kind \in PlanKinds \cup {"answer"} =>
                     OpenedIn(wal', wal'[i].gate, i - 1)
  <2>1. ASSUME NEW g, NEW i \in 0 .. n, OpenedIn(wal, g, i) PROVE OpenedIn(wal', g, i)
    <3>1. PICK j \in 1 .. i :
            /\ wal[j].kind = "gate_opened" /\ wal[j].gate = g
            /\ \A k \in j + 1 .. i : wal[k].kind \notin Closers
      BY <2>1 DEF OpenedIn
    <3>2. j \in 1 .. n /\ \A k \in j + 1 .. i : k \in 1 .. n
      BY <1>0
    <3> QED
      BY <1>keep, <3>1, <3>2 DEF OpenedIn
  <2>2. ASSUME NEW i \in 1 .. n, wal'[i].kind \in PlanKinds \cup {"answer"}
        PROVE  OpenedIn(wal', wal'[i].gate, i - 1)
    <3>1. i \in 1 .. Last /\ i - 1 \in 0 .. n /\ wal'[i] = wal[i]
      BY <1>0, <1>keep
    <3>2. OpenedIn(wal, wal[i].gate, i - 1)
      BY <2>2, <3>1 DEF GateAnsweredOnce, OpenedIn, Closers
    <3> QED
      BY <2>1, <3>1, <3>2
  <2>3. \A i \in 1 .. n : i \in 0 .. n
    BY <1>0
  <2> QED
    BY <2>1, <2>2, <2>3
<1>as. GateAnsweredOnce' <=>
         \A i \in 1 .. Last' : wal'[i].kind \in PlanKinds \cup {"answer"} =>
           OpenedIn(wal', wal'[i].gate, i - 1)
  BY DEF GateAnsweredOnce, OpenedIn, Closers
<1>1. CASE Same
  BY <1>1 DEF Same, Last, GatesOpened, GateAnsweredOnce, OpenedIn
<1>2. CASE Cuts
  <2>1. Last' \in 0 .. Last /\ \A i \in 1 .. Last' : wal'[i] = wal[i] /\ view'[i] = view[i]
    BY <1>2 DEF Cuts
  <2>2. \A i \in 1 .. Last' : i \in 1 .. Last
    BY <1>0, <2>1
  <2>3. GateAnsweredOnce'
    BY <1>keep, <1>as, <2>1
  <2>4. GatesOpened'
    BY <1>keep, <2>1, <2>2 DEF GatesOpened
  <2> QED
    BY <2>3, <2>4
<1>3. ASSUME NEW s \in Snapshot, Amends(s) PROVE GateInv'
  <2>1. Last' = Last /\ wal' = wal /\ Last \in 0 .. Last
    BY <1>0, <1>3 DEF Amends
  <2>2. \A i \in 1 .. Last : view'[i].gate = view[i].gate
    BY <1>0, <1>3, NowType DEF Amends
  <2>3. GateAnsweredOnce'
    BY <1>keep, <1>as, <2>1
  <2>4. GatesOpened'
    BY <1>keep, <2>1, <2>2 DEF GatesOpened
  <2> QED
    BY <2>3, <2>4
<1>4. ASSUME NEW e \in Event, Adds(e) PROVE GateInv'
  <2>1. /\ Last' = Last + 1 /\ wal'[Last'] = e /\ view'[Last'] = Project(Now, e)
        /\ \A i \in 1 .. Last : wal'[i] = wal[i] /\ view'[i] = view[i]
        /\ Admissible(e) /\ Last \in 0 .. Last
    BY <1>0, <1>4 DEF Adds
  <2>2. Now.gate # NoGate => Last > 0 /\ OpenedIn(wal', Now.gate, Last)
    <3> SUFFICES ASSUME Now.gate # NoGate PROVE Last > 0 /\ OpenedIn(wal', Now.gate, Last)
      OBVIOUS
    <3>1. Last > 0
      BY <1>0 DEF Now, Absent
    <3>2. OpenedIn(wal, Now.gate, Last)
      BY <1>0, <3>1, NowType DEF GatesOpened
    <3>3. Last \in 1 .. Last /\ \A i \in 1 .. Last : wal'[i] = wal[i]
      BY <1>0, <2>1, <3>1
    <3>4. OpenedIn(wal, Now.gate, Last) => OpenedIn(wal', Now.gate, Last)
      BY <1>keep, <2>1, <3>3
    <3> QED
      BY <3>1, <3>2, <3>4
  <2>3. GatesOpened'
    <3> SUFFICES ASSUME NEW i \in 1 .. Last', view'[i].gate # NoGate
                 PROVE  OpenedIn(wal', view'[i].gate, i)
      BY DEF GatesOpened
    <3>1. CASE i \in 1 .. Last
      BY <1>keep, <2>1, <3>1 DEF GatesOpened
    <3>2. CASE i = Last' /\ e.kind = "gate_opened" /\ Project(Now, e).gate = e.gate
      <4>1. i \in 1 .. i /\ i + 1 .. i = {}
        BY <1>0, <2>1
      <4> QED
        BY <2>1, <3>2, <4>1 DEF OpenedIn
    <3>3. CASE i = Last' /\ e.kind \notin Closers /\ Project(Now, e).gate = Now.gate
      <4>1. Last > 0 /\ OpenedIn(wal', Now.gate, Last)
        BY <2>1, <2>2, <3>3
      <4> DEFINE g == Now.gate
      <4>2. view'[i].gate = g
        BY <2>1, <3>3
      <4> HIDE DEF g
      <4>3. PICK j \in 1 .. Last :
              /\ wal'[j].kind = "gate_opened" /\ wal'[j].gate = g
              /\ \A k \in j + 1 .. Last : wal'[k].kind \notin Closers
        BY <4>1 DEF OpenedIn, g
      <4>4. j \in 1 .. i /\ \A k \in j + 1 .. i : k \in j + 1 .. Last \/ k = Last'
        BY <1>0, <2>1, <3>3
      <4> QED
        BY <2>1, <3>3, <4>2, <4>3, <4>4 DEF OpenedIn
    <3>4. i \in 1 .. Last \/ i = Last'
      BY <1>0, <2>1
    <3> QED
      BY <1>0, <2>1, <3>1, <3>2, <3>3, <3>4, GateEffects, NowType
  <2>4. e.kind \in PlanKinds \cup {"answer"} => OpenedIn(wal', e.gate, Last)
    <3> SUFFICES ASSUME e.kind \in PlanKinds \cup {"answer"} PROVE OpenedIn(wal', e.gate, Last)
      OBVIOUS
    <3>1. e \in Commands(e.kind) /\ Admits(Now, e)
      BY <2>1, KindsApart DEF Admissible, OpensGate, Concludes, PatchEvents, PlanKinds
    <3>2. e.gate.kind \in {"plan_approval", "question"} /\ Now.gate = e.gate
      BY <3>1 DEF Commands, Admits, PlanKinds
    <3>3. Now.gate # NoGate
      BY <3>2 DEF NoGate
    <3> QED
      BY <2>2, <3>2, <3>3
  <2>5. GateAnsweredOnce'
    <3> SUFFICES ASSUME NEW i \in 1 .. Last', wal'[i].kind \in PlanKinds \cup {"answer"}
                 PROVE  OpenedIn(wal', wal'[i].gate, i - 1)
      BY <1>as
    <3>1. CASE i \in 1 .. Last
      BY <1>keep, <2>1, <3>1
    <3>2. CASE i = Last' /\ i - 1 = Last
      BY <2>1, <2>4, <3>2
    <3> QED
      BY <1>0, <2>1, <3>1, <3>2
  <2> QED
    BY <2>3, <2>5
<1> QED
  BY <1>1, <1>2, <1>3, <1>4, NextIsLogStep DEF Ground, LogStep

\* A gate is answered once, by a decision that names it, for any number of clients,
\* gates and restarts (the gate check of reduceCommand).
THEOREM GatesAreAnsweredOnce == Spec => []GateAnsweredOnce
<1>1. Init => GateInv
  BY InitEmpty DEF GateInv, GatesOpened, GateAnsweredOnce
<1>2. GateInv => GateAnsweredOnce
  BY DEF GateInv
<1> QED
  BY <1>1, <1>2, GateStep, Grounded, PTL DEF Spec

-----------------------------------------------------------------------------
(* Changes.                                                                *)

\* A projection that speaks of a change.
Claims(s) == AnyCommitted(s) \/ s.outcome.changed

\* A patch was written, or a client accepted one by record i.
Real(patches, log, i) == patches # {} \/ \E j \in 1 .. i : log[j].kind = "accept_patch"

ClaimsReal == \A i \in 1 .. Last : Claims(view[i]) => Real(project, wal, i)

\* What the host counts as committed is in the project, and reconciliation carries
\* a change over from the projection it read.
AutoReal == \A p \in Patches : verdict[p] \in {"written", "committed"} => p \in project
ReconReal == recon = "close_changed" => Real(project, wal, Last)

ChangeInv == ClaimsReal /\ AutoReal /\ ReconReal

LEMMA ClaimEffects ==
  ASSUME NEW s \in Snapshot, NEW e \in Event, Admissible(e), s = Now,
         Claims(Project(s, e))
  PROVE  \/ Last > 0 /\ Claims(s)
         \/ e.kind = "accept_patch" \/ AutoCommitted \/ recon = "close_changed"
<1> DEFINE t == Project(s, e)
<1>0. s.decision \in [Patches -> Decisions]
  BY DEF Snapshot
<1>1. CASE e.kind = "start"
  <2>1. ~t.outcome.changed /\ t.decision = Absent.decision
    BY <1>1, StartEffect DEF NoOutcome
  <2> HIDE DEF t
  <2>2. ~AnyCommitted(t)
    BY <2>1 DEF AnyCommitted, Absent
  <2> QED
    BY <2>1, <2>2 DEF Claims, t
<1> HIDE DEF t
<1>2. ASSUME Last > 0, t.decision = s.decision,
             t.outcome = s.outcome \/ (t.outcome.changed => Claims(s))
      PROVE  Claims(t) => Claims(s)
  BY <1>2 DEF Claims, AnyCommitted
<1>3. CASE Last > 0 /\ e.kind \in {"approve_plan", "answer", "resume", "steer",
                                 "editor_lifecycle", "effect", "stream", "gate_opened"}
  <2>1. t.decision = s.decision /\ (t.outcome = s.outcome \/ t.outcome = NoOutcome)
    BY <1>3, AnswerEffect, ResumeEffect, SilentEffect, StreamEffect, GateEffect
       DEF t, SameFate, Alike
  <2>2. t.outcome = NoOutcome => ~t.outcome.changed
    BY DEF NoOutcome
  <2> QED
    BY <1>2, <1>3, <2>1, <2>2 DEF t
<1>4. CASE Last > 0 /\ e.kind \in {"reject_plan", "cancel"}
  <2>1. t.decision = s.decision
    BY <1>4, EndEffect DEF t, SameFate
  <2>2. t.outcome.changed => AnyCommitted(s)
    <3> DEFINE b == AnyCommitted(s)
    <3>1. b \in BOOLEAN
      BY DEF AnyCommitted
    <3>2. \/ EndsWith(t, "cancelled", "rejected", FALSE)
          \/ EndsWith(t, "completed", "completed_with_warnings", b)
          \/ EndsWith(t, "cancelled", "cancelled", b)
      BY <1>4, EndEffect, Zenon DEF t
    <3> HIDE DEF b
    <3>3. t.outcome.changed => b
      BY <3>1, <3>2 DEF EndsWith
    <3> QED
      BY <3>3 DEF b
  <2> QED
    BY <1>2, <1>4, <2>1, <2>2 DEF t, Claims
<1>5. CASE Last > 0 /\ e.kind = "reject_patch"
  <2>1. t.outcome = s.outcome /\ t.decision = [s.decision EXCEPT ![e.patch] = "rejected"]
    BY <1>5, RejectEffect DEF t
  <2>2. AnyCommitted(t) => AnyCommitted(s)
    BY <1>0, <2>1 DEF AnyCommitted
  <2> QED
    BY <1>5, <2>1, <2>2 DEF t, Claims
<1>6. CASE Last > 0 /\ e.kind \in PatchEvents /\ (e.kind = "patch_committed" => Written(e.patch))
  <2> DEFINE d == PatchDecision(s.decision[e.patch], e.kind)
  <2>1. t.outcome = s.outcome /\ t.decision = [s.decision EXCEPT ![e.patch] = d]
    BY <1>6, PatchEffect DEF t, PatchEvents
  <2>2. d = "committed" => (e.kind = "patch_committed" \/ s.decision[e.patch] = "committed")
    BY DEF PatchDecision
  <2> HIDE DEF d
  <2>3. AnyCommitted(t) => AnyCommitted(s) \/ e.kind = "patch_committed"
    BY <1>0, <2>1, <2>2 DEF AnyCommitted
  <2>4. e.kind = "patch_committed" => AutoCommitted
    BY <1>6 DEF Written, AutoCommitted
  <2> QED
    BY <1>6, <2>1, <2>3, <2>4 DEF t, Claims
<1>7. CASE Last > 0 /\ Concludes(e)
  <2>1. t.decision = s.decision /\ t.outcome = e.outcome
    BY <1>7, TerminalEffect DEF t, SameFate, Concludes
  <2>2. \/ e.outcome = s.outcome
        \/ e.outcome.changed => AutoCommitted \/ recon = "close_changed"
    BY <1>7 DEF Concludes
  <2>3. AnyCommitted(t) => AnyCommitted(s)
    BY <2>1 DEF AnyCommitted
  <2> QED
    BY <1>7, <2>1, <2>2, <2>3 DEF t, Claims
<1>8. e.kind \in ClientKinds =>
        e.kind \in {"approve_plan", "answer", "resume", "steer", "reject_plan", "cancel",
                   "reject_patch", "accept_patch"}
  BY KindsApart DEF CommandKinds, PlanKinds, PatchKinds
<1> QED
  BY <1>1, <1>3, <1>4, <1>5, <1>6, <1>7, <1>8 DEF Admissible, OpensGate, t

\* What the host knows of changes moves only with what it does.
LEMMA AutoStep ==
  ASSUME HostOK, AutoReal, [Next]_vars
  PROVE  AutoReal' /\ project \subseteq project'
<1> USE DEF HostOK, AutoReal
<1>1. CASE UNCHANGED <<project, verdict>>
  BY <1>1
<1>2. ASSUME NEW p \in Patches, WritePatch(p) PROVE AutoReal' /\ project \subseteq project'
  BY <1>2 DEF WritePatch
<1>3. ASSUME NEW p \in Patches, NEW rev,
             ProposePatch(p, rev) \/ RecordCommitted(p, rev) \/ RecordStale(p, rev)
      PROVE  AutoReal' /\ project \subseteq project'
  <2>1. PICK v \in {"proposed", "deferred", "committed", "stale"} :
          /\ verdict' = [verdict EXCEPT ![p] = v] /\ project' = project
          /\ v = "committed" => verdict[p] = "written"
    BY <1>3 DEF ProposePatch, RecordCommitted, RecordStale
  <2> QED
    BY <2>1
<1>4. CASE Crash \/ PowerLoss
  BY <1>4 DEF Crash, PowerLoss, Restart
<1>5. CASE Clients \/ Store \/ Reconcile \/ Prune \/ AppendFails \/ UNCHANGED vars
  BY <1>1, <1>5 DEF Clients, Start, Command, Store, Save, SaveFails, Load, CatchUp, Persist,
     Evict, Reconcile, ReconcileSkip, ReconcileLook, ReconcileClose, ReconcileFails, Prune,
     AppendFails, vars
<1>6. CASE Stream
  BY <1>1, <1>2, <1>3, <1>6 DEF Stream, Attach, EditorLifecycle, RuntimeEffect,
     StopPublishing, SettleRefused, RecordStream, SkipStream, FoldLedger, OpenGate, Complete
<1> QED
  BY <1>4, <1>5, <1>6 DEF Next

LEMMA ReconMoves ==
  ASSUME [Next]_vars, recon' = "close_changed"
  PROVE  /\ recon = "close_changed" \/ (Current /\ mem.seq # 0 /\ AnyCommitted(mem))
         /\ ~PowerLoss /\ ~Prune
<1>0. ~PowerLoss /\ ~Prune /\ ~Crash
  BY DEF PowerLoss, Prune, Crash, Restart
<1>1. CASE Clients
  BY <1>0, <1>1 DEF Clients, Start, Command
<1>2. CASE Store
  BY <1>0, <1>2 DEF Store, Save, SaveFails, Load, CatchUp, Persist, Evict
<1>3. CASE Stream
  BY <1>0, <1>3 DEF Stream, Attach, EditorLifecycle, RuntimeEffect, StopPublishing,
     SettleRefused, RecordStream, SkipStream, FoldLedger, OpenGate, WritePatch, ProposePatch,
     RecordCommitted, RecordStale, Complete
<1>4. CASE Reconcile
  BY <1>0, <1>4 DEF Reconcile, ReconcileSkip, ReconcileLook, ReconcileClose, ReconcileFails
<1>5. CASE AppendFails \/ UNCHANGED vars
  BY <1>0, <1>5 DEF AppendFails, vars
<1> QED
  BY <1>0, <1>1, <1>2, <1>3, <1>4, <1>5 DEF Next

LEMMA ChangeStep ==
  ASSUME Ground, ChangeInv, [Next]_vars PROVE ChangeInv'
<1> USE DEF ChangeInv
<1>0. StoreOK /\ HostOK /\ Last \in Nat
  BY LastNat, ConstantsAssumption DEF Ground, TypeOK
<1>1. AutoReal' /\ project \subseteq project'
  BY <1>0, AutoStep
\* What was real stays so while the log keeps its records.
<1>2. ASSUME NEW i \in 0 .. Last, Real(project, wal, i), \A k \in 1 .. i : wal'[k] = wal[k],
             NEW n \in Nat, i <= n
      PROVE  Real(project', wal', n)
  <2>1. CASE project # {}
    BY <1>1, <2>1 DEF Real
  <2>2. CASE \E j \in 1 .. i : wal[j].kind = "accept_patch"
    <3>1. PICK j \in 1 .. i : wal[j].kind = "accept_patch"
      BY <2>2
    <3>2. j \in 1 .. n /\ wal'[j].kind = "accept_patch"
      BY <1>2, <3>1
    <3> QED
      BY <3>2 DEF Real
  <2> QED
    BY <1>2, <2>1, <2>2 DEF Real
<1>3. Last > 0 /\ Claims(Now) => Real(project, wal, Last)
  BY <1>0, NowType DEF ClaimsReal
<1>4. ASSUME recon' = "close_changed" PROVE Real(project, wal, Last) /\ ~Cuts
  <2>1. CASE recon = "close_changed"
    BY <1>4, <2>1, ReconMoves DEF ReconReal, Cuts
  <2>2. CASE Current /\ mem.seq # 0 /\ AnyCommitted(mem)
    <3>1. mem = Now /\ Last > 0
      BY <1>0, <2>2, NowIsMem DEF Ground, Current
    <3> QED
      BY <1>3, <1>4, <2>2, <3>1, ReconMoves DEF Claims, Cuts
  <2> QED
    BY <1>4, <2>1, <2>2, ReconMoves
<1>5. ASSUME \A k \in 1 .. Last : wal'[k] = wal[k], Last' \in Nat, Last <= Last'
      PROVE  ReconReal'
  BY <1>0, <1>2, <1>4, <1>5 DEF ReconReal
<1>6. CASE Same
  <2>1. wal' = wal /\ view' = view /\ Last' = Last
    BY <1>6 DEF Same, Last
  <2>2. ClaimsReal'
    BY <1>0, <1>2, <2>1 DEF ClaimsReal
  <2> QED
    BY <1>0, <1>1, <1>5, <2>1, <2>2
<1>7. CASE Cuts
  <2>1. Last' \in 0 .. Last /\ \A i \in 1 .. Last' : wal'[i] = wal[i] /\ view'[i] = view[i]
    BY <1>7 DEF Cuts
  <2>2. ClaimsReal'
    BY <1>0, <1>2, <2>1 DEF ClaimsReal
  <2>3. ReconReal'
    BY <1>4, <1>7 DEF ReconReal
  <2> QED
    BY <1>1, <2>2, <2>3
<1>8. ASSUME NEW s \in Snapshot, Amends(s) PROVE ChangeInv'
  <2>1. /\ Last' = Last /\ wal' = wal
        /\ \A i \in 1 .. Last : Claims(view'[i]) <=> Claims(view[i])
    BY <1>0, <1>8, NowType DEF Amends, Claims, AnyCommitted
  <2>2. ClaimsReal'
    BY <1>0, <1>2, <2>1 DEF ClaimsReal
  <2> QED
    BY <1>0, <1>1, <1>5, <2>1, <2>2
<1>9. ASSUME NEW e \in Event, Adds(e) PROVE ChangeInv'
  <2>1. /\ Last' = Last + 1 /\ wal'[Last'] = e /\ view'[Last'] = Project(Now, e)
        /\ \A i \in 1 .. Last : wal'[i] = wal[i] /\ view'[i] = view[i]
        /\ Admissible(e)
    BY <1>9 DEF Adds
  <2>2. ASSUME Claims(Project(Now, e)) PROVE Real(project', wal', Last')
    <3>1. \/ Last > 0 /\ Claims(Now)
          \/ e.kind = "accept_patch" \/ AutoCommitted \/ recon = "close_changed"
      BY <1>0, <2>1, <2>2, ClaimEffects, NowType
    <3>2. CASE e.kind = "accept_patch"
      BY <1>0, <2>1, <3>2 DEF Real
    <3>3. CASE AutoCommitted
      BY <1>1, <3>3 DEF AutoReal, AutoCommitted, Real
    <3>4. CASE Real(project, wal, Last)
      BY <1>0, <1>2, <2>1, <3>4
    <3> QED
      BY <1>3, <3>1, <3>2, <3>3, <3>4 DEF ReconReal
  <2>3. ClaimsReal'
    <3> SUFFICES ASSUME NEW i \in 1 .. Last', Claims(view'[i]) PROVE Real(project', wal', i)
      BY DEF ClaimsReal
    <3>1. CASE i \in 1 .. Last
      <4>1. Real(project, wal, i) /\ i \in 0 .. Last /\ i \in Nat
        BY <1>0, <2>1, <3>1 DEF ClaimsReal
      <4> QED
        BY <1>0, <1>2, <2>1, <4>1
    <3>2. CASE i = Last'
      BY <2>1, <2>2, <3>2
    <3> QED
      BY <1>0, <2>1, <3>1, <3>2
  <2> QED
    BY <1>0, <1>1, <1>5, <2>1, <2>3
<1> QED
  BY <1>6, <1>7, <1>8, <1>9, NextIsLogStep DEF Ground, LogStep

\* An outcome never reports a change that nobody made, for any number of patches and
\* whatever is committed, refused or cut short around a restart (the `changed' of each outcome).
THEOREM ChangesAreReal == Spec => []ChangeIsReal
<1>1. Init => ChangeInv
  <2> SUFFICES ASSUME Init PROVE ChangeInv
    OBVIOUS
  <2>1. recon = "done" /\ \A p \in Patches : verdict[p] = "unseen"
    BY DEF Init
  <2> QED
    BY <2>1, InitEmpty DEF ChangeInv, ClaimsReal, AutoReal, ReconReal
<1>2. ChangeInv => ChangeIsReal
  BY DEF ChangeInv, ClaimsReal, ChangeIsReal, Claims, Real
<1> QED
  BY <1>1, <1>2, ChangeStep, Grounded, PTL DEF Spec

-----------------------------------------------------------------------------
(* What is on the disk.                                                    *)

LedgersGrow == \A i, j \in 1 .. Last : i < j => view[i].ledger <= view[j].ledger

LEMMA LedgerEffect ==
  ASSUME NEW s \in Snapshot, NEW e \in Event, Admissible(e), Last > 0
  PROVE  Project(s, e).ledger = s.ledger
<1> USE DEF SameFate, Alike
<1>1. CASE e.kind \in {"approve_plan", "answer", "resume"}
  BY <1>1, AnswerEffect, ResumeEffect
<1>2. CASE e.kind \in {"reject_plan", "cancel"}
  BY <1>2, EndEffect
<1>3. CASE e.kind \in {"accept_patch", "reject_patch"}
  BY <1>3, AcceptEffect, RejectEffect
<1>4. CASE e.kind \in {"steer", "editor_lifecycle", "effect"}
  BY <1>4, SilentEffect
<1>5. CASE e.kind \in {"stream", "gate_opened", "terminal"}
  BY <1>5, StreamEffect, GateEffect, TerminalEffect
<1>6. CASE e.kind \in PatchEvents
  BY <1>6, PatchEffect DEF PatchEvents
<1>7. \/ e.kind \in ClientKinds \cup PatchEvents
      \/ e.kind \in {"stream", "gate_opened", "terminal", "editor_lifecycle", "effect"}
  BY ConstantsAssumption DEF Admissible, OpensGate, Concludes
<1>8. e.kind \in ClientKinds =>
        e.kind \in {"approve_plan", "answer", "resume", "steer", "reject_plan", "cancel",
                   "reject_patch", "accept_patch"}
  BY KindsApart DEF CommandKinds, PlanKinds, PatchKinds
<1> QED
  BY <1>1, <1>2, <1>3, <1>4, <1>5, <1>6, <1>7, <1>8

LEMMA LedgersStep ==
  ASSUME Ground, LedgersGrow, [Next]_vars PROVE LedgersGrow'
<1> USE DEF LedgersGrow
<1>0. StoreOK /\ Last \in Nat
  BY LastNat, ConstantsAssumption DEF Ground, TypeOK
<1>1. \A i \in 1 .. Last : view[i].ledger \in Nat /\ view[i].ledger <= Now.ledger
  <2> SUFFICES ASSUME NEW i \in 1 .. Last
               PROVE  view[i].ledger \in Nat /\ view[i].ledger <= Now.ledger
    OBVIOUS
  <2>1. view[i].ledger \in 0 .. MaxLedger /\ Last \in 1 .. Last
    BY <1>0, NowType DEF Snapshot
  <2>2. Now = view[Last] /\ view[i].ledger \in Nat
    BY <1>0, <2>1, NowType, ConstantsAssumption
  <2> QED
    BY <1>0, <2>1, <2>2
<1>2. CASE Same
  BY <1>2 DEF Same, Last
<1>3. CASE Cuts
  <2>1. Last' \in 0 .. Last /\ \A i \in 1 .. Last' : i \in 1 .. Last /\ view'[i] = view[i]
    BY <1>0, <1>3 DEF Cuts
  <2> QED
    BY <2>1
<1>4. ASSUME NEW s \in Snapshot, Amends(s) PROVE LedgersGrow'
  <2>1. /\ Last' = Last
        /\ \A i \in 1 .. Last : view'[i] = IF i = Last THEN s ELSE view[i]
        /\ s.ledger >= Now.ledger /\ s.ledger \in Nat /\ Now.ledger \in Nat
    <3>1. Now.ledger \in 0 .. MaxLedger /\ s.ledger \in 0 .. MaxLedger
      BY <1>0, NowType DEF Snapshot
    <3> QED
      BY <1>4, <3>1, ConstantsAssumption DEF Amends
  <2> SUFFICES ASSUME NEW i \in 1 .. Last, NEW j \in 1 .. Last, i < j
               PROVE  view'[i].ledger <= view'[j].ledger
    BY <2>1
  <2>2. i # Last /\ view'[i] = view[i]
    BY <1>0, <2>1
  <2>3. CASE j = Last
    BY <1>1, <2>1, <2>2, <2>3
  <2>4. CASE j # Last
    BY <2>1, <2>2, <2>4
  <2> QED
    BY <2>3, <2>4
<1>5. ASSUME NEW e \in Event, Adds(e) PROVE LedgersGrow'
  <2>1. /\ Last' = Last + 1 /\ view'[Last'] = Project(Now, e)
        /\ \A i \in 1 .. Last : view'[i] = view[i]
        /\ Admissible(e)
    BY <1>5 DEF Adds
  <2> SUFFICES ASSUME NEW i \in 1 .. Last', NEW j \in 1 .. Last', i < j
               PROVE  view'[i].ledger <= view'[j].ledger
    OBVIOUS
  <2>2. i \in 1 .. Last /\ Last > 0 /\ view'[i] = view[i]
    BY <1>0, <2>1
  <2>3. CASE j = Last'
    BY <1>0, <1>1, <2>1, <2>2, <2>3, LedgerEffect, NowType
  <2>4. CASE j \in 1 .. Last
    BY <2>1, <2>2, <2>4
  <2> QED
    BY <1>0, <2>1, <2>3, <2>4
<1> QED
  BY <1>2, <1>3, <1>4, <1>5, NextIsLogStep DEF Ground, LogStep

\* A save under way is of a run that is loaded.
SavingLoaded == saving # Absent => loaded

LEMMA SavingStep ==
  ASSUME SavingLoaded, StoreStep PROVE SavingLoaded'
<1> USE DEF SavingLoaded
<1>1. CASE Recorded \/ Streamed
  BY <1>1 DEF Recorded, Streamed, Record, Current
<1>2. CASE Saved \/ SaveLost \/ Restarted \/ LostPower \/ Deleted
  BY <1>2 DEF Saved, SaveLost, Restarted, LostPower, Deleted
<1>3. CASE Idle \/ Load \/ CatchUp \/ SavedAgain \/ Amended \/ Evict \/ Torn
  BY <1>3 DEF Idle, Load, CatchUp, SavedAgain, Amended, SaveNow, Evict, Torn, Current
<1> QED
  BY <1>1, <1>2, <1>3 DEF StoreStep

\* A snapshot that may replace the one in the file.
Succeeds(t, s) ==
  t.seq >= s.seq /\ t.ledger >= s.ledger /\ (Settled(s) => t.status = s.status)

LEMMA LatestSucceeds ==
  ASSUME Ground, FirstEndingStands, LedgersGrow, snap.seq <= Last,
         NEW t \in Snapshot, t.seq = Last,
         t = Now \/ (~Settled(Now) /\ t.ledger >= Now.ledger)
  PROVE  Succeeds(t, snap)
<1>0. /\ StoreOK /\ Last \in Nat /\ snap.seq \in Nat /\ snap.ledger \in Nat
      /\ t.ledger \in Nat /\ Now \in Snapshot /\ Now.ledger \in Nat
  <2>1. StoreOK /\ snap \in Snapshot
    BY DEF Ground, TypeOK, StoreOK
  <2>2. Last \in Nat /\ Now \in Snapshot
    BY <2>1, LastNat, NowType, ConstantsAssumption
  <2>3. \A u \in Snapshot : u.seq \in Nat /\ u.ledger \in Nat
    BY ConstantsAssumption DEF Snapshot
  <2> QED
    BY <2>1, <2>2, <2>3
<1>1. CASE snap.seq = 0
  <2>1. snap = Absent
    BY <1>1 DEF Ground, RecoveryInv, Positions
  <2>2. snap.ledger = 0 /\ ~Settled(snap)
    BY <2>1 DEF Absent, Settled, Terminals
  <2> QED
    BY <1>0, <1>1, <2>2 DEF Succeeds
<1>2. CASE snap.seq # 0
  <2>1. snap.seq \in 1 .. Last /\ Last \in 1 .. Last
    BY <1>0, <1>2
  <2>2. snap = view[snap.seq] /\ Now = view[Last]
    BY <1>0, <2>1, NowType DEF Ground, RecoveryInv, RecoveryAgrees
  <2>3. snap.ledger <= Now.ledger
    BY <1>0, <2>1, <2>2 DEF LedgersGrow
  <2>4. Settled(snap) => Now.status = snap.status
    BY <1>0, <2>1, <2>2 DEF FirstEndingStands
  <2>5. Settled(snap) => t = Now
    BY <2>4 DEF Settled
  <2>6. t.ledger >= snap.ledger
    BY <1>0, <2>3
  <2> QED
    BY <1>0, <2>4, <2>5, <2>6 DEF Succeeds
<1> QED
  BY <1>1, <1>2

LEMMA SnapshotStep ==
  ASSUME Ground, FirstEndingStands, LedgersGrow, SavingLoaded, [Next]_vars, fate' = "kept"
  PROVE  Succeeds(snap', snap)
<1>0. /\ TypeOK /\ StoreOK /\ RecoveryInv /\ Positions /\ StoreStep /\ LogStep
      /\ Last \in Nat /\ snap \in Snapshot
  BY LastNat, ConstantsAssumption, NextIsStoreStep, NextIsLogStep
     DEF Ground, TypeOK, StoreOK, RecoveryInv
<1>1. CASE snap' = snap
  <2>1. snap.seq \in Nat /\ snap.ledger \in Nat
    BY <1>0, ConstantsAssumption DEF Snapshot
  <2> QED
    BY <1>1, <2>1 DEF Succeeds
<1>2. loaded => snap.seq <= Last
  BY <1>0, ConstantsAssumption DEF Positions, StoreOK, Snapshot
<1>3. Current => /\ mem = Now /\ mem \in Snapshot /\ mem.seq = Last /\ snap.seq <= Last
  BY <1>0, <1>2, NowIsMem DEF Current
<1>4. CASE Recorded
  <2>1. Current /\ snap' = mem
    BY <1>4 DEF Recorded, Record
  <2> QED
    BY <1>3, <2>1, LatestSucceeds
<1>5. CASE Saved
  <2>1. saving # Absent /\ snap' = saving
    BY <1>5 DEF Saved, SaveSnapshot
  <2>2. saving \in Snapshot /\ saving.seq = Last /\ Last > 0 /\ saving = view[Last]
    BY <1>0, <2>1 DEF StoreOK, Positions, RecoveryInv, RecoveryAgrees
  <2>3. saving = Now /\ snap.seq <= Last
    BY <1>0, <1>2, <2>1, <2>2, NowType DEF SavingLoaded
  <2> QED
    BY <2>1, <2>2, <2>3, LatestSucceeds
<1>6. CASE SavedAgain
  <2>1. Current /\ snap' = mem
    BY <1>6 DEF SavedAgain, SaveNow, SaveSnapshot
  <2> QED
    BY <1>3, <2>1, LatestSucceeds
<1>7. CASE Amended
  <2>1. PICK s \in Snapshot :
          /\ Current /\ mem.seq > 0 /\ s.seq = mem.seq /\ snap' = s /\ Restated(s)
    BY <1>7 DEF Amended, SaveNow, SaveSnapshot
  <2>2. Last > 0 /\ s.seq = Last
    BY <1>0, <1>3, <2>1
  <2>3. Last' = Last /\ view'[Last] = s
    BY <1>0, <2>1, <2>2, RestateLog
  <2>4. CASE Same
    <3>1. s = Now
      BY <1>0, <2>2, <2>3, <2>4, NowType DEF Same
    <3> QED
      BY <1>3, <2>1, <2>2, <3>1, LatestSucceeds
  <2>5. CASE Cuts
    <3>1. PowerLoss
      BY <2>5 DEF Cuts
    <3> QED
      BY <1>1, <3>1 DEF PowerLoss
  <2>6. ASSUME NEW u \in Snapshot, Amends(u) PROVE Succeeds(snap', snap)
    <3>1. u = s
      BY <1>0, <2>2, <2>3, <2>6 DEF Amends
    <3>2. Now \in Snapshot
      BY <1>0, NowType
    <3>3. Now.ledger \in Nat /\ s.ledger \in Nat
      BY <3>2, ConstantsAssumption DEF Snapshot
    <3>4. ~Settled(Now) /\ s.ledger >= Now.ledger
      BY <2>6, <3>1, <3>3 DEF Amends
    <3> QED
      BY <1>3, <2>1, <2>2, <3>4, LatestSucceeds
  <2>7. ASSUME NEW e \in Event, Adds(e) PROVE FALSE
    BY <1>0, <2>3, <2>7 DEF Adds
  <2> QED
    BY <1>0, <2>4, <2>5, <2>6, <2>7 DEF LogStep
<1>8. CASE \/ Idle \/ Streamed \/ SaveLost \/ Load \/ CatchUp \/ Evict
           \/ Restarted \/ LostPower \/ Torn
  BY <1>1, <1>8 DEF Idle, Streamed, SaveLost, Load, CatchUp, Evict, Restarted, LostPower, Torn
<1>9. ~Deleted
  BY DEF Deleted
<1> QED
  BY <1>0, <1>4, <1>5, <1>6, <1>7, <1>8, <1>9 DEF StoreStep

LEMMA LedgersAndSaving == Spec => [](LedgersGrow /\ SavingLoaded)
<1>1. Init => LedgersGrow /\ SavingLoaded
  <2>1. Init => saving = Absent
    BY DEF Init
  <2> QED
    BY <2>1, InitEmpty DEF LedgersGrow, SavingLoaded
<1>2. Ground /\ LedgersGrow /\ [Next]_vars => LedgersGrow'
  BY LedgersStep
<1>3. Ground /\ SavingLoaded /\ [Next]_vars => SavingLoaded'
  BY SavingStep, NextIsStoreStep DEF Ground
<1> QED
  BY <1>1, <1>2, <1>3, Grounded, PTL DEF Spec

\* The snapshot file never goes back: not in its position, not in the agent's ledger,
\* and not from an ending, whatever is replayed, saved late or lost (saveSnapshot
\* after recoverSnapshot).
THEOREM NothingReverts == Spec => NothingDurableReverts
<1> DEFINE A == fate' = "kept" =>
                  /\ snap'.seq >= snap.seq
                  /\ snap'.ledger >= snap.ledger
                  /\ Settled(snap) => snap'.status = snap.status
<1>1. Ground /\ FirstEndingStands /\ LedgersGrow /\ SavingLoaded /\ [Next]_vars => [A]_vars
  BY SnapshotStep DEF Succeeds
<1> QED
  BY <1>1, FirstEndingIsKept, LedgersAndSaving, Grounded, PTL DEF Spec, NothingDurableReverts
=============================================================================
