-------------------------- MODULE DurableRunProofs --------------------------
(***************************************************************************)
(* Theorems about DurableRun, for every value of its constants.            *)
(***************************************************************************)
EXTENDS DurableRun, SequenceTheorems, TLAPS

-----------------------------------------------------------------------------
(* The values the run is built from.                                       *)

\* The empty snapshot, and no gate and no outcome, are values of their types.
LEMMA AbsentType ==
  NoGate \in Gate /\ NoOutcome \in Outcome /\ Absent \in Snapshot
<1>1. WalLimit \in Nat /\ MaxRevision \in Nat /\ MaxLedger \in Nat
  BY ConstantsAssumption
<1>2. NoGate \in Gate
  BY <1>1 DEF NoGate, Gate
<1>3. NoOutcome \in Outcome
  BY DEF NoOutcome, Outcome, OutcomeKinds
<1>4. [p \in Patches |-> "none"] \in [Patches -> Decisions]
  BY DEF Decisions
<1>5. Absent \in Snapshot
  BY <1>1, <1>2, <1>3, <1>4 DEF Absent, Snapshot, Statuses
<1> QED
  BY <1>2, <1>3, <1>5

\* Settling a run, and deciding a patch, change only what they say.
LEMMA SettleType ==
  ASSUME NEW s \in Snapshot, NEW status \in Statuses, NEW kind \in OutcomeKinds,
         NEW changed \in BOOLEAN
  PROVE  Settle(s, status, kind, changed) \in Snapshot
<1>1. [kind |-> kind, changed |-> changed] \in Outcome
  BY DEF Outcome
<1> QED
  BY <1>1, AbsentType DEF Settle, Snapshot

LEMMA DecideType ==
  ASSUME NEW s \in Snapshot, NEW p, NEW d \in Decisions
  PROVE  Decide(s, p, d) \in Snapshot
<1>1. [s.decision EXCEPT ![p] = d] \in [Patches -> Decisions]
  BY DEF Snapshot
<1> QED
  BY <1>1 DEF Decide, Snapshot

LEMMA ReduceCommandType ==
  ASSUME NEW s \in Snapshot, NEW e \in Event
  PROVE  ReduceCommand(s, e) \in Snapshot
<1>1. CASE e.kind = "start"
  BY <1>1, AbsentType DEF ReduceCommand, Snapshot, Statuses, Working
<1>2. CASE e.kind \in {"approve_plan", "answer"}
  BY <1>2, AbsentType DEF ReduceCommand, Snapshot, Statuses, Working
<1>3. CASE e.kind = "reject_plan"
  BY <1>3, SettleType DEF ReduceCommand, Statuses, Terminals, OutcomeKinds
<1>4. CASE e.kind = "cancel"
  BY <1>4, SettleType DEF ReduceCommand, Statuses, Terminals, OutcomeKinds, AnyCommitted
<1>5. CASE e.kind = "resume"
  BY <1>5, AbsentType DEF ReduceCommand, Snapshot, Statuses, Working
<1>6. CASE e.kind = "accept_patch"
  <2> DEFINE t == Decide(s, e.patch, "committed")
             o == [kind |-> "completed_with_changes", changed |-> TRUE]
  <2>1. t \in Snapshot
    BY DecideType DEF Decisions
  <2>2. o \in Outcome
    BY DEF Outcome, OutcomeKinds
  <2>3. ReduceCommand(s, e) = [t EXCEPT !.outcome = o]
    BY <1>6 DEF ReduceCommand
  <2> HIDE DEF t, o
  <2> QED
    BY <2>1, <2>2, <2>3 DEF Snapshot
<1>7. CASE e.kind = "reject_patch"
  BY <1>7, DecideType DEF ReduceCommand, Decisions
<1>8. CASE e.kind \notin {"start", "approve_plan", "answer", "reject_plan", "cancel",
                         "resume", "accept_patch", "reject_patch"}
  BY <1>8 DEF ReduceCommand
<1> QED
  BY <1>1, <1>2, <1>3, <1>4, <1>5, <1>6, <1>7, <1>8

LEMMA PatchLifecycleType ==
  ASSUME NEW s \in Snapshot, NEW e \in Event
  PROVE  PatchLifecycle(s, e) \in Snapshot
<1> DEFINE now == s.decision[e.patch]
           next == CASE e.kind = "patch_proposed" -> IF now = "none" THEN "pending" ELSE now
                     [] e.kind = "patch_stale"    -> "stale"
                     [] OTHER                     -> "committed"
           t == Decide(s, e.patch, next)
           rev == IF e.rev = NoRevision THEN t.rev ELSE e.rev
<1>1. t \in Snapshot
  <2>1. CASE e.patch \in Patches
    <3>1. now \in Decisions
      BY <2>1 DEF Snapshot
    <3>2. next \in Decisions
      BY <3>1 DEF Decisions
    <3> HIDE DEF next
    <3> QED
      BY <3>2, DecideType
  <2>2. CASE e.patch \notin Patches
    <3>1. [s.decision EXCEPT ![e.patch] = next] = s.decision
      BY <2>2 DEF Snapshot
    <3> HIDE DEF next
    <3> QED
      BY <3>1 DEF Decide, Snapshot
  <2> QED
    BY <2>1, <2>2
<1>2. rev \in 0 .. MaxRevision
  <2>1. t.rev \in 0 .. MaxRevision
    BY <1>1 DEF Snapshot
  <2>2. e.rev \in (0 .. MaxRevision) \cup {NoRevision}
    BY DEF Event
  <2> HIDE DEF t
  <2> QED
    BY <2>1, <2>2
<1>3. PatchLifecycle(s, e) = [t EXCEPT !.rev = rev]
  BY DEF PatchLifecycle
<1> HIDE DEF t, rev
<1> QED
  BY <1>1, <1>2, <1>3 DEF Snapshot

\* A record leads to a snapshot one further than the snapshot it is projected onto.
LEMMA ProjectType ==
  ASSUME NEW s \in Snapshot, NEW e \in Event, s.seq < WalLimit
  PROVE  /\ Project(s, e) \in Snapshot
         /\ Project(s, e).seq = s.seq + 1
<1> DEFINE next ==
        CASE e.kind \in CommandKinds -> ReduceCommand(s, e)
          [] e.kind = "gate_opened" -> [s EXCEPT !.status = e.status, !.gate = e.gate]
          [] e.kind = "terminal" ->
               Settle(s, e.status, e.outcome.kind, e.outcome.changed)
          [] e.kind = "stream" ->
               [s EXCEPT !.status = IF e.status = "none" THEN @ ELSE e.status]
          [] e.kind \in {"patch_proposed", "patch_stale", "patch_committed"} ->
               PatchLifecycle(s, e)
          [] OTHER -> s
<1>1. /\ e.status \in Statuses /\ e.gate \in Gate
      /\ e.outcome.kind \in OutcomeKinds /\ e.outcome.changed \in BOOLEAN
  BY DEF Event, Outcome
<1>2. next \in Snapshot
  <2>1. CASE e.kind \in CommandKinds
    BY <2>1, ReduceCommandType DEF CommandKinds, PlanKinds, PatchKinds
  <2>2. CASE e.kind = "gate_opened"
    BY <2>2, <1>1 DEF Snapshot, CommandKinds, PlanKinds, PatchKinds
  <2>3. CASE e.kind = "terminal"
    BY <2>3, <1>1, SettleType DEF CommandKinds, PlanKinds, PatchKinds
  <2>4. CASE e.kind = "stream"
    BY <2>4, <1>1 DEF Snapshot, CommandKinds, PlanKinds, PatchKinds
  <2>5. CASE e.kind \in {"patch_proposed", "patch_stale", "patch_committed"}
    BY <2>5, PatchLifecycleType DEF CommandKinds, PlanKinds, PatchKinds
  <2>6. CASE e.kind \notin CommandKinds \cup
               {"gate_opened", "terminal", "stream", "patch_proposed", "patch_stale",
                "patch_committed"}
    BY <2>6
  <2> QED
    BY <2>1, <2>2, <2>3, <2>4, <2>5, <2>6
<1>3. Project(s, e) = [next EXCEPT !.seq = s.seq + 1]
  BY DEF Project
<1>4. s.seq + 1 \in 0 .. WalLimit
  BY ConstantsAssumption DEF Snapshot
<1> HIDE DEF next
<1> QED
  BY <1>2, <1>3, <1>4 DEF Snapshot

-----------------------------------------------------------------------------
(* The three things that happen to the log and its auxiliary twin.         *)

Follows(e, s) == wal' = Append(wal, e) /\ view' = Append(view, s)

LEMMA AppendLog ==
  ASSUME StoreOK, NEW e \in Event, NEW s \in Snapshot, Follows(e, s)
  PROVE  /\ wal' \in Seq(Event) /\ view' \in Seq(Snapshot)
         /\ Last' = Last + 1 /\ Len(view') = Last'
         /\ \A i \in 1 .. Last : wal'[i] = wal[i] /\ view'[i] = view[i]
         /\ wal'[Last'] = e /\ view'[Last'] = s
<1> USE DEF StoreOK, Follows, Last
<1>1. /\ wal' \in Seq(Event) /\ Len(wal') = Len(wal) + 1
      /\ \A i \in 1 .. Len(wal) : wal'[i] = wal[i]
      /\ wal'[Len(wal) + 1] = e
  BY AppendProperties
<1>2. /\ view' \in Seq(Snapshot) /\ Len(view') = Len(view) + 1
      /\ \A i \in 1 .. Len(view) : view'[i] = view[i]
      /\ view'[Len(view) + 1] = s
  BY AppendProperties
<1> QED
  BY <1>1, <1>2

CutAt(n) == wal' = SubSeq(wal, 1, n) /\ view' = SubSeq(view, 1, n)

LEMMA CutLog ==
  ASSUME StoreOK, NEW n \in 0 .. Last, CutAt(n)
  PROVE  /\ wal' \in Seq(Event) /\ view' \in Seq(Snapshot)
         /\ Last' = n /\ Len(view') = n
         /\ \A i \in 1 .. n : wal'[i] = wal[i] /\ view'[i] = view[i]
<1> USE DEF StoreOK, CutAt, Last
<1>1. Len(wal) \in Nat /\ n \in Int /\ 1 \in Int
  BY LenProperties
<1>2. \A i \in 1 .. n : wal[i] \in Event /\ view[i] \in Snapshot
  BY <1>1, ElementOfSeq
<1>3. /\ wal' \in Seq(Event) /\ Len(wal') = n
      /\ \A i \in 1 .. n : wal'[i] = wal[i]
  BY <1>1, <1>2, SubSeqProperties
<1>4. /\ view' \in Seq(Snapshot) /\ Len(view') = n
      /\ \A i \in 1 .. n : view'[i] = view[i]
  BY <1>1, <1>2, SubSeqProperties
<1> QED
  BY <1>3, <1>4

Restated(s) == wal' = wal /\ view' = [view EXCEPT ![Last] = s]

LEMMA RestateLog ==
  ASSUME StoreOK, NEW s \in Snapshot, Last > 0, Restated(s)
  PROVE  /\ wal' \in Seq(Event) /\ view' \in Seq(Snapshot)
         /\ Last' = Last /\ Len(view') = Last
         /\ \A i \in 1 .. Last : view'[i] = IF i = Last THEN s ELSE view[i]
<1> USE DEF StoreOK, Restated, Last
<1>1. Len(wal) \in Nat /\ Len(wal) \in 1 .. Len(view)
  BY LenProperties
<1> QED
  BY <1>1, ExceptSeq

-----------------------------------------------------------------------------
(* Type correctness.                                                       *)

LEMMA LastNat == ASSUME StoreOK PROVE Last \in 0 .. WalLimit
  BY LenProperties DEF StoreOK, Last

\* Appending an integrity record keeps the store's types and the log's limit.
LEMMA RecordType ==
  ASSUME StoreOK, NEW e \in Event, Record(e)
  PROVE  /\ StoreOK'
         /\ Follows(e, saving') /\ saving' = Project(mem, e) /\ saving' \in Snapshot
         /\ saving'.seq = Last' /\ Last' = Last + 1
<1>1. Last \in 0 .. WalLimit /\ Last < WalLimit /\ mem.seq = Last
  BY LastNat DEF Record, Current
<1>2. saving' = Project(mem, e) /\ saving' \in Snapshot /\ saving'.seq = Last + 1
  BY <1>1, ProjectType DEF Record, StoreOK
<1>3. Follows(e, saving')
  BY DEF Record, Follows
<1>4. /\ wal' \in Seq(Event) /\ view' \in Seq(Snapshot)
      /\ Last' = Last + 1 /\ Len(view') = Last'
  BY <1>2, <1>3, AppendLog
<1>5. synced' \in 0 .. Last'
  BY <1>1, <1>4 DEF Record, Flushed, StoreOK
<1>6. Last' <= WalLimit
  BY <1>1, <1>4, ConstantsAssumption
<1>7. StoreOK'
  BY <1>2, <1>4, <1>5, <1>6 DEF Record, StoreOK
<1> QED
  BY <1>2, <1>3, <1>4, <1>7

\* What saving a snapshot does to the files and the cache.
LEMMA SaveSnapshotType ==
  ASSUME StoreOK, NEW s \in Snapshot, SaveSnapshot(s)
  PROVE  /\ snap' \in Snapshot /\ mem' \in Snapshot
         /\ open' \in BOOLEAN /\ loaded' \in BOOLEAN
         /\ synced' \in 0 .. Last /\ synced <= synced'
<1>1. Last \in 0 .. WalLimit
  BY LastNat
<1> QED
  BY <1>1, AbsentType DEF SaveSnapshot, StoreOK, Flushed, Settled

-----------------------------------------------------------------------------
(* Every action of the model, seen from the store, is one of these steps.  *)

\* The store is left alone.
Idle == UNCHANGED <<wal, synced, open, torn, snap, fate, loaded, mem, saving, view>>

Written(p) == p \in Patches /\ verdict[p] = "written"

Recorded ==
  \E e \in Event :
    /\ e.kind \in CommandKinds \ {"start"} => Admits(mem, e)
    /\ e.id # NoCommand => ~Known(e)
    /\ e.kind = "patch_committed" => Written(e.patch)
    /\ Record(e)

\* A record that saves no snapshot first.
Streamed ==
  \E e \in Event :
    /\ Current /\ Last < WalLimit /\ e.kind \notin CommandKinds
    /\ e.id = NoCommand /\ e.kind # "patch_committed"
    /\ Follows(e, Project(mem, e))
    /\ \/ mem' = mem /\ saving' = Project(mem, e)
       \/ mem' = Project(mem, e) /\ saving' = Absent
    /\ open' = TRUE
    /\ UNCHANGED <<synced, torn, snap, fate, loaded>>

Saved ==
  /\ saving # Absent /\ SaveSnapshot(saving) /\ saving' = Absent
  /\ UNCHANGED <<wal, torn, fate, view>>

SaveLost ==
  /\ saving' = Absent
  /\ UNCHANGED <<wal, synced, open, torn, snap, fate, loaded, mem, view>>

SavedAgain == Current /\ SaveNow(mem) /\ view' = view

\* A snapshot that changes at the same sequence number.
Amended ==
  \E s \in Snapshot :
    /\ Current /\ mem.seq > 0 /\ s.seq = mem.seq /\ ~Settled(s)
    /\ SaveNow(s) /\ Restated(s)

Restarted ==
  /\ "crash" \in Failures /\ fate = "kept"
  /\ loaded' = FALSE /\ mem' = Absent /\ saving' = Absent /\ open' = FALSE
  /\ UNCHANGED <<wal, synced, torn, snap, fate, view>>

LostPower ==
  /\ "power" \in Failures /\ fate = "kept"
  /\ loaded' = FALSE /\ mem' = Absent /\ saving' = Absent /\ open' = FALSE
  /\ \E n \in synced .. Last : CutAt(n) /\ synced' = n
  /\ torn' \in BOOLEAN
  /\ UNCHANGED <<snap, fate>>

Torn ==
  /\ Current
  /\ torn' = TRUE /\ open' = TRUE
  /\ UNCHANGED <<wal, synced, snap, fate, loaded, mem, saving, view>>

Deleted ==
  /\ fate' = "pruned" /\ wal' = <<>> /\ view' = <<>> /\ synced' = 0 /\ snap' = Absent
  /\ open' = FALSE /\ torn' = FALSE
  /\ loaded' = FALSE /\ mem' = Absent /\ saving' = Absent

StoreStep ==
  \/ Idle \/ Recorded \/ Streamed \/ Saved \/ SaveLost \/ Load \/ CatchUp
  \/ SavedAgain \/ Amended \/ Evict \/ Restarted \/ LostPower \/ Torn \/ Deleted

\* The events the actions record are events of the log.
LEMMA BlankType ==
  ASSUME NEW kind \in CommandKinds \cup RuntimeKinds
  PROVE  Blank(kind) \in Event /\ Blank(kind).id = NoCommand
BY AbsentType DEF Blank, Event, Statuses

LEMMA CommandType ==
  ASSUME NEW kind \in CommandKinds, NEW e \in Commands(kind)
  PROVE  e \in Event /\ e.kind = kind
<1>1. /\ e.kind = kind /\ e.id \in CommandIds /\ e.status = "none"
      /\ e.outcome = NoOutcome
  BY DEF Commands
<1>2. e.patch \in Patches \cup {NoPatch}
  BY DEF Commands
<1>3. e.gate \in Gate
  <2>1. CASE kind \in PlanKinds
    BY <2>1 DEF Commands, PlanKinds
  <2>2. CASE kind = "answer"
    BY <2>2 DEF Commands, PlanKinds
  <2>3. CASE kind \notin PlanKinds \cup {"answer"}
    BY <2>3, AbsentType DEF Commands
  <2> QED
    BY <2>1, <2>2, <2>3
<1>4. e.rev \in (0 .. MaxRevision) \cup {NoRevision}
  BY ConstantsAssumption DEF Commands
<1>5. e = [kind |-> e.kind, id |-> e.id, patch |-> e.patch, gate |-> e.gate,
           status |-> e.status, outcome |-> e.outcome, rev |-> e.rev]
  BY DEF Commands
<1> QED
  BY <1>1, <1>2, <1>3, <1>4, <1>5, AbsentType DEF Event, Statuses

LEMMA PatchEventType ==
  ASSUME NEW kind \in RuntimeKinds, NEW p \in Patches,
         NEW rev \in (0 .. MaxRevision) \cup {NoRevision}
  PROVE  /\ PatchEvent(kind, p, rev) \in Event /\ PatchEvent(kind, p, rev).kind = kind
         /\ PatchEvent(kind, p, rev).id = NoCommand /\ PatchEvent(kind, p, rev).patch = p
BY BlankType DEF PatchEvent, Blank, Event

LEMMA TerminalEventType ==
  ASSUME mem \in Snapshot, NEW status \in Statuses, NEW kind \in OutcomeKinds,
         NEW changed \in BOOLEAN
  PROVE  /\ TerminalEvent(status, kind, changed) \in Event
         /\ TerminalEvent(status, kind, changed).kind = "terminal"
         /\ TerminalEvent(status, kind, changed).id = NoCommand
<1>1. "terminal" \in RuntimeKinds
  BY DEF RuntimeKinds
<1>2. [kind |-> kind, changed |-> changed] \in Outcome
  BY DEF Outcome
<1> QED
  BY <1>1, <1>2, BlankType DEF TerminalEvent, Blank, Event, Snapshot

\* The record of a stream event, a lifecycle stage or an effect is no command.
LEMMA RuntimeIsNoCommand == RuntimeKinds \cap CommandKinds = {}
BY DEF RuntimeKinds, CommandKinds, PlanKinds, PatchKinds

LEMMA RecordedRuntime ==
  ASSUME NEW e \in Event, e.kind \in RuntimeKinds, e.id = NoCommand, Record(e),
         e.kind = "patch_committed" => Written(e.patch)
  PROVE  Recorded
BY RuntimeIsNoCommand DEF Recorded

LEMMA ClientSteps == ASSUME TypeOK, Clients PROVE StoreStep
<1>1. ASSUME NEW e \in Commands("start"), Start(e) PROVE StoreStep
  <2>1. e \in Event /\ e.kind = "start"
    BY CommandType DEF CommandKinds
  <2>2. ~Known(e)
    BY <1>1 DEF Start, Known
  <2> QED
    BY <1>1, <2>1, <2>2 DEF Start, StoreStep, Recorded
<1>2. ASSUME NEW kind \in ClientKinds, NEW e \in Commands(kind), Command(e)
      PROVE  StoreStep
  <2>1. kind \in CommandKinds
    BY ConstantsAssumption
  <2>2. e \in Event /\ e.kind # "patch_committed"
    BY <2>1, CommandType, RuntimeIsNoCommand DEF RuntimeKinds
  <2> QED
    BY <1>2, <2>2 DEF Command, StoreStep, Recorded
<1> QED
  BY <1>1, <1>2 DEF Clients

LEMMA StoreSteps == ASSUME TypeOK, Store PROVE StoreStep
<1>1. CASE Save
  BY <1>1 DEF Save, Saved, StoreStep
<1>2. CASE SaveFails
  BY <1>2 DEF SaveFails, SaveLost, StoreStep
<1>3. CASE Load \/ CatchUp \/ Evict
  BY <1>3 DEF StoreStep
<1>4. CASE Persist
  BY <1>4 DEF Persist, SavedAgain, StoreStep
<1> QED
  BY <1>1, <1>2, <1>3, <1>4 DEF Store

LEMMA StreamSteps == ASSUME TypeOK, Stream PROVE StoreStep
<1> USE DEF TypeOK
<1>1. CASE Attach \/ StopPublishing \/ SettleRefused
  BY <1>1 DEF Attach, StopPublishing, SettleRefused, disk, StoreStep, Idle
<1>2. CASE EditorLifecycle
  <2> DEFINE e == Blank("editor_lifecycle")
  <2>1. /\ e \in Event /\ e.kind = "editor_lifecycle" /\ e.kind \notin CommandKinds
        /\ e.id = NoCommand
    BY BlankType, RuntimeIsNoCommand DEF RuntimeKinds, Blank
  <2> HIDE DEF e
  <2>2. /\ Current /\ Last < WalLimit /\ Follows(e, Project(mem, e))
        /\ mem' = Project(mem, e) /\ saving' = Absent /\ open' = TRUE
        /\ UNCHANGED <<synced, torn, snap, fate, loaded>>
    BY <1>2 DEF EditorLifecycle, Current, Follows, e
  <2>3. Streamed
    BY <2>1, <2>2 DEF Streamed
  <2> QED
    BY <2>3 DEF StoreStep
<1>3. CASE RuntimeEffect
  <2>1. /\ Blank("effect") \in Event /\ Blank("effect").kind = "effect"
        /\ Blank("effect").id = NoCommand
    BY BlankType DEF RuntimeKinds, Blank
  <2>2. Recorded
    BY <1>3, <2>1, RecordedRuntime DEF RuntimeEffect, RuntimeKinds
  <2> QED
    BY <2>2 DEF StoreStep
<1>4. ASSUME NEW status \in StreamStatuses \cup {"none"}, NEW optional \in BOOLEAN,
             RecordStream(status, optional)
      PROVE  StoreStep
  <2> DEFINE e == [Blank("stream") EXCEPT !.status = status]
             saves == \/ status \notin {"none", mem.status}
                      \/ (Last + 1) % SnapshotInterval = 0
  <2>1. status \in Statuses
    BY ConstantsAssumption DEF Statuses
  <2>2. /\ e \in Event /\ e.kind = "stream" /\ e.kind \notin CommandKinds
        /\ e.id = NoCommand
    BY <2>1, BlankType, RuntimeIsNoCommand DEF RuntimeKinds, Blank, Event
  <2>3. Last < WalLimit
    BY <1>4, LastNat, ConstantsAssumption DEF RecordStream
  <2>4. /\ Follows(e, Project(mem, e))
        /\ saving' = IF saves THEN Project(mem, e) ELSE Absent
        /\ mem' = IF saves THEN mem ELSE Project(mem, e)
    BY <1>4 DEF RecordStream, Follows
  <2> HIDE DEF e, saves
  <2>5. /\ Current /\ open' = TRUE
        /\ UNCHANGED <<synced, torn, snap, fate, loaded>>
    BY <1>4 DEF RecordStream, Streaming
  <2>6. Streamed
    BY <2>2, <2>3, <2>4, <2>5 DEF Streamed
  <2> QED
    BY <2>6 DEF StoreStep
<1>5. ASSUME NEW status \in StreamStatuses, SkipStream(status) PROVE StoreStep
  <2> DEFINE s == [mem EXCEPT !.status = status]
  <2>1. status \in Statuses \ Terminals
    BY ConstantsAssumption DEF Statuses, Working, Terminals
  <2>2. s \in Snapshot /\ s.seq = mem.seq /\ ~Settled(s)
    BY <2>1 DEF StoreOK, Snapshot, Settled
  <2>3. Current /\ mem.seq > 0 /\ SaveNow(s) /\ view' = [view EXCEPT ![Last] = snap']
    BY <1>5 DEF SkipStream, Streaming
  <2> HIDE DEF s
  <2>4. Restated(s)
    BY <2>3 DEF Restated, SaveNow, SaveSnapshot
  <2> QED
    BY <2>2, <2>3, <2>4 DEF StoreStep, Amended
<1>6. ASSUME NEW version \in 1 .. MaxLedger, FoldLedger(version) PROVE StoreStep
  <2> DEFINE s == [mem EXCEPT !.ledger = version]
  <2>0. version \in 0 .. MaxLedger
    BY ConstantsAssumption
  <2>1. s \in Snapshot /\ s.seq = mem.seq /\ s.status = mem.status
    BY <2>0 DEF StoreOK, Snapshot
  <2>2. /\ Current /\ mem.seq > 0 /\ ~Settled(mem) /\ SaveNow(s)
        /\ view' = [view EXCEPT ![Last] = snap']
    BY <1>6 DEF FoldLedger, Streaming
  <2> HIDE DEF s
  <2>3. Restated(s) /\ ~Settled(s)
    BY <2>1, <2>2 DEF Restated, SaveNow, SaveSnapshot, Settled
  <2> QED
    BY <2>1, <2>2, <2>3 DEF StoreStep, Amended
<1>7. ASSUME NEW kind \in GateKinds, OpenGate(kind) PROVE StoreStep
  <2> DEFINE e == [Blank("gate_opened") EXCEPT
       !.status = IF kind = "plan_approval" THEN "awaiting_approval" ELSE "awaiting_answer",
       !.gate = [id |-> Last + 1, kind |-> kind]]
  <2>1. Record(e)
    BY <1>7 DEF OpenGate
  <2>2. Last + 1 \in 0 .. WalLimit
    BY <2>1, LastNat, ConstantsAssumption DEF Record
  <2>3. [id |-> Last + 1, kind |-> kind] \in Gate
    BY <2>2 DEF Gate
  <2>4. /\ e \in Event /\ e.kind \in RuntimeKinds /\ e.id = NoCommand
        /\ e.kind # "patch_committed"
    BY <2>3, BlankType DEF Blank, Event, RuntimeKinds, Statuses, Working
  <2> HIDE DEF e
  <2> QED
    BY <2>1, <2>4, RecordedRuntime DEF StoreStep
<1>8. ASSUME NEW p \in Patches, WritePatch(p) PROVE StoreStep
  BY <1>8 DEF WritePatch, disk, StoreStep, Idle
<1>9. ASSUME NEW p \in Patches, NEW rev \in (0 .. MaxRevision) \cup {NoRevision},
             ProposePatch(p, rev) \/ RecordCommitted(p, rev) \/ RecordStale(p, rev)
      PROVE  StoreStep
  <2>1. PICK kind \in {"patch_proposed", "patch_committed", "patch_stale"} :
          /\ Record(PatchEvent(kind, p, rev))
          /\ kind = "patch_committed" => verdict[p] = "written"
    BY <1>9 DEF ProposePatch, RecordCommitted, RecordStale
  <2>2. kind \in RuntimeKinds
    BY DEF RuntimeKinds
  <2>3. /\ PatchEvent(kind, p, rev) \in Event /\ PatchEvent(kind, p, rev).kind = kind
        /\ PatchEvent(kind, p, rev).id = NoCommand /\ PatchEvent(kind, p, rev).patch = p
    BY <2>2, PatchEventType
  <2> QED
    BY <2>1, <2>2, <2>3, RecordedRuntime DEF StoreStep, Written
<1>10. ASSUME NEW settlement \in Settlements, Complete(settlement) PROVE StoreStep
  <2> DEFINE e == TerminalEvent(settlement.status, settlement.kind, AutoCommitted)
  <2>1. settlement.status \in Statuses /\ settlement.kind \in OutcomeKinds
    BY DEF Settlements, Statuses, Terminals, OutcomeKinds
  <2>2. AutoCommitted \in BOOLEAN
    BY DEF AutoCommitted
  <2>3. e \in Event /\ e.kind = "terminal" /\ e.id = NoCommand
    BY <2>1, <2>2, TerminalEventType DEF StoreOK
  <2>4. Record(e)
    BY <1>10 DEF Complete
  <2> HIDE DEF e
  <2> QED
    BY <2>3, <2>4, RecordedRuntime DEF StoreStep, RuntimeKinds
<1> QED
  BY <1>1, <1>2, <1>3, <1>4, <1>5, <1>6, <1>7, <1>8, <1>9, <1>10 DEF Stream

LEMMA ReconcileSteps == ASSUME TypeOK, Reconcile PROVE StoreStep
<1> USE DEF TypeOK
<1>1. CASE ReconcileSkip \/ ReconcileFails
  BY <1>1 DEF ReconcileSkip, ReconcileFails, disk, StoreStep, Idle
<1>2. CASE ReconcileLook
  BY <1>2 DEF ReconcileLook, disk, StoreStep, Idle, SavedAgain
<1>3. CASE ReconcileClose
  <2> DEFINE e == TerminalEvent("failed", "interrupted", recon = "close_changed")
  <2>1. e \in Event /\ e.kind = "terminal" /\ e.id = NoCommand
    BY TerminalEventType DEF StoreOK, Statuses, Terminals, OutcomeKinds
  <2>2. Record(e)
    BY <1>3 DEF ReconcileClose
  <2> HIDE DEF e
  <2> QED
    BY <2>1, <2>2, RecordedRuntime DEF StoreStep, RuntimeKinds
<1> QED
  BY <1>1, <1>2, <1>3 DEF Reconcile

LEMMA FailureSteps ==
  ASSUME TypeOK, Crash \/ PowerLoss \/ AppendFails \/ Prune PROVE StoreStep
<1>1. CASE Crash
  BY <1>1 DEF Crash, Restart, StoreStep, Restarted
<1>2. CASE PowerLoss
  <2>1. torn \in BOOLEAN
    BY DEF TypeOK, StoreOK
  <2> QED
    BY <1>2, <2>1 DEF PowerLoss, Restart, StoreStep, LostPower, CutAt
<1>3. CASE AppendFails
  BY <1>3 DEF AppendFails, StoreStep, Torn
<1>4. CASE Prune
  BY <1>4 DEF Prune, disk, StoreStep, Deleted, Idle
<1> QED
  BY <1>1, <1>2, <1>3, <1>4

LEMMA NextIsStoreStep == ASSUME TypeOK, [Next]_vars PROVE StoreStep
<1>1. CASE UNCHANGED vars
  BY <1>1 DEF vars, StoreStep, Idle
<1> QED
  BY <1>1, ClientSteps, StoreSteps, StreamSteps, ReconcileSteps, FailureSteps DEF Next

-----------------------------------------------------------------------------
(* Type correctness.                                                       *)

LEMMA RecordedType == ASSUME StoreOK, Recorded PROVE StoreOK'
BY RecordType DEF Recorded

LEMMA StreamedType == ASSUME StoreOK, Streamed PROVE StoreOK'
<1>1. PICK e \in Event :
        /\ Current /\ Last < WalLimit /\ Follows(e, Project(mem, e))
        /\ \/ mem' = mem /\ saving' = Project(mem, e)
           \/ mem' = Project(mem, e) /\ saving' = Absent
        /\ open' = TRUE
        /\ UNCHANGED <<synced, torn, snap, fate, loaded>>
  BY DEF Streamed
<1>2. Last \in 0 .. WalLimit /\ mem.seq = Last
  BY <1>1, LastNat DEF Current
<1>3. Project(mem, e) \in Snapshot
  BY <1>1, <1>2, ProjectType DEF StoreOK
<1>4. /\ wal' \in Seq(Event) /\ view' \in Seq(Snapshot)
      /\ Last' = Last + 1 /\ Len(view') = Last'
  BY <1>1, <1>3, AppendLog
<1>5. Last' <= WalLimit
  BY <1>1, <1>2, <1>4, ConstantsAssumption
<1>6. synced' \in 0 .. Last'
  BY <1>1, <1>2, <1>4 DEF StoreOK
<1>7. mem' \in Snapshot /\ saving' \in Snapshot
  BY <1>1, <1>3, AbsentType DEF StoreOK
<1> QED
  BY <1>1, <1>4, <1>5, <1>6, <1>7 DEF StoreOK

LEMMA AmendedType == ASSUME StoreOK, Amended PROVE StoreOK'
<1>1. PICK s \in Snapshot :
        /\ Current /\ mem.seq > 0 /\ SaveSnapshot(s) /\ Restated(s)
        /\ UNCHANGED <<wal, torn, fate, saving>>
  BY DEF Amended, SaveNow
<1>2. Last > 0
  BY <1>1 DEF Current
<1>3. /\ wal' \in Seq(Event) /\ view' \in Seq(Snapshot)
      /\ Last' = Last /\ Len(view') = Last
  BY <1>1, <1>2, RestateLog
<1>4. /\ snap' \in Snapshot /\ mem' \in Snapshot /\ open' \in BOOLEAN /\ loaded' \in BOOLEAN
      /\ synced' \in 0 .. Last
  BY <1>1, SaveSnapshotType
<1> QED
  BY <1>1, <1>3, <1>4 DEF StoreOK

LEMMA SavedType == ASSUME StoreOK, Saved \/ SavedAgain PROVE StoreOK'
<1>1. PICK s \in Snapshot :
        /\ SaveSnapshot(s) /\ saving' \in {saving, Absent}
        /\ UNCHANGED <<wal, torn, fate, view>>
  BY DEF Saved, SavedAgain, SaveNow, StoreOK
<1>2. /\ snap' \in Snapshot /\ mem' \in Snapshot /\ open' \in BOOLEAN /\ loaded' \in BOOLEAN
      /\ synced' \in 0 .. Last
  BY <1>1, SaveSnapshotType
<1>3. Last' = Last
  BY <1>1 DEF Last
<1>4. saving' \in Snapshot
  BY <1>1, AbsentType DEF StoreOK
<1> QED
  BY <1>1, <1>2, <1>3, <1>4 DEF StoreOK

LEMMA CatchUpType == ASSUME StoreOK, CatchUp PROVE StoreOK'
<1> DEFINE e == wal[mem.seq + 1]
<1>1. Last \in 0 .. WalLimit /\ mem.seq \in 0 .. WalLimit /\ mem.seq < Last
  BY LastNat DEF CatchUp, StoreOK, Snapshot
<1>2. e \in Event
  BY <1>1, ElementOfSeq DEF StoreOK, Last
<1>3. mem.seq < WalLimit
  BY <1>1, ConstantsAssumption
<1>4. mem' = Project(mem, e)
  BY DEF CatchUp
<1> HIDE DEF e
<1>5. mem' \in Snapshot
  BY <1>2, <1>3, <1>4, ProjectType DEF StoreOK
<1>6. UNCHANGED <<wal, synced, open, torn, snap, fate, loaded, saving, view>>
  BY DEF CatchUp
<1> QED
  BY <1>5, <1>6 DEF StoreOK, Last

LEMMA LostPowerType == ASSUME StoreOK, LostPower PROVE StoreOK'
<1>1. PICK n \in synced .. Last : CutAt(n) /\ synced' = n
  BY DEF LostPower
<1>2. n \in 0 .. Last /\ Last \in 0 .. WalLimit
  BY LastNat DEF StoreOK
<1>3. /\ wal' \in Seq(Event) /\ view' \in Seq(Snapshot)
      /\ Last' = n /\ Len(view') = n
  BY <1>1, <1>2, CutLog
<1>4. Last' <= WalLimit /\ synced' \in 0 .. Last'
  BY <1>1, <1>2, <1>3, ConstantsAssumption
<1> QED
  BY <1>3, <1>4, AbsentType DEF LostPower, StoreOK

LEMMA StoreStepType == ASSUME StoreOK, StoreStep PROVE StoreOK'
<1>1. CASE Idle
  BY <1>1 DEF Idle, StoreOK, Last
<1>2. CASE SaveLost
  BY <1>2, AbsentType DEF SaveLost, StoreOK, Last
<1>3. CASE Load
  BY <1>3 DEF Load, StoreOK, Last
<1>4. CASE Evict
  BY <1>4, AbsentType DEF Evict, StoreOK, Last
<1>5. CASE Restarted
  BY <1>5, AbsentType DEF Restarted, StoreOK, Last
<1>6. CASE Torn
  BY <1>6 DEF Torn, StoreOK, Last
<1>7. CASE Deleted
  <2>1. <<>> \in Seq(Event) /\ <<>> \in Seq(Snapshot) /\ Len(<<>>) = 0
    BY EmptySeq
  <2>2. wal' \in Seq(Event) /\ view' \in Seq(Snapshot) /\ Last' = 0 /\ Len(view') = 0
    BY <1>7, <2>1, Zenon DEF Deleted, Last
  <2>3. Last' <= WalLimit /\ synced' \in 0 .. Last'
    BY <1>7, <2>2, ConstantsAssumption DEF Deleted
  <2>4. /\ open' \in BOOLEAN /\ torn' \in BOOLEAN /\ loaded' \in BOOLEAN
        /\ snap' \in Snapshot /\ mem' \in Snapshot /\ saving' \in Snapshot
        /\ fate' = "pruned"
    BY <1>7, AbsentType DEF Deleted
  <2> QED
    BY <2>2, <2>3, <2>4 DEF StoreOK
<1> QED
  BY <1>1, <1>2, <1>3, <1>4, <1>5, <1>6, <1>7, RecordedType, StreamedType, AmendedType,
     SavedType, CatchUpType, LostPowerType DEF StoreStep

\* What the host knows changes only from one of its states to another.
LEMMA HostStepType == ASSUME HostOK, [Next]_vars PROVE HostOK'
<1> USE DEF HostOK
<1>1. CASE Clients
  BY <1>1 DEF Clients, Start, Command
<1>2. CASE Store
  BY <1>2 DEF Store, Save, SaveFails, Load, CatchUp, Persist, Evict
<1>3. CASE Stream
  <2>1. CASE Attach \/ EditorLifecycle \/ RuntimeEffect \/ StopPublishing \/ SettleRefused
    BY <2>1 DEF Attach, EditorLifecycle, RuntimeEffect, StopPublishing, SettleRefused
  <2>2. ASSUME NEW status, NEW optional, RecordStream(status, optional) PROVE HostOK'
    BY <2>2 DEF RecordStream
  <2>3. ASSUME NEW x, SkipStream(x) \/ FoldLedger(x) \/ OpenGate(x) PROVE HostOK'
    BY <2>3 DEF SkipStream, FoldLedger, OpenGate
  <2>4. ASSUME NEW p \in Patches, WritePatch(p) PROVE HostOK'
    BY <2>4 DEF WritePatch
  <2>5. ASSUME NEW p \in Patches, NEW rev,
               ProposePatch(p, rev) \/ RecordCommitted(p, rev) \/ RecordStale(p, rev)
        PROVE  HostOK'
    BY <2>5 DEF ProposePatch, RecordCommitted, RecordStale
  <2>6. ASSUME NEW settlement, Complete(settlement) PROVE HostOK'
    BY <2>6 DEF Complete
  <2> QED
    BY <1>3, <2>1, <2>2, <2>3, <2>4, <2>5, <2>6 DEF Stream
<1>4. CASE Reconcile
  BY <1>4 DEF Reconcile, ReconcileSkip, ReconcileLook, ReconcileClose, ReconcileFails
<1>5. CASE Crash \/ PowerLoss \/ AppendFails
  BY <1>5 DEF Crash, PowerLoss, AppendFails, Restart
<1>6. CASE Prune
  BY <1>6 DEF Prune
<1>7. CASE UNCHANGED vars
  BY <1>7 DEF vars
<1> QED
  BY <1>1, <1>2, <1>3, <1>4, <1>5, <1>6, <1>7 DEF Next

\* Whatever the commands, failures and restarts, the log stays within its limit and
\* every snapshot, in the file, in memory or between the two, is one the schema has.
THEOREM TypeCorrect == Spec => []TypeOK
<1>1. Init => TypeOK
  <2> SUFFICES ASSUME Init PROVE TypeOK
    OBVIOUS
  <2>1. <<>> \in Seq(Event) /\ <<>> \in Seq(Snapshot) /\ Len(<<>>) = 0
    BY EmptySeq
  <2>2. wal \in Seq(Event) /\ view \in Seq(Snapshot) /\ Last = 0 /\ Len(view) = 0
    BY <2>1, Zenon DEF Init, Last
  <2>3. StoreOK
    <3>1. /\ synced = 0 /\ open = FALSE /\ torn = FALSE /\ loaded = FALSE
          /\ snap = Absent /\ mem = Absent /\ saving = Absent /\ fate = "kept"
      BY DEF Init
    <3>2. Last <= WalLimit /\ synced \in 0 .. Last
      BY <2>2, <3>1, ConstantsAssumption
    <3> QED
      BY <2>2, <3>1, <3>2, AbsentType DEF StoreOK
  <2>4. HostOK
    BY DEF Init, HostOK
  <2> QED
    BY <2>3, <2>4 DEF TypeOK
<1>2. TypeOK /\ [Next]_vars => TypeOK'
  BY NextIsStoreStep, StoreStepType, HostStepType DEF TypeOK
<1> QED
  BY <1>1, <1>2, PTL DEF Spec

-----------------------------------------------------------------------------
(* Where the snapshots of the run stand in its log.                        *)

Positions ==
  /\ fate # "kept" => saving = Absent
  /\ mem.seq <= Last
  /\ loaded => snap.seq <= mem.seq
  /\ saving # Absent => saving.seq = Last /\ Last > 0
  /\ snap.seq = 0 => snap = Absent
  /\ mem.seq = 0 => mem = Absent

LEMMA RecordedPositions == ASSUME StoreOK, Positions, Recorded PROVE Positions'
<1>1. PICK e \in Event : Record(e)
  BY DEF Recorded
<1>2. saving'.seq = Last' /\ Last' = Last + 1
  BY <1>1, RecordType
<1>3. /\ mem' = mem /\ snap' = mem /\ loaded' = loaded /\ fate' = fate /\ fate = "kept"
  BY <1>1 DEF Record, Current
<1>4. Last \in Nat /\ mem.seq \in Nat
  BY LastNat DEF StoreOK, Snapshot
<1> QED
  BY <1>2, <1>3, <1>4 DEF Positions

LEMMA StreamedPositions == ASSUME StoreOK, Positions, Streamed PROVE Positions'
<1>1. PICK e \in Event :
        /\ Current /\ Last < WalLimit /\ Follows(e, Project(mem, e))
        /\ \/ mem' = mem /\ saving' = Project(mem, e)
           \/ mem' = Project(mem, e) /\ saving' = Absent
        /\ UNCHANGED <<snap, fate, loaded>>
  BY DEF Streamed
<1>2. Last \in Nat /\ mem.seq = Last /\ snap.seq \in Nat
  BY <1>1, LastNat DEF Current, StoreOK, Snapshot
<1>3. Project(mem, e) \in Snapshot /\ Project(mem, e).seq = Last + 1
  BY <1>1, <1>2, ProjectType DEF StoreOK
<1>4. Last' = Last + 1
  BY <1>1, <1>3, AppendLog
<1> QED
  BY <1>1, <1>2, <1>3, <1>4 DEF Positions, Current

LEMMA SavedPositions ==
  ASSUME StoreOK, Positions, Saved \/ SavedAgain \/ Amended PROVE Positions'
<1>1. PICK s \in Snapshot :
        /\ SaveSnapshot(s) /\ s.seq = Last
        /\ s.seq = 0 => s = Absent
        /\ saving' = Absent /\ Last' = Last
  <2>1. CASE Saved
    <3>1. saving \in Snapshot /\ saving.seq = Last /\ Last > 0
      BY <2>1 DEF Saved, Positions, StoreOK
    <3> QED
      BY <2>1, <3>1 DEF Saved, Last
  <2>2. CASE SavedAgain
    BY <2>2 DEF SavedAgain, SaveNow, Current, Positions, StoreOK, Last
  <2>3. CASE Amended
    BY <2>3 DEF Amended, SaveNow, Current, Last
  <2> QED
    BY <2>1, <2>2, <2>3
<1>2. /\ snap' = s
      /\ \/ loaded' = FALSE /\ mem' = Absent
         \/ mem' = s
  BY <1>1 DEF SaveSnapshot
<1>3. Last \in Nat /\ Absent.seq = 0
  BY LastNat DEF Absent
<1> QED
  BY <1>1, <1>2, <1>3 DEF Positions

LEMMA StoreStepPositions == ASSUME StoreOK, Positions, StoreStep PROVE Positions'
<1> USE DEF Positions
<1>0. /\ Last \in Nat /\ mem.seq \in Nat /\ snap.seq \in Nat
      /\ Absent.seq = 0
  BY LastNat DEF StoreOK, Snapshot, Absent
<1>1. CASE Idle
  BY <1>1 DEF Idle, Last
<1>2. CASE SaveLost
  BY <1>2 DEF SaveLost, Last
<1>3. CASE Load
  BY <1>0, <1>3 DEF Load, Corrupt, Last
<1>4. CASE CatchUp
  <2> DEFINE e == wal[mem.seq + 1]
  <2>1. Last \in 0 .. WalLimit /\ mem.seq < Last /\ mem.seq < WalLimit
    BY <1>0, <1>4, LastNat, ConstantsAssumption DEF CatchUp
  <2>2. e \in Event
    BY <1>0, <2>1, ElementOfSeq DEF StoreOK, Last
  <2>3. mem' = Project(mem, e)
    BY <1>4 DEF CatchUp
  <2> HIDE DEF e
  <2>4. mem'.seq = mem.seq + 1
    BY <2>1, <2>2, <2>3, ProjectType DEF StoreOK
  <2>5. UNCHANGED <<wal, snap, fate, loaded, saving>>
    BY <1>4 DEF CatchUp
  <2> QED
    BY <1>0, <2>1, <2>4, <2>5 DEF Last
<1>5. CASE Evict
  BY <1>0, <1>5 DEF Evict, Last
<1>6. CASE Restarted
  BY <1>0, <1>6 DEF Restarted, Last
<1>7. CASE LostPower
  <2>1. PICK n \in synced .. Last : CutAt(n)
    BY <1>7 DEF LostPower
  <2>2. n \in 0 .. Last
    BY <1>0 DEF StoreOK
  <2>3. Last' = n
    BY <2>1, <2>2, CutLog
  <2> QED
    BY <1>0, <1>7, <2>2, <2>3 DEF LostPower
<1>8. CASE Torn
  BY <1>8 DEF Torn, Last
<1>9. CASE Deleted
  <2>1. Last' \in Nat
    <3>1. StoreOK'
      BY <1>9, StoreStepType DEF StoreStep
    <3> QED
      BY <3>1 DEF StoreOK, Last
  <2>2. mem' = Absent /\ snap' = Absent /\ saving' = Absent /\ loaded' = FALSE
    BY <1>9 DEF Deleted
  <2> QED
    BY <1>0, <2>1, <2>2
<1> QED
  BY <1>1, <1>2, <1>3, <1>4, <1>5, <1>6, <1>7, <1>8, <1>9, RecordedPositions,
     StreamedPositions, SavedPositions DEF StoreStep

-----------------------------------------------------------------------------
(* The snapshot file and the log.                                          *)

\* What makes a loss of power harmless: the log is on the disk up to the snapshot,
\* and all of it is there once its descriptor is closed.
PowerSafe ==
  "power" \in Failures =>
    /\ snap.seq <= synced
    /\ fate = "kept" => open \/ synced = Last

LogInv == Positions /\ SnapshotWithinLog /\ PowerSafe

LEMMA LogInvStep ==
  ASSUME StoreOK, LogInv, StoreStep, ~({"crash", "power"} \subseteq Failures)
  PROVE  LogInv'
<1> USE DEF LogInv, SnapshotWithinLog, PowerSafe
<1>0. /\ Last \in Nat /\ mem.seq \in Nat /\ snap.seq \in Nat /\ synced \in 0 .. Last
      /\ Absent.seq = 0
  BY LastNat DEF StoreOK, Snapshot, Absent
<1>p. Positions'
  BY StoreStepPositions
<1>1. CASE Idle
  BY <1>p, <1>1 DEF Idle, Last
<1>2. CASE SaveLost
  BY <1>p, <1>2 DEF SaveLost, Last
<1>3. CASE Load \/ CatchUp \/ Evict \/ Torn
  BY <1>0, <1>p, <1>3 DEF Load, CatchUp, Evict, Torn, Last
<1>4. CASE Recorded
  <2>1. PICK e \in Event : Record(e)
    BY <1>4 DEF Recorded
  <2>2. Last' = Last + 1
    BY <2>1, RecordType
  <2>3. /\ snap' = mem /\ open' = TRUE /\ mem.seq = Last /\ fate = "kept"
        /\ synced' = IF mem.seq = snap.seq THEN synced ELSE Flushed
    BY <2>1 DEF Record, Current
  <2> QED
    BY <1>0, <1>p, <2>2, <2>3 DEF Flushed
<1>5. CASE Streamed
  <2>1. PICK e \in Event :
          /\ Current /\ Last < WalLimit /\ Follows(e, Project(mem, e))
          /\ open' = TRUE /\ UNCHANGED <<synced, snap, fate>>
    BY <1>5 DEF Streamed
  <2>2. Project(mem, e) \in Snapshot
    BY <1>0, <2>1, ProjectType DEF Current, StoreOK
  <2>3. Last' = Last + 1
    BY <2>1, <2>2, AppendLog
  <2> QED
    BY <1>0, <1>p, <2>1, <2>3
<1>6. CASE Saved \/ SavedAgain \/ Amended
  <2>1. PICK s \in Snapshot : SaveSnapshot(s) /\ s.seq = Last /\ Last' = Last
    <3>1. CASE Saved
      <4>1. saving \in Snapshot /\ saving.seq = Last
        BY <3>1 DEF Saved, Positions, StoreOK
      <4> QED
        BY <3>1, <4>1 DEF Saved, Last
    <3>2. CASE SavedAgain
      BY <3>2 DEF SavedAgain, SaveNow, Current, StoreOK, Last
    <3>3. CASE Amended
      BY <3>3 DEF Amended, SaveNow, Current, Last
    <3> QED
      BY <1>6, <3>1, <3>2, <3>3
  <2>2. snap' = s /\ synced' = Flushed /\ open' = (open /\ ~Settled(s))
    BY <2>1 DEF SaveSnapshot
  <2>3. fate = "kept" /\ fate' = fate
    BY <1>6 DEF Saved, SavedAgain, Amended, SaveNow, Current, Positions, StoreOK
  <2>4. "power" \in Failures => Flushed = Last
    BY <2>3 DEF Flushed
  <2>5. synced' = Flushed /\ snap'.seq = Last'
    BY <2>1, <2>2
  <2> QED
    BY <1>0, <1>p, <2>1, <2>4, <2>5
<1>7. CASE Restarted
  BY <1>0, <1>p, <1>7 DEF Restarted, Last
<1>8. CASE LostPower
  <2>1. PICK n \in synced .. Last : CutAt(n) /\ synced' = n
    BY <1>8 DEF LostPower
  <2>2. n \in 0 .. Last
    BY <1>0
  <2>3. Last' = n
    BY <2>1, <2>2, CutLog
  <2>4. "power" \in Failures /\ snap' = snap
    BY <1>8 DEF LostPower
  <2> QED
    BY <1>0, <1>p, <2>1, <2>2, <2>3, <2>4
<1>9. CASE Deleted
  <2>1. StoreOK'
    BY <1>9, StoreStepType DEF StoreStep
  <2>2. Last' \in Nat /\ synced' = 0 /\ snap' = Absent /\ fate' = "pruned"
    BY <1>9, <2>1 DEF StoreOK, Last, Deleted
  <2> QED
    BY <1>0, <1>p, <2>2
<1> QED
  BY <1>1, <1>2, <1>3, <1>4, <1>5, <1>6, <1>7, <1>8, <1>9 DEF StoreStep

LEMMA InitEmpty == ASSUME Init PROVE Last = 0 /\ Positions
<1>1. Len(<<>>) = 0
  BY EmptySeq
<1>2. Last = 0
  BY <1>1, Zenon DEF Init, Last
<1>3. snap = Absent /\ mem = Absent /\ saving = Absent /\ loaded = FALSE
  BY DEF Init
<1>4. Absent.seq = 0
  BY DEF Absent
<1> QED
  BY <1>2, <1>3, <1>4 DEF Positions

\* As long as a process crash and a loss of power are not both possible, the snapshot
\* file is never ahead of the log, so no run is quarantined for its snapshot.
THEOREM SnapshotNeverAhead ==
  ASSUME ~({"crash", "power"} \subseteq Failures)
  PROVE  Spec => []SnapshotWithinLog
<1>1. Init => LogInv
  <2> SUFFICES ASSUME Init PROVE LogInv
    OBVIOUS
  <2>1. snap = Absent /\ synced = 0
    BY DEF Init
  <2> QED
    BY <2>1, InitEmpty DEF LogInv, SnapshotWithinLog, PowerSafe, Absent
<1>2. TypeOK /\ LogInv /\ [Next]_vars => LogInv'
  BY NextIsStoreStep, LogInvStep DEF TypeOK
<1>3. LogInv => SnapshotWithinLog
  BY DEF LogInv
<1> QED
  BY <1>1, <1>2, <1>3, TypeCorrect, PTL DEF Spec

-----------------------------------------------------------------------------
(* Recovery.                                                               *)

RecoveryInv == Positions /\ RecoveryAgrees

\* Record i leads from the projection before it to the projection at it.
Replays(i) ==
  /\ view[i] = Project(Before(i), wal[i])
  /\ wal[i].kind \in CommandKinds \ {"start"} => Admits(Before(i), wal[i])

\* A projection that stands at the log's end is what the next record starts from.
LEMMA CurrentIsBefore ==
  ASSUME StoreOK, Positions, RecoveryAgrees, Current
  PROVE  mem = IF Last = 0 THEN Absent ELSE view[Last]
<1>1. Last \in Nat /\ mem.seq = Last
  BY LastNat DEF Current
<1> QED
  BY <1>1 DEF Positions, RecoveryAgrees

LEMMA AppendedAgrees ==
  ASSUME StoreOK, Positions, RecoveryAgrees, Current,
         NEW e \in Event, Project(mem, e) \in Snapshot, Follows(e, Project(mem, e)),
         e.kind \in CommandKinds \ {"start"} => Admits(mem, e)
  PROVE  /\ Last' = Last + 1 /\ view'[Last'] = Project(mem, e)
         /\ \A i \in 1 .. Last : view'[i] = view[i]
         /\ Replays(Last)'
         /\ \A i \in snap.seq + 1 .. Last : Replays(i)'
<1>1. /\ Last' = Last + 1
      /\ \A i \in 1 .. Last : wal'[i] = wal[i] /\ view'[i] = view[i]
      /\ wal'[Last'] = e /\ view'[Last'] = Project(mem, e)
  BY AppendLog
<1>2. Last \in Nat /\ snap.seq \in Nat
  BY LastNat DEF StoreOK, Snapshot
<1>3. Before(Last)' = mem
  BY <1>1, <1>2, CurrentIsBefore DEF Before
<1>4. Replays(Last)'
  BY <1>1, <1>3 DEF Replays
<1>5. ASSUME NEW i \in snap.seq + 1 .. Last PROVE Replays(i)'
  <2>1. i \in 1 .. Last /\ (i # 1 => i - 1 \in 1 .. Last)
    BY <1>2
  <2>2. wal'[i] = wal[i] /\ view'[i] = view[i] /\ Before(i)' = Before(i)
    BY <1>1, <2>1 DEF Before
  <2>3. Replays(i)
    BY DEF RecoveryAgrees, Replays
  <2> QED
    BY <2>2, <2>3 DEF Replays
<1> QED
  BY <1>1, <1>4, <1>5

LEMMA RecordedAgrees ==
  ASSUME StoreOK, Positions, RecoveryAgrees, Recorded PROVE RecoveryAgrees'
<1>1. PICK e \in Event :
        /\ e.kind \in CommandKinds \ {"start"} => Admits(mem, e)
        /\ Record(e)
  BY DEF Recorded
<1>2. /\ Current /\ snap' = mem /\ mem' = mem
      /\ saving' = Project(mem, e) /\ saving' \in Snapshot /\ Follows(e, Project(mem, e))
  BY <1>1, RecordType DEF Record
<1>3. /\ Last' = Last + 1 /\ view'[Last'] = Project(mem, e)
      /\ \A i \in 1 .. Last : view'[i] = view[i]
      /\ Replays(Last)'
  BY <1>1, <1>2, AppendedAgrees
<1>4. Last \in Nat /\ mem.seq = Last
  BY <1>2, LastNat DEF Current
<1>5. Last > 0 => mem = view'[Last]
  BY <1>2, <1>3, <1>4, CurrentIsBefore
<1>6. \A i \in snap'.seq + 1 .. Last' : i = Last'
  BY <1>2, <1>3, <1>4
<1>7. \A i \in snap'.seq + 1 .. Last' : Replays(i)'
  BY <1>3, <1>6
<1> QED
  BY <1>2, <1>3, <1>4, <1>5, <1>7 DEF RecoveryAgrees, Replays

LEMMA StreamedAgrees ==
  ASSUME StoreOK, Positions, RecoveryAgrees, Streamed PROVE RecoveryAgrees'
<1>1. PICK e \in Event :
        /\ Current /\ Last < WalLimit /\ e.kind \notin CommandKinds
        /\ Follows(e, Project(mem, e))
        /\ \/ mem' = mem /\ saving' = Project(mem, e)
           \/ mem' = Project(mem, e) /\ saving' = Absent
        /\ snap' = snap
  BY DEF Streamed
<1>2. Last \in Nat /\ mem.seq = Last /\ snap.seq \in Nat
  BY <1>1, LastNat DEF Current, StoreOK, Snapshot
<1>3. Project(mem, e) \in Snapshot /\ Project(mem, e).seq = Last + 1
  BY <1>1, <1>2, ProjectType DEF StoreOK
<1>4. /\ Last' = Last + 1 /\ view'[Last'] = Project(mem, e)
      /\ \A i \in 1 .. Last : view'[i] = view[i]
      /\ Replays(Last)'
      /\ \A i \in snap.seq + 1 .. Last : Replays(i)'
  BY <1>1, <1>3, AppendedAgrees
<1>5. snap.seq <= Last
  BY <1>1, <1>2 DEF Positions, Current
<1>6. \A i \in snap.seq + 1 .. Last' : i = Last' \/ i \in snap.seq + 1 .. Last
  BY <1>2, <1>4
<1>7. \A i \in snap'.seq + 1 .. Last' : Replays(i)'
  BY <1>1, <1>4, <1>6
<1>8. snap'.seq \in 1 .. Last' => snap' = view'[snap'.seq]
  BY <1>1, <1>2, <1>4, <1>5 DEF RecoveryAgrees
<1>9. mem'.seq \in 1 .. Last' => mem' = view'[mem'.seq]
  BY <1>1, <1>2, <1>3, <1>4 DEF RecoveryAgrees
<1>10. saving' # Absent => saving' = view'[Last']
  BY <1>1, <1>4
<1> QED
  BY <1>7, <1>8, <1>9, <1>10 DEF RecoveryAgrees, Replays

LEMMA SavedAgrees ==
  ASSUME StoreOK, Positions, RecoveryAgrees, Saved \/ SavedAgain \/ Amended
  PROVE  RecoveryAgrees'
<1>0. Last \in Nat /\ Absent.seq = 0
  BY LastNat DEF Absent
<1>1. PICK s \in Snapshot :
        /\ SaveSnapshot(s) /\ s.seq = Last /\ saving' = Absent /\ Last' = Last
        /\ Last > 0 => s = view'[Last]
  <2>1. CASE Saved
    <3>1. saving \in Snapshot /\ saving.seq = Last /\ saving = view[Last]
      BY <2>1 DEF Saved, Positions, StoreOK, RecoveryAgrees
    <3> QED
      BY <2>1, <3>1 DEF Saved, Last
  <2>2. CASE SavedAgain
    <3>1. mem \in Snapshot /\ mem.seq = Last /\ (Last > 0 => mem = view[Last])
      BY <1>0, <2>2, CurrentIsBefore DEF SavedAgain, Current, StoreOK
    <3> QED
      BY <2>2, <3>1 DEF SavedAgain, SaveNow, Current, Last
  <2>3. CASE Amended
    <3>1. PICK t \in Snapshot :
            /\ Current /\ mem.seq > 0 /\ t.seq = mem.seq
            /\ SaveNow(t) /\ Restated(t)
      BY <2>3 DEF Amended
    <3>2. view'[Last] = t
      BY <1>0, <3>1, RestateLog DEF Current
    <3> QED
      BY <3>1, <3>2 DEF SaveNow, Current, Last
  <2> QED
    BY <2>1, <2>2, <2>3
<1>2. /\ snap' = s
      /\ \/ mem' = Absent
         \/ mem' = s
  BY <1>1 DEF SaveSnapshot
<1>3. \A i \in snap'.seq + 1 .. Last' : FALSE
  BY <1>0, <1>1, <1>2
<1> QED
  BY <1>0, <1>1, <1>2, <1>3 DEF RecoveryAgrees

LEMMA CatchUpAgrees ==
  ASSUME StoreOK, Positions, RecoveryAgrees, CatchUp PROVE RecoveryAgrees'
<1> DEFINE k == mem.seq + 1
<1>1. /\ Last \in 0 .. WalLimit /\ mem.seq \in Nat /\ mem.seq < Last /\ snap.seq \in Nat
      /\ snap.seq <= mem.seq
  BY LastNat DEF CatchUp, StoreOK, Snapshot, Positions
<1>2. k \in snap.seq + 1 .. Last /\ k \in 1 .. Last
  BY <1>1
<1>3. mem' = Project(mem, wal[k])
  BY DEF CatchUp
<1>4. UNCHANGED <<wal, snap, saving, view>>
  BY DEF CatchUp
<1>5. wal[k] \in Event
  BY <1>2, ElementOfSeq DEF StoreOK, Last
<1>6. mem'.seq = k
  BY <1>1, <1>3, <1>5, ProjectType, ConstantsAssumption DEF StoreOK
<1>7. mem = Before(k)
  BY <1>1 DEF Before, Positions, RecoveryAgrees
<1>8. view[k] = Project(Before(k), wal[k])
  BY <1>2 DEF RecoveryAgrees
<1>9. mem' = view'[mem'.seq]
  BY <1>3, <1>4, <1>6, <1>7, <1>8
<1> HIDE DEF k
<1> QED
  BY <1>4, <1>9 DEF RecoveryAgrees, Before, Last

LEMMA LostPowerAgrees ==
  ASSUME StoreOK, Positions, RecoveryAgrees, LostPower PROVE RecoveryAgrees'
<1>1. PICK n \in synced .. Last : CutAt(n)
  BY DEF LostPower
<1>2. n \in 0 .. Last /\ Last \in Nat /\ snap.seq \in Nat /\ Absent.seq = 0
  BY LastNat DEF StoreOK, Snapshot, Absent
<1>3. /\ Last' = n
      /\ \A i \in 1 .. n : wal'[i] = wal[i] /\ view'[i] = view[i]
  BY <1>1, <1>2, CutLog
<1>4. snap' = snap /\ mem' = Absent /\ saving' = Absent
  BY DEF LostPower
<1>5. ASSUME NEW i \in snap'.seq + 1 .. Last' PROVE Replays(i)'
  <2>1. i \in snap.seq + 1 .. Last /\ i \in 1 .. n /\ (i # 1 => i - 1 \in 1 .. n)
    BY <1>2, <1>3, <1>4
  <2>2. wal'[i] = wal[i] /\ view'[i] = view[i] /\ Before(i)' = Before(i)
    BY <1>3, <2>1 DEF Before
  <2>3. Replays(i)
    BY <2>1 DEF RecoveryAgrees, Replays
  <2> QED
    BY <2>2, <2>3 DEF Replays
<1>6. snap'.seq \in 1 .. Last' => snap' = view'[snap'.seq]
  BY <1>2, <1>3, <1>4 DEF RecoveryAgrees
<1> QED
  BY <1>2, <1>4, <1>5, <1>6 DEF RecoveryAgrees, Replays

LEMMA StoreStepAgrees ==
  ASSUME StoreOK, Positions, RecoveryAgrees, StoreStep PROVE RecoveryAgrees'
<1>0. Absent.seq = 0
  BY DEF Absent
<1>1. CASE Idle
  BY <1>1 DEF Idle, RecoveryAgrees, Before, Last
<1>2. CASE SaveLost
  BY <1>2 DEF SaveLost, RecoveryAgrees, Before, Last
<1>3. CASE Load
  BY <1>3 DEF Load, RecoveryAgrees, Before, Last
<1>4. CASE Evict
  BY <1>0, <1>4 DEF Evict, RecoveryAgrees, Before, Last
<1>5. CASE Restarted
  BY <1>0, <1>5 DEF Restarted, RecoveryAgrees, Before, Last
<1>6. CASE Torn
  BY <1>6 DEF Torn, RecoveryAgrees, Before, Last
<1>7. CASE Deleted
  <2>1. Last' = 0
    <3>1. Len(<<>>) = 0
      BY EmptySeq
    <3> QED
      BY <1>7, <3>1, Zenon DEF Deleted, Last
  <2>2. snap' = Absent /\ mem' = Absent /\ saving' = Absent
    BY <1>7 DEF Deleted
  <2> QED
    BY <1>0, <2>1, <2>2 DEF RecoveryAgrees
<1> QED
  BY <1>1, <1>2, <1>3, <1>4, <1>5, <1>6, <1>7, RecordedAgrees, StreamedAgrees, SavedAgrees,
     CatchUpAgrees, LostPowerAgrees DEF StoreStep

\* Recovery never guesses, whatever crashes, losses of power, failed saves and
\* evictions came before: the snapshot file and the log after it give the projection
\* the live run had, and a command that was accepted is accepted again when it is
\* replayed.
THEOREM RecoveryIsExact == Spec => []RecoveryAgrees
<1>1. Init => RecoveryInv
  <2> SUFFICES ASSUME Init PROVE RecoveryInv
    OBVIOUS
  <2>1. snap = Absent /\ mem = Absent /\ saving = Absent
    BY DEF Init
  <2> QED
    BY <2>1, InitEmpty DEF RecoveryInv, RecoveryAgrees, Absent
<1>2. TypeOK /\ RecoveryInv /\ [Next]_vars => RecoveryInv'
  BY NextIsStoreStep, StoreStepPositions, StoreStepAgrees DEF TypeOK, RecoveryInv
<1>3. RecoveryInv => RecoveryAgrees
  BY DEF RecoveryInv
<1> QED
  BY <1>1, <1>2, <1>3, TypeCorrect, PTL DEF Spec

-----------------------------------------------------------------------------
(* Commands and patches.                                                   *)

\* Every step leaves the log's records where they are, adds one, or drops the last.
LEMMA LogChange ==
  ASSUME StoreOK, StoreStep
  PROVE  \/ /\ Last' \in 0 .. Last
            /\ \A i \in 1 .. Last' : wal'[i] = wal[i]
         \/ \E e \in Event :
              /\ e.id # NoCommand => ~Known(e)
              /\ e.kind = "patch_committed" => Written(e.patch)
              /\ Last' = Last + 1 /\ wal'[Last'] = e
              /\ \A i \in 1 .. Last : wal'[i] = wal[i]
<1>0. Last \in 0 .. WalLimit /\ Last \in Nat
  BY LastNat, ConstantsAssumption
<1>1. CASE wal' = wal
  BY <1>0, <1>1 DEF Last
<1>2. CASE Recorded
  <2>1. PICK e \in Event :
          /\ e.id # NoCommand => ~Known(e)
          /\ e.kind = "patch_committed" => Written(e.patch)
          /\ Record(e)
    BY <1>2 DEF Recorded
  <2>2. Follows(e, saving') /\ saving' \in Snapshot
    BY <2>1, RecordType
  <2> QED
    BY <2>1, <2>2, AppendLog
<1>3. CASE Streamed
  <2>1. PICK e \in Event :
          /\ Current /\ Last < WalLimit /\ e.id = NoCommand /\ e.kind # "patch_committed"
          /\ Follows(e, Project(mem, e))
    BY <1>3 DEF Streamed
  <2>2. Project(mem, e) \in Snapshot
    BY <2>1, ProjectType DEF Current, StoreOK
  <2> QED
    BY <2>1, <2>2, AppendLog
<1>4. CASE LostPower
  <2>1. PICK n \in synced .. Last : CutAt(n)
    BY <1>4 DEF LostPower
  <2>2. n \in 0 .. Last
    BY <1>0 DEF StoreOK
  <2> QED
    BY <2>1, <2>2, CutLog
<1>5. CASE Deleted
  <2>1. Len(<<>>) = 0
    BY EmptySeq
  <2>2. Last' = 0
    BY <1>5, <2>1, Zenon DEF Deleted, Last
  <2> QED
    BY <1>0, <2>2
<1> QED
  BY <1>1, <1>2, <1>3, <1>4, <1>5 DEF StoreStep, Idle, Saved, SaveLost, Load, CatchUp,
     SavedAgain, SaveNow, Amended, Restated, Evict, Restarted, Torn

\* A command's id enters the log once, for any number of commands, retries and
\* failures: a client that lost the reply may always send the command again.
THEOREM CommandsTakeEffectOnce == Spec => []CommandAtMostOnce
<1>1. Init => CommandAtMostOnce
  BY InitEmpty DEF CommandAtMostOnce
<1>2. TypeOK /\ CommandAtMostOnce /\ [Next]_vars => CommandAtMostOnce'
  <2> SUFFICES ASSUME TypeOK, CommandAtMostOnce, [Next]_vars PROVE CommandAtMostOnce'
    OBVIOUS
  <2>0. Last \in Nat
    BY LastNat DEF TypeOK
  <2>1. StoreStep /\ StoreOK
    BY NextIsStoreStep DEF TypeOK
  <2>2. CASE /\ Last' \in 0 .. Last
             /\ \A i \in 1 .. Last' : wal'[i] = wal[i]
    BY <2>0, <2>2 DEF CommandAtMostOnce
  <2>3. ASSUME NEW e \in Event,
               e.id # NoCommand => ~Known(e),
               Last' = Last + 1, wal'[Last'] = e,
               \A i \in 1 .. Last : wal'[i] = wal[i]
        PROVE  CommandAtMostOnce'
    BY <2>0, <2>3 DEF CommandAtMostOnce, Known
  <2> QED
    BY <2>1, <2>2, <2>3, LogChange
<1> QED
  BY <1>1, <1>2, TypeCorrect, PTL DEF Spec

\* What the host has written is in the project, and it never takes a patch out.
WrittenInProject == \A p \in Patches : verdict[p] = "written" => p \in project

LEMMA ProjectGrows ==
  ASSUME HostOK, WrittenInProject, [Next]_vars
  PROVE  WrittenInProject' /\ project \subseteq project'
<1> USE DEF HostOK, WrittenInProject
<1>1. CASE UNCHANGED <<project, verdict>>
  BY <1>1
<1>2. ASSUME NEW p \in Patches, WritePatch(p)
      PROVE  WrittenInProject' /\ project \subseteq project'
  BY <1>2 DEF WritePatch
<1>3. ASSUME NEW p \in Patches, NEW rev,
             ProposePatch(p, rev) \/ RecordCommitted(p, rev) \/ RecordStale(p, rev)
      PROVE  WrittenInProject' /\ project \subseteq project'
  <2>1. PICK v \in {"proposed", "deferred", "committed", "stale"} :
          verdict' = [verdict EXCEPT ![p] = v] /\ project' = project
    BY <1>3 DEF ProposePatch, RecordCommitted, RecordStale
  <2> QED
    BY <2>1
<1>4. CASE Crash \/ PowerLoss
  BY <1>4 DEF Crash, PowerLoss, Restart
<1>5. CASE Clients \/ Store \/ Reconcile \/ Prune \/ AppendFails \/ UNCHANGED vars
  BY <1>1, <1>5 DEF Clients, Start, Command, Store, Save, SaveFails, Load, CatchUp, Persist,
     Evict, Reconcile, ReconcileSkip, ReconcileLook, ReconcileClose, ReconcileFails, Prune,
     AppendFails, vars
<1>6. CASE Stream
  BY <1>1, <1>2, <1>3, <1>6 DEF Stream, Attach, EditorLifecycle, RuntimeEffect,
     StopPublishing, SettleRefused, RecordStream, SkipStream, FoldLedger, OpenGate, Complete
<1> QED
  BY <1>4, <1>5, <1>6 DEF Next

\* The run never records a commit that the project file does not have, whatever
\* happens between the write of the project and the record.
THEOREM CommitsAreInProject == Spec => []CommittedIsInProject
<1> DEFINE Inv == WrittenInProject /\ CommittedIsInProject
<1>1. Init => Inv
  <2> SUFFICES ASSUME Init PROVE Inv
    OBVIOUS
  <2>1. \A p \in Patches : verdict[p] = "unseen"
    BY DEF Init
  <2> QED
    BY <2>1, InitEmpty DEF WrittenInProject, CommittedIsInProject
<1>2. TypeOK /\ Inv /\ [Next]_vars => Inv'
  <2> SUFFICES ASSUME TypeOK, WrittenInProject, CommittedIsInProject, [Next]_vars
               PROVE  Inv'
    OBVIOUS
  <2>0. Last \in Nat
    BY LastNat DEF TypeOK
  <2>1. StoreStep /\ StoreOK /\ HostOK
    BY NextIsStoreStep DEF TypeOK
  <2>2. WrittenInProject' /\ project \subseteq project'
    BY <2>1, ProjectGrows
  <2>3. CASE /\ Last' \in 0 .. Last
             /\ \A i \in 1 .. Last' : wal'[i] = wal[i]
    BY <2>0, <2>2, <2>3 DEF CommittedIsInProject
  <2>4. ASSUME NEW e \in Event,
               e.kind = "patch_committed" => Written(e.patch),
               Last' = Last + 1, wal'[Last'] = e,
               \A i \in 1 .. Last : wal'[i] = wal[i]
        PROVE  Inv'
    <3>1. e.kind = "patch_committed" => e.patch \in project'
      <4> SUFFICES ASSUME e.kind = "patch_committed" PROVE e.patch \in project'
        OBVIOUS
      <4> QED
        BY <2>1, <2>2, <2>4 DEF WrittenInProject, Written
    <3> QED
      BY <2>0, <2>2, <2>4, <3>1 DEF CommittedIsInProject
  <2> QED
    BY <2>1, <2>3, <2>4, LogChange
<1> QED
  BY <1>1, <1>2, TypeCorrect, PTL DEF Spec
=============================================================================
