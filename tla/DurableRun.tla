----------------------------- MODULE DurableRun -----------------------------
(***************************************************************************)
(* One durable AI run of the desktop host: the append-only log of events   *)
(* and the snapshot the run store keeps for it, and the coordinator that   *)
(* is the only writer of both.                                             *)
(*                                                                         *)
(* Every operation of the coordinator runs in the run's lane, so two of    *)
(* them never overlap; what can come between the steps of ONE operation is *)
(* a crash, a loss of power, a failing disk or the retention sweep.  An    *)
(* operation that saves is therefore two steps: append the event, then     *)
(* save the snapshot it leads to (Save).  Runs share nothing, so one run   *)
(* is modelled.                                                            *)
(*                                                                         *)
(* An event's sequence number is its position in wal.  The snapshot Absent *)
(* stands for "no snapshot file".                                          *)
(***************************************************************************)
EXTENDS Naturals, Sequences, FiniteSets

CONSTANTS
  CommandIds,        \* ids of the commands the clients may issue
  Patches,           \* ids of the patches the agent may propose
  ClientKinds,       \* commands the clients issue besides "start"
  ExpectedRevisions, \* project revisions a command may expect, or NoRevision
  StreamStatuses,    \* statuses a stream event may carry
  MaxRevision,       \* bound: project revisions
  MaxLedger,         \* bound: versions of the working-state ledger
  SnapshotInterval,  \* STREAM_SNAPSHOT_INTERVAL
  OptionalLimit,     \* records after which optional stream events are skipped
  StreamLimit,       \* records after which every stream event is skipped
  WalLimit,          \* records after which an integrity record is refused
  MaxIntegrity,      \* bound: integrity records after which only a settlement is recorded
  Failures,          \* what goes wrong: "crash" of the host, loss of "power", "disk" errors
  NoCommand, NoPatch, NoRevision

PlanKinds  == {"approve_plan", "reject_plan"}
GateKinds  == {"plan_approval", "question"}
PatchKinds == {"accept_patch", "reject_patch"}
CommandKinds ==
  PlanKinds \cup PatchKinds \cup {"start", "answer", "steer", "cancel", "resume"}
RuntimeKinds ==
  {"gate_opened", "terminal", "stream", "editor_lifecycle", "effect",
   "patch_proposed", "patch_stale", "patch_committed"}

Terminals == {"completed", "failed", "cancelled"}
Working ==
  {"accepted", "executing", "verifying", "suspended",
   "awaiting_approval", "awaiting_answer"}
Statuses == Terminals \cup Working \cup {"none"}
Decisions == {"none", "pending", "rejected", "stale", "committed"}
OutcomeKinds ==
  {"none", "completed_no_changes", "completed_with_changes",
   "completed_with_warnings", "failed", "interrupted", "timed_out",
   "cancelled", "rejected"}

ASSUME ConstantsAssumption ==
  /\ ClientKinds \subseteq CommandKinds \ {"start"}
  /\ StreamStatuses \subseteq Working
  /\ ExpectedRevisions \subseteq (0 .. MaxRevision) \cup {NoRevision}
  /\ MaxRevision \in Nat /\ MaxLedger \in Nat
  /\ SnapshotInterval \in Nat \ {0}
  /\ OptionalLimit \in Nat /\ StreamLimit \in Nat
  /\ WalLimit \in Nat /\ MaxIntegrity \in Nat
  /\ OptionalLimit <= StreamLimit /\ StreamLimit <= WalLimit
  /\ Failures \subseteq {"crash", "power", "disk"}
  /\ NoCommand \notin CommandIds
  /\ NoPatch \notin Patches
  /\ NoRevision \notin Nat

Gate    == [id : 0 .. WalLimit, kind : GateKinds \cup {"none"}]
Outcome == [kind : OutcomeKinds, changed : BOOLEAN]
NoGate    == [id |-> 0, kind |-> "none"]
NoOutcome == [kind |-> "none", changed |-> FALSE]

Snapshot ==
  [status   : Statuses,
   outcome  : Outcome,
   gate     : Gate,
   decision : [Patches -> Decisions],
   rev      : 0 .. MaxRevision,
   ledger   : 0 .. MaxLedger,
   seq      : 0 .. WalLimit]

Absent ==
  [status |-> "none", outcome |-> NoOutcome, gate |-> NoGate,
   decision |-> [p \in Patches |-> "none"], rev |-> 0, ledger |-> 0, seq |-> 0]

Event ==
  [kind    : CommandKinds \cup RuntimeKinds,
   id      : CommandIds \cup {NoCommand},
   patch   : Patches \cup {NoPatch},
   gate    : Gate,
   status  : Statuses,
   outcome : Outcome,
   rev     : (0 .. MaxRevision) \cup {NoRevision}]

Blank(kind) ==
  [kind |-> kind, id |-> NoCommand, patch |-> NoPatch, gate |-> NoGate,
   status |-> "none", outcome |-> NoOutcome, rev |-> NoRevision]

VARIABLES
  wal,       \* the run's event log, as the operating system would read it back
  synced,    \* how many of its records are on the disk itself
  open,      \* whether this process holds the log's append descriptor
  torn,      \* whether the log holds a partial record
  snap,      \* the snapshot file
  project,   \* the patches of this run that are in the project file
  fate,      \* "kept", or the directory is "quarantined" or "pruned"
  loaded,    \* whether the host has read the run into its cache
  mem,       \* the host's projection: snap with log records folded into it
  saving,    \* the snapshot of the operation between its append and its save
  producer,  \* the host's stream for this run: idle, live, stopping, settled, lost
  verdict,   \* how far that stream is with each patch
  recon,     \* how far this launch's reconciliation is with the run
  view       \* auxiliary: view[i] is the projection at record i

disk == <<wal, synced, open, torn, snap, fate>>
vars == <<wal, synced, open, torn, snap, project, fate, loaded, mem, saving,
          producer, verdict, recon, view>>

-----------------------------------------------------------------------------
(* The projection of events onto a snapshot.                               *)

AnyCommitted(s) == \E p \in Patches : s.decision[p] = "committed"

Settled(s) == s.status \in Terminals

\* Mutant: the end of a run leaves its gate pending.
SettleAtGate(s, status, kind, changed) ==
  [s EXCEPT !.status = status, !.outcome = [kind |-> kind, changed |-> changed]]

Settle(s, status, kind, changed) ==
  [s EXCEPT !.status = status, !.gate = NoGate,
            !.outcome = [kind |-> kind, changed |-> changed]]

Decide(s, p, d) == [s EXCEPT !.decision[p] = d]

\* Mutant: a decision is matched with the open gate by kind, not by id.
AdmitsAnyGate(s, e) ==
  /\ e.rev \in {NoRevision, s.rev}
  /\ Settled(s) => e.kind \in PatchKinds \cup {"resume"}
  /\ e.kind \in PlanKinds \cup {"answer"} => s.gate.kind = e.gate.kind
  /\ e.kind = "resume" => s.status = "suspended"
  /\ e.kind = "accept_patch" => s.decision[e.patch] \in {"pending", "committed"}
  /\ e.kind = "reject_patch" => s.decision[e.patch] = "pending"

\* What reduceCommand refuses, whatever the order of its checks.
Admits(s, e) ==
  /\ e.rev \in {NoRevision, s.rev}
  /\ Settled(s) => e.kind \in PatchKinds \cup {"resume"}
  /\ e.kind \in PlanKinds \cup {"answer"} => s.gate = e.gate
  /\ e.kind = "resume" => s.status = "suspended"
  /\ e.kind = "accept_patch" => s.decision[e.patch] \in {"pending", "committed"}
  /\ e.kind = "reject_patch" => s.decision[e.patch] = "pending"

ReduceCommand(s, e) ==
  CASE e.kind = "start" -> [Absent EXCEPT !.status = "accepted"]
    [] e.kind \in {"approve_plan", "answer"} ->
         [s EXCEPT !.status = "executing", !.gate = NoGate]
    [] e.kind = "reject_plan" -> Settle(s, "cancelled", "rejected", FALSE)
    [] e.kind = "cancel" ->
         IF s.status = "verifying"
           THEN Settle(s, "completed", "completed_with_warnings", AnyCommitted(s))
           ELSE Settle(s, "cancelled", "cancelled", AnyCommitted(s))
    [] e.kind = "resume" ->
         [s EXCEPT !.status = "accepted", !.gate = NoGate, !.outcome = NoOutcome]
    [] e.kind = "accept_patch" ->
         [Decide(s, e.patch, "committed") EXCEPT
            !.outcome = [kind |-> "completed_with_changes", changed |-> TRUE]]
    [] e.kind = "reject_patch" -> Decide(s, e.patch, "rejected")
    [] OTHER -> s

PatchLifecycle(s, e) ==
  LET now == s.decision[e.patch]
      next == CASE e.kind = "patch_proposed" -> IF now = "none" THEN "pending" ELSE now
                [] e.kind = "patch_stale"    -> "stale"
                [] OTHER                     -> "committed"
  IN  [Decide(s, e.patch, next) EXCEPT
         !.rev = IF e.rev = NoRevision THEN @ ELSE e.rev]

\* The snapshot one record leads to, live and when the log is replayed.
Project(s, e) ==
  LET next ==
        CASE e.kind \in CommandKinds -> ReduceCommand(s, e)
          [] e.kind = "gate_opened" -> [s EXCEPT !.status = e.status, !.gate = e.gate]
          [] e.kind = "terminal" ->
               Settle(s, e.status, e.outcome.kind, e.outcome.changed)
          [] e.kind = "stream" ->
               [s EXCEPT !.status = IF e.status = "none" THEN @ ELSE e.status]
          [] e.kind \in {"patch_proposed", "patch_stale", "patch_committed"} ->
               PatchLifecycle(s, e)
          [] OTHER -> s
  IN  [next EXCEPT !.seq = s.seq + 1]

\* What the snapshot schema accepts: an outcome exactly when the run is over.
Valid(s) == Settled(s) <=> s.outcome # NoOutcome

-----------------------------------------------------------------------------
(* What an operation finds when it enters the run's lane.                  *)

Last == Len(wal)
HasEvent(kind) == \E i \in 1 .. Last : wal[i].kind = kind
IntegrityRecords == Cardinality({i \in 1 .. Last : wal[i].kind # "stream"})

\* The run is cached, the lane is free and the log tail has been folded in.
Current ==
  /\ fate = "kept" /\ loaded /\ saving = Absent
  /\ mem.seq = Last

\* recoverSnapshot saves what it replayed, and throws when that is not valid.
Recoverable == mem.seq = snap.seq \/ Valid(mem)

\* Mutant: the snapshot is written without syncing the log.
NotFlushed == synced

\* What checkpointWal leaves on the disk: without a descriptor it does nothing.
Flushed == IF open THEN Last ELSE synced

\* Mutant: an integrity record is appended whatever the size of the log.
RecordPastLimit(e) ==
  /\ Current /\ Recoverable
  /\ Last <= WalLimit
  /\ wal' = Append(wal, e)
  /\ snap' = mem
  /\ synced' = IF mem.seq = snap.seq THEN synced ELSE Flushed
  /\ open' = TRUE
  /\ saving' = Project(mem, e)
  /\ view' = Append(view, saving')
  /\ UNCHANGED <<torn, fate, loaded, mem>>

\* Append an integrity record; the snapshot it leads to is saved by Save.
Record(e) ==
  /\ Current /\ Recoverable
  /\ Last < WalLimit
  /\ wal' = Append(wal, e)
  /\ snap' = mem
  /\ synced' = IF mem.seq = snap.seq THEN synced ELSE Flushed
  /\ open' = TRUE
  /\ saving' = Project(mem, e)
  /\ view' = Append(view, saving')
  /\ UNCHANGED <<torn, fate, loaded, mem>>

\* saveSnapshot: the log is synced first; a terminal snapshot also closes the
\* descriptor and drops the run from the cache.
SaveSnapshot(s) ==
  /\ Valid(s)
  /\ snap' = s /\ synced' = Flushed
  /\ open' = (open /\ ~Settled(s))
  /\ loaded' = ~Settled(s)
  /\ mem' = IF Settled(s) THEN Absent ELSE s

\* A save with no record to append.
SaveNow(s) == SaveSnapshot(s) /\ UNCHANGED <<wal, torn, fate, saving>>

Init ==
  /\ wal = <<>> /\ synced = 0 /\ open = FALSE /\ torn = FALSE
  /\ snap = Absent /\ project = {} /\ fate = "kept"
  /\ loaded = FALSE /\ mem = Absent /\ saving = Absent
  /\ producer = "idle" /\ verdict = [p \in Patches |-> "unseen"]
  /\ recon = "done"
  /\ view = <<>>

-----------------------------------------------------------------------------
(* Commands of the clients.                                                *)

Commands(kind) ==
  [kind : {kind}, id : CommandIds,
   patch : IF kind \in PatchKinds THEN Patches ELSE {NoPatch},
   gate : CASE kind \in PlanKinds -> {g \in Gate : g.kind = "plan_approval"}
            [] kind = "answer"    -> {g \in Gate : g.kind = "question"}
            [] OTHER              -> {NoGate},
   status : {"none"}, outcome : {NoOutcome},
   rev : IF kind = "start" THEN {NoRevision} ELSE ExpectedRevisions]

\* Mutant: a retry is looked for only in the records the snapshot does not cover.
KnownInTail(e) == \E i \in snap.seq + 1 .. Last : wal[i].id = e.id

\* A command id the log already holds: the recorded event is the answer.
Known(e) == \E i \in 1 .. Last : wal[i].id = e.id

\* A decision an earlier command already took: its event is the answer.
AlreadyDecided(e) ==
  /\ \/ e.kind = "accept_patch" /\ mem.decision[e.patch] = "committed"
     \/ e.kind = "reject_patch" /\ mem.decision[e.patch] = "rejected"
  /\ \E i \in 1 .. Last : wal[i].kind = e.kind /\ wal[i].patch = e.patch

Start(e) ==
  /\ Last = 0 /\ producer = "idle"
  /\ Record(e)
  /\ UNCHANGED <<project, producer, verdict, recon>>

Command(e) ==
  /\ mem.seq > 0
  /\ ~Known(e) /\ ~AlreadyDecided(e)
  /\ Admits(mem, e)
  /\ IntegrityRecords < MaxIntegrity
  /\ Record(e)
  /\ UNCHANGED <<project, producer, verdict, recon>>

-----------------------------------------------------------------------------
(* The second step of an operation, and reading the run.                   *)

Save ==
  /\ saving # Absent
  /\ SaveSnapshot(saving)
  /\ saving' = Absent
  /\ UNCHANGED <<wal, torn, project, fate, producer, verdict, recon, view>>

\* The schema or the disk refuses the snapshot: the operation throws, its record
\* stays, and its event is not published.  When it was publishing for the stream,
\* the stream is stopped where it stands.
SaveFails ==
  /\ saving # Absent
  /\ ~Valid(saving) \/ "disk" \in Failures
  /\ saving' = Absent
  /\ producer' \in {producer, IF producer = "live" THEN "stopping" ELSE producer}
  /\ UNCHANGED <<wal, synced, open, torn, snap, project, fate, loaded, mem,
                 verdict, recon, view>>

\* A log that cannot be parsed, or a snapshot ahead of it, quarantines the run.
Corrupt == torn \/ snap.seq > Last

Load ==
  /\ fate = "kept" /\ ~loaded /\ saving = Absent
  /\ IF Corrupt
       THEN /\ fate' = "quarantined"
            /\ recon' = "done"
            /\ open' = FALSE
            /\ UNCHANGED <<loaded, mem>>
       ELSE /\ loaded' = TRUE
            /\ mem' = snap
            /\ UNCHANGED <<fate, recon, open>>
  /\ UNCHANGED <<wal, synced, torn, snap, project, saving, producer, verdict, view>>

\* Replay one record of the log tail.
CatchUp ==
  /\ fate = "kept" /\ loaded /\ saving = Absent
  /\ mem.seq < Last
  /\ LET e == wal[mem.seq + 1]
     IN  /\ e.kind \in CommandKinds \ {"start"} => Admits(mem, e)
         /\ mem' = Project(mem, e)
  /\ UNCHANGED <<wal, synced, open, torn, snap, project, fate, loaded, saving,
                 producer, verdict, recon, view>>

\* A reader (subscribe, snapshot) saves what it replayed.
Persist ==
  /\ Current
  /\ mem.seq > snap.seq
  /\ SaveNow(mem)
  /\ UNCHANGED <<project, producer, verdict, recon, view>>

\* Other runs push this one out of the store's cache.
Evict ==
  /\ Current
  /\ loaded' = FALSE /\ mem' = Absent
  /\ UNCHANGED <<wal, synced, open, torn, snap, project, fate, saving, producer,
                 verdict, recon, view>>

-----------------------------------------------------------------------------
(* The run's stream in the host.                                           *)

Attach ==
  /\ producer = "idle"
  /\ Current /\ mem.seq > 0
  /\ producer' = "live"
  /\ UNCHANGED <<disk, project, loaded, mem, saving, verdict, recon, view>>

\* The host has not ruled on a patch yet: the stream waits for it.
Undecided == \E p \in Patches : verdict[p] \in {"proposed", "written"}

Streaming == producer = "live" /\ ~Undecided /\ Current /\ mem.seq > 0

\* Mutant: a settled run still records what the provider says.
RecordLateStream(status, optional) ==
  /\ Streaming
  /\ optional => status = "none"
  /\ Last < (IF optional THEN OptionalLimit ELSE StreamLimit)
  /\ wal' = Append(wal, [Blank("stream") EXCEPT !.status = status])
  /\ saving' = Project(mem, wal'[Last + 1]) /\ mem' = mem
  /\ view' = Append(view, saving')
  /\ open' = TRUE
  /\ UNCHANGED <<synced, torn, snap, project, fate, loaded, producer, verdict, recon>>

\* A stream event.  Only a change of status, or every SnapshotInterval-th record,
\* saves a snapshot.  A settled run drops the event.
RecordStream(status, optional) ==
  /\ Streaming /\ ~Settled(mem)
  /\ optional => status = "none"
  /\ Last < (IF optional THEN OptionalLimit ELSE StreamLimit)
  /\ LET e == [Blank("stream") EXCEPT !.status = status]
         next == Project(mem, e)
         saves == \/ status \notin {"none", mem.status}
                  \/ (Last + 1) % SnapshotInterval = 0
     IN  /\ wal' = Append(wal, e)
         /\ view' = Append(view, next)
         /\ saving' = IF saves THEN next ELSE Absent
         /\ mem' = IF saves THEN mem ELSE next
  /\ open' = TRUE
  /\ UNCHANGED <<synced, torn, snap, project, fate, loaded, producer, verdict, recon>>

\* Mutant: the status of a skipped event is only remembered.
SkipStreamUnsaved(status) ==
  /\ Streaming /\ ~Settled(mem)
  /\ Last >= StreamLimit
  /\ status # mem.status
  /\ mem' = [mem EXCEPT !.status = status]
  /\ view' = [view EXCEPT ![Last] = mem']
  /\ UNCHANGED <<disk, project, loaded, saving, producer, verdict, recon>>

\* Past its share of the log a stream event is skipped; the status it carried
\* goes into the snapshot, at the same sequence number.
SkipStream(status) ==
  /\ Streaming /\ ~Settled(mem)
  /\ Last >= StreamLimit
  /\ status # mem.status
  /\ SaveNow([mem EXCEPT !.status = status])
  /\ view' = [view EXCEPT ![Last] = snap']
  /\ UNCHANGED <<project, producer, verdict, recon>>

\* Mutant: an older ledger that arrives late replaces a newer one.
FoldAnyLedger(version) ==
  /\ Streaming /\ ~Settled(mem)
  /\ version # mem.ledger
  /\ SaveNow([mem EXCEPT !.ledger = version])
  /\ view' = [view EXCEPT ![Last] = snap']
  /\ UNCHANGED <<project, producer, verdict, recon>>

\* A run_state ledger is folded into the snapshot and never enters the log; an
\* older one is dropped.
FoldLedger(version) ==
  /\ Streaming /\ ~Settled(mem)
  /\ version > mem.ledger
  /\ SaveNow([mem EXCEPT !.ledger = version])
  /\ view' = [view EXCEPT ![Last] = snap']
  /\ UNCHANGED <<project, producer, verdict, recon>>

\* Lifecycle stages are recorded beside the stream, without a snapshot.
EditorLifecycle ==
  /\ producer \in {"live", "stopping"}
  /\ Current /\ mem.seq > 0 /\ ~Settled(mem)
  /\ Last < WalLimit /\ IntegrityRecords < MaxIntegrity
  /\ LET e == Blank("editor_lifecycle")
     IN  /\ wal' = Append(wal, e)
         /\ mem' = Project(mem, e)
         /\ view' = Append(view, mem')
  /\ open' = TRUE
  /\ UNCHANGED <<synced, torn, snap, project, fate, loaded, saving, producer,
                 verdict, recon>>

RuntimeEffect ==
  /\ producer \in {"live", "stopping"}
  /\ mem.seq > 0 /\ ~Settled(mem)
  /\ IntegrityRecords < MaxIntegrity
  /\ Record(Blank("effect"))
  /\ UNCHANGED <<project, producer, verdict, recon>>

OpenGate(kind) ==
  /\ Streaming /\ ~Settled(mem)
  /\ mem.gate = NoGate
  /\ IntegrityRecords < MaxIntegrity
  /\ Record([Blank("gate_opened") EXCEPT
       !.status = IF kind = "plan_approval" THEN "awaiting_approval" ELSE "awaiting_answer",
       !.gate = [id |-> Last + 1, kind |-> kind]])
  /\ UNCHANGED <<project, producer, verdict, recon>>

PatchEvent(kind, p, rev) == [Blank(kind) EXCEPT !.patch = p, !.rev = rev]

\* A diff leaves the agent: it is recorded at the project's current revision, and
\* either left to the clients (the review policy) or decided by the host at once.
ProposePatch(p, rev) ==
  /\ Streaming
  /\ verdict[p] = "unseen"
  /\ rev \in mem.rev .. MaxRevision
  /\ IntegrityRecords < MaxIntegrity
  /\ Record(PatchEvent("patch_proposed", p, rev))
  /\ \E v \in {"proposed", "deferred"} : verdict' = [verdict EXCEPT ![p] = v]
  /\ UNCHANGED <<project, producer, recon>>

\* The host writes the patched project file, which is a step of its own.
WritePatch(p) ==
  /\ producer = "live" /\ verdict[p] = "proposed" /\ Current
  /\ project' = project \cup {p}
  /\ verdict' = [verdict EXCEPT ![p] = "written"]
  /\ UNCHANGED <<disk, loaded, mem, saving, producer, recon, view>>

\* Mutant: the commit is recorded before the project is written.
RecordUnwritten(p, rev) ==
  /\ producer = "live" /\ verdict[p] \in {"proposed", "written"}
  /\ rev \in mem.rev + 1 .. MaxRevision
  /\ Record(PatchEvent("patch_committed", p, rev))
  /\ verdict' = [verdict EXCEPT ![p] = "committed"]
  /\ UNCHANGED <<project, producer, recon>>

RecordCommitted(p, rev) ==
  /\ producer = "live" /\ verdict[p] = "written"
  /\ rev \in mem.rev + 1 .. MaxRevision
  /\ IntegrityRecords < MaxIntegrity
  /\ Record(PatchEvent("patch_committed", p, rev))
  /\ verdict' = [verdict EXCEPT ![p] = "committed"]
  /\ UNCHANGED <<project, producer, recon>>

\* The commit was refused: the project moved on, or is not the open one.
RecordStale(p, rev) ==
  /\ producer = "live" /\ verdict[p] = "proposed"
  /\ rev \in {NoRevision} \cup mem.rev .. MaxRevision
  /\ IntegrityRecords < MaxIntegrity
  /\ Record(PatchEvent("patch_stale", p, rev))
  /\ verdict' = [verdict EXCEPT ![p] = "stale"]
  /\ UNCHANGED <<project, producer, recon>>

\* Publishing throws: the run is stopped where it stands.
StopPublishing ==
  /\ producer = "live" /\ Current
  /\ ~Recoverable \/ Last >= WalLimit
  /\ producer' = "stopping"
  /\ UNCHANGED <<disk, project, loaded, mem, saving, verdict, recon, view>>

-----------------------------------------------------------------------------
(* Settling the run.                                                       *)

\* Mutant: a patch counts as a change from the moment it is proposed.
AnyProposed == \E p \in Patches : verdict[p] # "unseen"

AutoCommitted == \E p \in Patches : verdict[p] \in {"written", "committed"}

\* What the stream's end may be classified as.
Settlements ==
  {[status |-> "completed",
    kind |-> IF AutoCommitted THEN "completed_with_changes" ELSE "completed_no_changes"],
   [status |-> "cancelled", kind |-> "cancelled"]}
  \cup [status : {"failed"}, kind : {"failed", "interrupted", "timed_out"}]

\* Mutant: the end of the stream decides, whatever the client has decided before.
TerminalByStream(status, kind, changed) ==
  [Blank("terminal") EXCEPT
     !.status = status, !.outcome = [kind |-> kind, changed |-> changed]]

\* The terminal record: a run its client already ended keeps that decision.
TerminalEvent(status, kind, changed) ==
  [Blank("terminal") EXCEPT
     !.status  = IF Settled(mem) THEN mem.status ELSE status,
     !.outcome = IF Settled(mem) THEN mem.outcome
                 ELSE [kind |-> kind, changed |-> changed]]

Compatible(status, kind) ==
  \/ /\ status = "completed"
     /\ kind \in {"completed_no_changes", "completed_with_changes",
                  "completed_with_warnings"}
  \/ status = "failed" /\ kind \in {"failed", "interrupted", "timed_out"}
  \/ status = "cancelled" /\ kind \in {"cancelled", "rejected"}

\* complete() throws before it appends anything.
CompletionRefused ==
  \/ ~Recoverable
  \/ /\ ~HasEvent("terminal")
     /\ \/ Last >= WalLimit
        \/ Settled(mem) /\ ~Compatible(mem.status, mem.outcome.kind)

StreamEnded ==
  /\ \/ producer = "live" /\ ~Undecided
     \/ producer = "stopping"
  /\ mem.seq > 0

Complete(settlement) ==
  /\ StreamEnded
  /\ ~HasEvent("terminal") /\ ~CompletionRefused
  /\ Record(TerminalEvent(settlement.status, settlement.kind, AutoCommitted))
  /\ producer' = "settled"
  /\ UNCHANGED <<project, verdict, recon>>

\* The hub logs the refusal, and nothing settles the run in this launch.
SettleRefused ==
  /\ StreamEnded
  /\ Current /\ (HasEvent("terminal") \/ CompletionRefused)
  /\ producer' = "settled"
  /\ UNCHANGED <<disk, project, loaded, mem, saving, verdict, recon, view>>

-----------------------------------------------------------------------------
(* Failures of the process, the machine and the disk.                      *)

\* What a new process knows: nothing, and a run in the store is to be looked at.
Restart ==
  /\ loaded' = FALSE /\ mem' = Absent /\ saving' = Absent /\ open' = FALSE
  /\ verdict' = [p \in Patches |-> "unseen"]
  /\ producer' = "lost" /\ recon' = "look"

Crash ==
  /\ "crash" \in Failures /\ fate = "kept" /\ (Last > 0 \/ torn)
  /\ Restart
  /\ UNCHANGED <<wal, synced, torn, snap, project, fate, view>>

\* Records that were never synced may be lost, the last of them in part.
PowerLoss ==
  /\ "power" \in Failures /\ fate = "kept" /\ (Last > 0 \/ torn)
  /\ Restart
  /\ \E n \in synced .. Last :
       /\ wal' = SubSeq(wal, 1, n) /\ view' = SubSeq(view, 1, n)
       /\ synced' = n
       /\ torn' \in {torn, torn \/ n < Last}
  /\ UNCHANGED <<snap, project, fate>>

\* An append that writes part of its record and throws.
AppendFails ==
  /\ "disk" \in Failures /\ Current
  /\ torn' = TRUE /\ open' = TRUE
  /\ producer' \in {producer, IF producer = "live" THEN "stopping" ELSE producer}
  /\ UNCHANGED <<wal, synced, snap, project, fate, loaded, mem, saving, verdict,
                 recon, view>>

-----------------------------------------------------------------------------
(* Reconciliation of this launch, and the retention sweep behind it.       *)

\* Mutant: any snapshot is taken as conclusive.
ReconcileSkipAny ==
  /\ recon = "look" /\ fate = "kept" /\ snap.seq > 0
  /\ recon' = "sweep"
  /\ UNCHANGED <<disk, project, loaded, mem, saving, producer, verdict, view>>

\* A terminal snapshot is taken as conclusive, without reading the log.
ReconcileSkip ==
  /\ recon = "look" /\ fate = "kept" /\ Settled(snap)
  /\ recon' = "sweep"
  /\ UNCHANGED <<disk, project, loaded, mem, saving, producer, verdict, view>>

\* Mutant: a suspended run is left open for its user to resume.
ReconcileLookAway ==
  /\ recon = "look" /\ ~Settled(snap)
  /\ Current
  /\ IF mem.seq = snap.seq
       THEN UNCHANGED <<disk, loaded, mem, saving>>
       ELSE SaveNow(mem)
  /\ recon' = IF mem.seq = 0 \/ Settled(mem) \/ mem.status = "suspended"
                THEN "sweep" ELSE "close"
  /\ UNCHANGED <<project, producer, verdict, view>>

\* Otherwise the log tail is replayed and saved, and the run closed if that did
\* not end it.  The lane is free between this and ReconcileClose.
ReconcileLook ==
  /\ recon = "look" /\ ~Settled(snap)
  /\ Current
  /\ IF mem.seq = snap.seq
       THEN UNCHANGED <<disk, loaded, mem, saving>>
       ELSE SaveNow(mem)
  /\ recon' = IF mem.seq = 0 \/ Settled(mem) THEN "sweep"
              ELSE IF AnyCommitted(mem) THEN "close_changed" ELSE "close"
  /\ UNCHANGED <<project, producer, verdict, view>>

ReconcileClose ==
  /\ recon \in {"close", "close_changed"}
  /\ ~HasEvent("terminal") /\ ~CompletionRefused
  /\ Record(TerminalEvent("failed", "interrupted", recon = "close_changed"))
  /\ recon' = "sweep"
  /\ UNCHANGED <<project, producer, verdict>>

\* Whatever throws is logged and the run is left as it is.
ReconcileFails ==
  /\ \/ recon = "look" /\ ~Settled(snap) /\ Current /\ ~Recoverable
     \/ /\ recon \in {"close", "close_changed"} /\ Current
        /\ HasEvent("terminal") \/ CompletionRefused
  /\ recon' = "sweep"
  /\ UNCHANGED <<disk, project, loaded, mem, saving, producer, verdict, view>>

\* The sweep deletes the oldest settled runs; it does not take the run's lane.
Prune ==
  /\ recon = "sweep" /\ fate = "kept"
  /\ recon' = "done"
  /\ \/ /\ Settled(snap)
        /\ fate' = "pruned"
        /\ wal' = <<>> /\ view' = <<>> /\ synced' = 0 /\ snap' = Absent
        /\ open' = FALSE /\ torn' = FALSE
        /\ loaded' = FALSE /\ mem' = Absent /\ saving' = Absent
     \/ UNCHANGED <<disk, loaded, mem, saving, view>>
  /\ UNCHANGED <<project, producer, verdict>>

-----------------------------------------------------------------------------
Clients ==
  \/ \E e \in Commands("start") : Start(e)
  \/ \E kind \in ClientKinds : \E e \in Commands(kind) : Command(e)

Store == Save \/ SaveFails \/ Load \/ CatchUp \/ Persist \/ Evict

Stream ==
  \/ Attach \/ EditorLifecycle \/ RuntimeEffect \/ StopPublishing \/ SettleRefused
  \/ \E status \in StreamStatuses \cup {"none"}, optional \in BOOLEAN :
       RecordStream(status, optional)
  \/ \E status \in StreamStatuses : SkipStream(status)
  \/ \E version \in 1 .. MaxLedger : FoldLedger(version)
  \/ \E kind \in GateKinds : OpenGate(kind)
  \/ \E p \in Patches : WritePatch(p)
  \/ \E p \in Patches, rev \in (0 .. MaxRevision) \cup {NoRevision} :
       ProposePatch(p, rev) \/ RecordCommitted(p, rev) \/ RecordStale(p, rev)
  \/ \E settlement \in Settlements : Complete(settlement)

Reconcile == ReconcileSkip \/ ReconcileLook \/ ReconcileClose \/ ReconcileFails

Next == Clients \/ Store \/ Stream \/ Reconcile \/ Prune \/ Crash \/ PowerLoss \/ AppendFails

Spec == Init /\ [][Next]_vars

-----------------------------------------------------------------------------
(* Properties.                                                             *)

\* What the store parses from its files, and what it holds in memory.
StoreOK ==
  /\ wal \in Seq(Event) /\ Last <= WalLimit
  /\ synced \in 0 .. Last
  /\ open \in BOOLEAN /\ torn \in BOOLEAN /\ loaded \in BOOLEAN
  /\ snap \in Snapshot /\ mem \in Snapshot /\ saving \in Snapshot
  /\ fate \in {"kept", "quarantined", "pruned"}
  /\ view \in Seq(Snapshot) /\ Len(view) = Last

\* What the host knows of the run's stream and of this launch.
HostOK ==
  /\ project \subseteq Patches
  /\ producer \in {"idle", "live", "stopping", "settled", "lost"}
  /\ verdict \in [Patches -> {"unseen", "deferred", "proposed", "written", "committed", "stale"}]
  /\ recon \in {"look", "close", "close_changed", "sweep", "done"}

\* Every variable keeps its type, and the log its limit.
TypeOK == StoreOK /\ HostOK

\* The snapshot file is never ahead of the log: whatever a crash or a loss of power
\* takes from the log, the run still loads (checkpointWal before writeSnapshot in
\* saveSnapshot, against the check of assertConsistent).
SnapshotWithinLog == snap.seq <= Last

\* Recovery never guesses: the snapshot file, and the log tail replayed on it, give
\* exactly the projection the live run had at each record (recoverSnapshot against
\* what the handlers save and remember).
Before(i) == IF i = 1 THEN Absent ELSE view[i - 1]
RecoveryAgrees ==
  /\ snap.seq \in 1 .. Last => snap = view[snap.seq]
  /\ mem.seq \in 1 .. Last => mem = view[mem.seq]
  /\ saving # Absent => saving = view[Last]
  /\ \A i \in snap.seq + 1 .. Last :
       /\ view[i] = Project(Before(i), wal[i])
       /\ wal[i].kind \in CommandKinds \ {"start"} => Admits(Before(i), wal[i])

\* A command takes effect once, however often it is retried and whenever the host
\* crashed in between (acceptUnlocked's findCommand over the log).
CommandAtMostOnce ==
  \A i, j \in 1 .. Last : wal[i].id # NoCommand /\ wal[i].id = wal[j].id => i = j

\* Every decision on a plan or question is for a gate that was opened and that
\* nothing closed in between: a late answer never resolves a newer gate, and a
\* gate is answered once.
GateAnsweredOnce ==
  \A i \in 1 .. Last : wal[i].kind \in PlanKinds \cup {"answer"} =>
    \E j \in 1 .. i - 1 :
      /\ wal[j].kind = "gate_opened" /\ wal[j].gate = wal[i].gate
      /\ \A k \in j + 1 .. i - 1 :
           wal[k].kind \notin PlanKinds
             \cup {"answer", "gate_opened", "cancel", "resume", "terminal"}

\* A settled run's log is closed: only the one terminal record it still owes, and
\* what becomes of its patches, follow.  Nothing streams, steers or waits any more,
\* though the provider goes on talking until it notices.
ClosedLog ==
  \A i, j \in 1 .. Last : i < j /\ Settled(view[i]) =>
    /\ wal[j].kind \in PatchKinds
         \cup {"terminal", "patch_proposed", "patch_stale", "patch_committed"}
    /\ wal[i].kind = "terminal" => wal[j].kind # "terminal"

\* The first ending of a run stands.  Neither the provider's teardown nor a restart
\* replaces a cancelled or completed run by a failed or interrupted one, or its
\* outcome, except that a patch accepted later is reported as a change.
FirstEndingStands ==
  \A i, j \in 1 .. Last : i < j /\ Settled(view[i]) =>
    /\ view[j].status = view[i].status
    /\ (\A k \in i + 1 .. j : wal[k].kind # "accept_patch") =>
         view[j].outcome = view[i].outcome

\* A run is recorded as having committed a patch only when the project file has it.
CommittedIsInProject ==
  \A i \in 1 .. Last : wal[i].kind = "patch_committed" => wal[i].patch \in project

\* An outcome that reports a change has a patch that was written, or accepted.
ChangeIsReal ==
  \A i \in 1 .. Last : view[i].outcome.changed =>
    project # {} \/ \E j \in 1 .. i : wal[j].kind = "accept_patch"

\* Reconciliation leaves no run of an earlier process open.
OrphansClosed ==
  /\ producer = "lost" /\ recon \in {"sweep", "done"} /\ fate = "kept"
  /\ saving = Absent /\ Last > 0
  => Settled(snap)

\* A run that an earlier process ended has the run.terminal record that its
\* subscribers stop replaying at.
TerminalRecorded ==
  /\ producer = "lost" /\ recon \in {"sweep", "done"} /\ fate = "kept"
  /\ saving = Absent /\ Last > 0
  => HasEvent("terminal")

\* What has been written as the run's ending, ledger and position stays so through
\* every later step, crash and loss of power, until the run is deleted whole.
NothingDurableReverts ==
  [][fate' = "kept" =>
       /\ snap'.seq >= snap.seq
       /\ snap'.ledger >= snap.ledger
       /\ Settled(snap) => snap'.status = snap.status]_vars

-----------------------------------------------------------------------------
(* Liveness and refinement.                                                *)

\* The host finishes what it has begun: a save that follows an append, the read of
\* a run it was asked for, and the reconciliation it starts at launch.
Fairness ==
  /\ WF_vars(Save) /\ WF_vars(SaveFails) /\ WF_vars(Load) /\ WF_vars(CatchUp)
  /\ WF_vars(ReconcileSkip)
  /\ SF_vars(ReconcileLook) /\ SF_vars(ReconcileClose) /\ SF_vars(ReconcileFails)

FairSpec == Spec /\ Fairness

\* After the last failure, a run left open by an earlier process is closed, set
\* aside as corrupt or deleted: no client waits for ever on a producer that is gone.
OrphansSettle ==
  <>[][~(Crash \/ PowerLoss)]_vars =>
    (recon = "look" ~> Settled(snap) \/ fate # "kept" \/ Last = 0)

\* The run as its clients see it: the projection at the end of its log.
Now == IF Last = 0 THEN Absent ELSE view[Last]
Contract ==
  INSTANCE RunContract WITH
    status <- Now.status, outcome <- Now.outcome, gate <- Now.gate,
    decision <- Now.decision, ledger <- Now.ledger, GateIds <- 1 .. WalLimit

\* The durable run, through crashes between append and save, replays and failed
\* writes, behaves as a run that never fails; only a loss of power takes it back,
\* and nothing is promised once a snapshot is ahead of its log.
ImplementsContract ==
  Contract!Init /\ [][Contract!Next \/ PowerLoss \/ ~SnapshotWithinLog]_(Contract!vars)
=============================================================================
