---------------------------- MODULE JobScheduler ----------------------------
(***************************************************************************)
(* The capability-pack job scheduler of the desktop host, together with    *)
(* the runner of a background-removal job and the matte service's run of   *)
(* its worker.  One inference job holds the slot at a time; a user pause   *)
(* or an export asks the holder to stop its worker, and the runner then    *)
(* hands the slot on at its next checkpoint.                               *)
(*                                                                         *)
(* The host is one thread, so a step is what runs between two awaits: a    *)
(* user's request, an export that begins or ends, or an answer the runner  *)
(* was waiting for, with the settling and the granting of the slot that    *)
(* follow in the same turn of the event loop.  An operator from hosts to   *)
(* sets of hosts is one such piece of code.                                *)
(***************************************************************************)
EXTENDS Naturals

CONSTANTS
  Jobs,         \* ids of the jobs that may be submitted
  Ranks,        \* priorities in use: 0 interactive, 1 focused, 2 background
  NoJob,
  MaxRequests   \* bound: requests of the user and exports begun

ASSUME ConstantsAssumption ==
  /\ NoJob \notin Jobs
  /\ Ranks \subseteq 0 .. 2
  /\ MaxRequests \in Nat

Focused    == 1
Background == 2

VARIABLES
  job,       \* job[j]: the scheduler's entry, its runner and its worker's run
  active,    \* the job that holds the slot
  exports,   \* exports the hub is running
  seq,       \* submissions so far
  requests   \* how many more requests the environment may make

vars == <<job, active, exports, seq, requests>>

Terminals == {"completed", "failed", "cancelled"}
JobStates ==
  Terminals \cup {"new", "queued", "running", "preempted", "paused", "paused_export"}

\* Where a job's runner is: not started or returned ("idle"), asking whether its
\* project is still open ("check"), reading the project, preparing the run,
\* behind a running worker ("work"), or suspended at a checkpoint ("held").
Busy == {"check", "read", "prepare", "work"}
Places == Busy \cup {"idle", "held"}

Entry ==
  [state    : JobStates,
   rank     : 0 .. 2,
   seq      : Nat,
   restored : BOOLEAN,   \* journaled by an earlier process
   paused   : BOOLEAN,   \* the user asked for a pause
   aborted  : BOOLEAN,   \* the user cancelled it
   at       : Places,
   asked    : BOOLEAN,   \* the runner knows it must stop and come to a checkpoint
   stop     : BOOLEAN,   \* the signal of the service's run is aborted
   told     : BOOLEAN,   \* the worker process has been told to end
   keep     : BOOLEAN,   \* the service will keep the staging of a stopped run
   staging  : {"none", "made", "committed"}]

NewEntry ==
  [state |-> "new", rank |-> Background, seq |-> 0, restored |-> FALSE,
   paused |-> FALSE, aborted |-> FALSE, at |-> "idle", asked |-> FALSE,
   stop |-> FALSE, told |-> FALSE, keep |-> FALSE, staging |-> "none"]

Host == [job |-> job, active |-> active, exports |-> exports]

TypeOK ==
  /\ job \in [Jobs -> Entry]
  /\ active \in Jobs \cup {NoJob}
  /\ exports \in Nat /\ seq \in Nat /\ requests \in Nat

Live(e)    == e.state \notin Terminals \cup {"new"}
Settled(j) == job[j].state \in Terminals

Init ==
  /\ job = [j \in Jobs |-> NewEntry]
  /\ active = NoJob /\ exports = 0 /\ seq = 0 /\ requests = MaxRequests

-----------------------------------------------------------------------------
(* The slot.                                                               *)

Waiting(h) ==
  {j \in Jobs : h.job[j].state \in {"queued", "preempted"} /\ ~h.job[j].paused}

Before(h, j, k) ==
  \/ h.job[j].rank < h.job[k].rank
  \/ h.job[j].rank = h.job[k].rank /\ h.job[j].seq < h.job[k].seq

First(h) == {j \in Waiting(h) : \A k \in Waiting(h) \ {j} : Before(h, j, k)}

Put(h, j, e) == [h EXCEPT !.job[j] = e]

\* A job that is granted the slot starts its runner, or wakes it at its
\* checkpoint; either way the runner next reads the project, except that a
\* restored job first checks that its project is open.
Started(e) ==
  [e EXCEPT !.state = "running", !.asked = FALSE,
            !.at = IF e.at = "idle" /\ e.restored THEN "check" ELSE "read"]

Grant(h, j) == [Put(h, j, Started(h.job[j])) EXCEPT !.active = j]

\* Mutant: an export does not hold the queue.
PumpAlways(h) ==
  IF h.active # NoJob \/ Waiting(h) = {} THEN {h} ELSE {Grant(h, j) : j \in First(h)}

\* Mutant: the slot is granted whether or not somebody holds it.
PumpBusy(h) ==
  IF h.exports > 0 \/ Waiting(h) = {} THEN {h} ELSE {Grant(h, j) : j \in First(h)}

\* Grant the slot to the best waiting job, if it is free and no export runs.
Pump(h) ==
  IF h.active # NoJob \/ h.exports > 0 \/ Waiting(h) = {}
  THEN {h} ELSE {Grant(h, j) : j \in First(h)}

\* Job j, now e, leaves the slot.
Leave(h, j, e) ==
  [Put(h, j, e) EXCEPT !.active = IF h.active = j THEN NoJob ELSE h.active]

\* Mutant: a cancelled job whose work got done counts as completed.
EndedAnyway(e, ending) ==
  [e EXCEPT !.state = ending, !.at = "idle",
            !.asked = FALSE, !.stop = FALSE, !.told = FALSE]

\* What a cancelled job brought back is discarded.
Ended(e, ending) ==
  [e EXCEPT !.state = IF e.aborted THEN "cancelled" ELSE ending, !.at = "idle",
            !.asked = FALSE, !.stop = FALSE, !.told = FALSE]

Settle(h, j, ending) == Pump(Leave(h, j, Ended(h.job[j], ending)))

Outranked(h, j) == \E k \in Waiting(h) : h.job[k].rank < h.job[j].rank

Continues(e) == [e EXCEPT !.at = "read", !.asked = FALSE]

Held(e, exporting) ==
  [e EXCEPT !.at = "held",
            !.state = IF e.paused THEN "paused"
                      ELSE IF exporting THEN "paused_export" ELSE "preempted"]

\* Mutant: a suspended job leaves without waking the next one.
SuspendQuietly(h, j) == {Leave(h, j, Held(h.job[j], h.exports > 0))}

Suspend(h, j) == Pump(Leave(h, j, Held(h.job[j], h.exports > 0)))

\* Between runs of the worker: go on, or be suspended and hand the slot on.
Checkpoint(h, j) ==
  IF h.job[j].aborted THEN Settle(h, j, "cancelled")
  ELSE IF ~h.job[j].paused /\ h.exports = 0 /\ ~Outranked(h, j)
  THEN {Put(h, j, Continues(h.job[j]))} ELSE Suspend(h, j)

-----------------------------------------------------------------------------
(* Stopping a worker.                                                      *)

\* Mutant: a request to stop is kept only while there is a worker to stop.
AskRunning(e) ==
  IF e.at \notin {"prepare", "work"} THEN e
  ELSE [e EXCEPT !.asked = TRUE, !.stop = TRUE, !.keep = TRUE,
                 !.told = e.told \/ (e.at = "work" /\ ~e.stop)]

\* The signal of a run reaches its worker only if the worker is there when the
\* signal is aborted, and it is aborted once.
Abort(e) ==
  IF e.at \notin {"prepare", "work"} \/ e.stop THEN e
  ELSE [e EXCEPT !.stop = TRUE, !.told = e.at = "work"]

\* The runner's suspend handler, which it has once it is past "check".
Ask(e) ==
  IF e.at = "check" THEN e
  ELSE [Abort(e) EXCEPT !.asked = TRUE, !.keep = e.keep \/ e.at \in {"prepare", "work"}]

AskActive(h) ==
  IF h.active = NoJob THEN h ELSE Put(h, h.active, Ask(h.job[h.active]))

-----------------------------------------------------------------------------
(* Requests.                                                               *)

Become(hosts) ==
  \E t \in hosts : job' = t.job /\ active' = t.active /\ exports' = t.exports

Request == requests > 0 /\ requests' = requests - 1

\* A new focused job demotes the earlier ones to background.
Demoted(e) == IF e.rank = Focused THEN [e EXCEPT !.rank = Background] ELSE e

Submit(j, rank, restored) ==
  /\ job[j].state = "new"
  /\ restored => rank = Background
  /\ seq' = seq + 1
  /\ LET others == IF rank = Focused
                   THEN [k \in Jobs |-> Demoted(job[k])] ELSE job
         entry  == [NewEntry EXCEPT !.state = "queued", !.rank = rank,
                                    !.seq = seq + 1, !.restored = restored]
     IN Become(Pump([Host EXCEPT !.job = [others EXCEPT ![j] = entry]]))
  /\ UNCHANGED requests

Pause(j) ==
  /\ Live(job[j]) /\ ~job[j].paused
  /\ Request
  /\ LET e == [job[j] EXCEPT !.paused = TRUE]
     IN job' = [job EXCEPT ![j] = IF j = active THEN Ask(e)
                                  ELSE [e EXCEPT !.state = "paused"]]
  /\ UNCHANGED <<active, exports, seq>>

Resume(j) ==
  /\ Live(job[j]) /\ job[j].paused
  /\ Request
  /\ LET e == [job[j] EXCEPT !.paused = FALSE]
     IN Become(Pump(Put(Host, j,
          IF j = active THEN e
          ELSE [e EXCEPT !.state = IF e.at = "idle" THEN "queued" ELSE "preempted"])))
  /\ UNCHANGED seq

\* A job that has not started, or is held at a checkpoint, is over at once; a
\* running one has its worker stopped, if it has one.
Cancel(j) ==
  /\ Live(job[j])
  /\ Request
  /\ LET e == [job[j] EXCEPT !.aborted = TRUE]
     IN Become(IF e.at \in {"idle", "held"} THEN Settle(Put(Host, j, e), j, "cancelled")
               ELSE {Put(Host, j, Abort(e))})
  /\ UNCHANGED seq

StartExport ==
  /\ Request
  /\ Become({AskActive([Host EXCEPT !.exports = exports + 1])})
  /\ UNCHANGED seq

\* Mutant: the jobs an export held back stay held when it ends.
ReleasedLate(e) == e

Released(e) ==
  IF e.state = "paused_export" THEN [e EXCEPT !.state = "preempted"] ELSE e

\* Mutant: an end is reported without an export.
EndExportUnmatched ==
  /\ Become({[Host EXCEPT !.exports = exports - 1]})
  /\ UNCHANGED <<seq, requests>>

\* The hub reports its count after every export: only the last one ends the hold.
EndExport ==
  /\ exports > 0
  /\ LET h == [Host EXCEPT !.exports = exports - 1]
     IN Become(IF h.exports > 0 THEN {AskActive(h)}
               ELSE Pump([h EXCEPT !.job = [j \in Jobs |-> Released(job[j])]]))
  /\ UNCHANGED <<seq, requests>>

-----------------------------------------------------------------------------
(* Answers the holder's runner waits for.                                  *)

\* A restored job goes on only with a licence and its project open.
CheckAnswers(j) ==
  /\ job[j].at = "check"
  /\ Become(Checkpoint(Host, j) \cup Settle(Host, j, "failed"))
  /\ UNCHANGED <<seq, requests>>

\* The project is read, or cannot be.  A request to stop that came meanwhile
\* takes the runner back to its checkpoint; a cancel does not.
ReadAnswers(j) ==
  /\ job[j].at = "read"
  /\ Become(Settle(Host, j, "failed")
            \cup (IF job[j].asked THEN Checkpoint(Host, j)
                  ELSE {Put(Host, j, [job[j] EXCEPT !.at = "prepare"])}))
  /\ UNCHANGED <<seq, requests>>

\* The service's run returned.  A failure it was asked for brings the runner to
\* its checkpoint; every other answer is the job's result, a failed one included.
Returned(run, j, failed) ==
  LET e == [run EXCEPT !.stop = FALSE, !.told = FALSE]
  IN IF failed /\ e.asked /\ ~e.aborted
     THEN Checkpoint(Put(Host, j, e), j) ELSE Settle(Put(Host, j, e), j, "completed")

\* The media, the pack or the disk refuse the run, or the cache answers it.
PrepareAnswers(j) ==
  /\ job[j].at = "prepare"
  /\ \E failed \in BOOLEAN : Become(Returned(job[j], j, failed))
  /\ UNCHANGED <<seq, requests>>

\* The staging folder is ready and the worker process starts.
WorkerStarts(j) ==
  /\ job[j].at = "prepare"
  /\ job' = [job EXCEPT ![j].at = "work", ![j].staging = "made"]
  /\ UNCHANGED <<active, exports, seq, requests>>

\* Mutant: the staging of a stopped run is discarded like a failed one's.
LeftDiscarded(e, committed) ==
  [e EXCEPT !.keep = FALSE, !.staging = IF committed THEN "committed" ELSE "none"]

\* What a run leaves: its artifact, its finished parts for a resume, or nothing.
Left(e, committed) ==
  [e EXCEPT !.keep = FALSE,
            !.staging = IF committed THEN "committed" ELSE IF e.keep THEN "made" ELSE "none"]

\* The worker's result is verified and committed, or the run failed; a result
\* for an older revision of the project is committed and reported as a failure.
WorkerAnswers(j) ==
  /\ job[j].at = "work"
  /\ \E failed, committed \in BOOLEAN :
       /\ failed \/ committed
       /\ Become(Returned(Left(job[j], committed), j, failed))
  /\ UNCHANGED <<seq, requests>>

Runner(j) ==
  CheckAnswers(j) \/ ReadAnswers(j) \/ PrepareAnswers(j) \/ WorkerStarts(j) \/ WorkerAnswers(j)

Next ==
  \/ \E j \in Jobs :
       \/ \E rank \in Ranks, restored \in BOOLEAN : Submit(j, rank, restored)
       \/ Pause(j) \/ Resume(j) \/ Cancel(j)
       \/ Runner(j)
  \/ StartExport \/ EndExport

Spec == Init /\ [][Next]_vars

\* Reads answer, a worker ends or times out, and so does a render.
Fairness == WF_vars(EndExport) /\ \A j \in Jobs : WF_vars(Runner(j))
FairSpec == Spec /\ Fairness

-----------------------------------------------------------------------------
(* Properties.                                                             *)

\* No wakeup is lost: while the slot is free and no export runs, nobody waits
\* for it.  Every path that leaves the slot, ends a pause or ends an export
\* must hand it on.
NoIdleSlot == active = NoJob /\ exports = 0 => Waiting(Host) = {}

\* One inference at a time: a runner is past its checkpoint only while its job
\* holds the slot, and the job that holds it is never also queued or suspended.
OneInference == \A j \in Jobs : job[j].at \in Busy <=> active = j

\* A pause or an export that comes while the holder is between its checkpoint
\* and the end of its run is remembered until the next checkpoint, wherever in
\* between it comes.
StopRemembered ==
  \A j \in Jobs :
    /\ job[j].at \in {"read", "prepare", "work"}
    /\ job[j].paused \/ exports > 0
    => job[j].asked

\* The entry of a job agrees with where its runner is, and with who holds the slot.
Consistent(h, j) ==
  LET e == h.job[j] IN
  /\ e.at \in Busy <=> h.active = j
  /\ e.at \in Busy <=> e.state = "running"
  /\ e.state \in {"new", "queued"} \cup Terminals => e.at = "idle"
  /\ e.state \in {"preempted", "paused_export"} => e.at = "held"
  /\ e.state = "paused" => e.at \in {"idle", "held"} /\ e.paused
  /\ e.state \in {"queued", "preempted", "paused_export"} => ~e.paused
  /\ e.state = "paused_export" => h.exports > 0
  /\ e.state = "new" => ~e.paused /\ ~e.aborted /\ e.staging = "none"
  /\ e.aborted => e.at \in Busy \/ e.state = "cancelled"
  /\ e.at \in {"read", "prepare", "work"} /\ (e.paused \/ h.exports > 0) => e.asked
  /\ e.at \in {"prepare", "work"} /\ e.asked => e.keep
  /\ e.at = "work" => e.staging = "made"

\* Seen between two steps of the host: what the invariants above rest on.
Sound == (\A j \in Jobs : Consistent(Host, j)) /\ NoIdleSlot

\* The worker of a job that is cancelled, or asked to make room, is told to end
\* ("Pausing ... (or starting an export) stops the worker within seconds").
StopReachesWorker ==
  \A j \in Jobs :
    job[j].at = "work" /\ (job[j].aborted \/ job[j].asked) => job[j].told

\* No run of the service begins for a paused job or under an export.
RunBegins(j) == job[j].at # "prepare" /\ job'[j].at = "prepare"
NoRunUnderHold ==
  [][\A j \in Jobs : RunBegins(j) => ~job[j].paused /\ exports = 0]_vars

\* What a worker has finished is thrown away only with its job: a pause, an
\* export and a job that takes over keep it.
WindowsKept ==
  [][\A j \in Jobs : job[j].staging = "made" /\ job'[j].staging = "none" => Settled(j)']_vars

\* A job ends once, and a cancelled one ends as cancelled whatever its worker
\* brings back later.
EndingStands ==
  [][\A j \in Jobs :
       /\ Settled(j) => job'[j].state = job[j].state
       /\ job[j].aborted /\ Settled(j)' => job'[j].state = "cancelled"]_vars

\* What the contract sees of the jobs.
Phase(e) ==
  IF e.state = "new" THEN "none" ELSE IF e.state \in Terminals THEN e.state
  ELSE IF e.at \in {"prepare", "work"} THEN "run"
  ELSE IF e.at \in {"check", "read"} THEN "in" ELSE "out"

PhaseOf(jobs)     == [j \in Jobs |-> Phase(jobs[j])]
PausedOf(jobs)    == [j \in Jobs |-> jobs[j].paused]
CancelledOf(jobs) == [j \in Jobs |-> jobs[j].aborted]
WindowsOf(jobs)   == [j \in Jobs |-> jobs[j].staging]

Contract ==
  INSTANCE JobContract WITH
    phase <- PhaseOf(job), paused <- PausedOf(job), cancelled <- CancelledOf(job),
    windows <- WindowsOf(job)

\* Queue, runner and signals together do what the contract promises: the slot is
\* handed on in the step that frees it, an ending is final and the user's, and the
\* holder makes room only for a pause, an export or a job that waits.
ImplementsContract == Contract!Spec

\* Every job that nobody pauses comes to an end, whatever is submitted, paused,
\* cancelled or exported around it.
JobsSettle ==
  \A j \in Jobs : Live(job[j]) ~> Settled(j) \/ job[j].paused
=============================================================================
