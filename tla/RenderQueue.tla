---------------------------- MODULE RenderQueue -----------------------------
(***************************************************************************)
(* The render queue of the engine: request threads that submit and cancel, *)
(* the worker thread that runs one task at a time in a process of its own, *)
(* that process, and the file the exports of a project all write.          *)
(*                                                                         *)
(* A step of the queue is what one thread does while it holds the lock, or *)
(* between two waits of the worker.  The service builds the queue with one *)
(* worker thread and no automatic retry, and has no route for retry(); so  *)
(* a task runs at most once, and its id names its process too.             *)
(***************************************************************************)
EXTENDS Naturals, Sequences

CONSTANTS
  Tasks,        \* ids of the renders that may be submitted
  NoTask,
  RetryLimit    \* requests of ended tasks that are kept

ASSUME QueueAssumption == NoTask \notin Tasks /\ RetryLimit \in Nat

VARIABLES
  task,        \* task[t]: the task, its retained request and its cancel event
  adding,      \* tasks entered under the lock and not yet put in the pending queue
  pending,     \* ids waiting for the worker, oldest first
  retryOrder,  \* ended tasks whose request is kept, oldest first
  worker,      \* the worker thread: where it is, its task, how the task ends
  proc,        \* proc[t]: the process that renders t
  file,        \* the destination: what it holds and who wrote it
  up           \* the engine process is alive

queueVars == <<task, adding, pending, retryOrder, worker, proc, file, up>>

Terminal == {"completed", "failed", "cancelled"}
Entry ==
  [status  : Terminal \cup {"none", "queued", "running"},
   request : BOOLEAN,                     \* the queue holds the task's request
   cancel  : {"none", "clear", "set"}]    \* its cancel event, if it has one

NoEntry  == [status |-> "none", request |-> FALSE, cancel |-> "none"]
NewEntry == [status |-> "queued", request |-> TRUE, cancel |-> "clear"]

\* What the worker does: nothing, about to take the lock with a task in hand,
\* waiting for the process, cleaning up after it, stopping it, or reporting.
WorkerPlaces == {"idle", "taken", "executing", "discarding", "stopping", "finishing"}
Idle == [at |-> "idle", task |-> NoTask, ending |-> "failed"]

\* A process reads the assets, writes its output, and posts its result; "stuck"
\* is one that outlived SIGKILL.
Rendering == {"preparing", "writing"}
ProcStates == Rendering \cup {"none", "completed", "failed", "dead", "stuck"}

NoFile        == [by |-> NoTask, holds |-> "nothing"]
EarlierExport == [by |-> NoTask, holds |-> "whole"]

QueueTypeOK ==
  /\ task \in [Tasks -> Entry]
  /\ adding \subseteq Tasks
  /\ pending \in Seq(Tasks) /\ retryOrder \in Seq(Tasks)
  /\ worker \in [at : WorkerPlaces, task : Tasks \cup {NoTask}, ending : Terminal]
  /\ proc \in [Tasks -> ProcStates]
  /\ file \in [by : Tasks \cup {NoTask}, holds : {"nothing", "partial", "whole"}]
  /\ up \in BOOLEAN

QueueInit ==
  /\ task = [t \in Tasks |-> NoEntry]
  /\ adding = {} /\ pending = <<>> /\ retryOrder = <<>>
  /\ worker = Idle
  /\ proc = [t \in Tasks |-> "none"]
  /\ file \in {NoFile, EarlierExport}
  /\ up = TRUE

Elements(s) == {s[i] : i \in 1 .. Len(s)}
Ended(t)    == task[t].status \in Terminal
Open(t)     == task[t].status \in {"queued", "running"}

-----------------------------------------------------------------------------
(* Request threads.                                                        *)

Submit(t) ==
  /\ up /\ task[t] = NoEntry
  /\ task' = [task EXCEPT ![t] = NewEntry]
  /\ adding' = adding \cup {t}
  /\ UNCHANGED <<pending, retryOrder, worker, proc, file, up>>

\* The put comes after the lock is released.
PutPending(t) ==
  /\ t \in adding
  /\ adding' = adding \ {t}
  /\ pending' = Append(pending, t)
  /\ UNCHANGED <<task, retryOrder, worker, proc, file, up>>

\* Mutant: one request too many is kept.
OverLimitByOne(order) == Len(order) > RetryLimit + 1

OverLimit(order) == Len(order) > RetryLimit

\* Task t ends and its request is kept for a retry, in place of the oldest.
Retain(t, ending) ==
  LET order == Append(retryOrder, t)
      evicted == IF OverLimit(order) THEN {Head(order)} ELSE {}
  IN /\ retryOrder' = IF OverLimit(order) THEN Tail(order) ELSE order
     /\ task' = [u \in Tasks |->
          [status  |-> IF u = t THEN ending ELSE task[u].status,
           request |-> task[u].request /\ u \notin evicted,
           cancel  |-> IF u = t THEN "none" ELSE task[u].cancel]]

Release(t) ==
  /\ task' = [task EXCEPT ![t] = [status |-> "completed", request |-> FALSE,
                                  cancel |-> "none"]]
  /\ UNCHANGED retryOrder

\* A queued task is over at once, a running one when its worker sees the event;
\* an unknown one is refused and an ended one is left as it is.
Cancel(t) ==
  /\ up /\ task[t].status # "none"
  /\ CASE task[t].status = "queued"  -> Retain(t, "cancelled")
       [] task[t].status = "running" -> /\ task' = [task EXCEPT ![t].cancel = "set"]
                                        /\ UNCHANGED retryOrder
       [] OTHER                      -> UNCHANGED <<task, retryOrder>>
  /\ UNCHANGED <<adding, pending, worker, proc, file, up>>

-----------------------------------------------------------------------------
(* The worker thread.                                                      *)

\* Mutant: the worker looks at the newest task and drops the others.
TakeNewest ==
  /\ worker.at = "idle" /\ pending # <<>>
  /\ worker' = [Idle EXCEPT !.at = "taken", !.task = pending[Len(pending)]]
  /\ pending' = <<>>
  /\ UNCHANGED <<task, adding, retryOrder, proc, file, up>>

Take ==
  /\ worker.at = "idle" /\ pending # <<>>
  /\ worker' = [Idle EXCEPT !.at = "taken", !.task = Head(pending)]
  /\ pending' = Tail(pending)
  /\ UNCHANGED <<task, adding, retryOrder, proc, file, up>>

\* A task cancelled while it was pending has no cancel event any more.
Drop ==
  /\ worker.at = "taken" /\ task[worker.task].cancel = "none"
  /\ worker' = Idle
  /\ UNCHANGED <<task, adding, pending, retryOrder, proc, file, up>>

\* The process is spawned, or cannot be.
Start ==
  /\ worker.at = "taken"
  /\ LET t == worker.task IN
     /\ task[t].request /\ task[t].cancel = "clear"
     /\ task' = [task EXCEPT ![t].status = "running"]
     /\ \/ proc' = [proc EXCEPT ![t] = "preparing"] /\ worker' = [worker EXCEPT !.at = "executing"]
        \/ UNCHANGED proc /\ worker' = [worker EXCEPT !.at = "finishing"]
  /\ UNCHANGED <<adding, pending, retryOrder, file, up>>

Leaves(place, ending) ==
  /\ worker.at = "executing"
  /\ worker' = [worker EXCEPT !.at = place, !.ending = ending]
  /\ UNCHANGED <<task, adding, pending, retryOrder, proc, file, up>>

\* Mutant: the output is cleaned up on every way out of the executor.
ResultReadDiscards ==
  /\ Leaves("discarding", proc[worker.task])
  /\ proc[worker.task] \in {"completed", "failed"}

ResultRead ==
  /\ Leaves("stopping", proc[worker.task])
  /\ proc[worker.task] \in {"completed", "failed"}

\* A result posted since the last look is not read any more.
CancelSeen == Leaves("discarding", "cancelled") /\ task[worker.task].cancel = "set"

\* Mutant: the executor has no deadline.
TimedOutNever == FALSE

\* The service always gives the queue a timeout.
TimedOut == Leaves("discarding", "failed")

ProcessGone == Leaves("stopping", "failed") /\ proc[worker.task] = "dead"

\* The file at the destination is removed, whoever wrote it, or cannot be.
DiscardOutput ==
  /\ worker.at = "discarding"
  /\ worker' = [worker EXCEPT !.at = "stopping"]
  /\ file' \in {file, NoFile}
  /\ UNCHANGED <<task, adding, pending, retryOrder, proc, up>>

Stopped(state) == IF state \in Rendering THEN {"dead", "stuck"} ELSE {state}

\* Mutant: the worker's process is asked to end and left behind.
StopAsked ==
  /\ worker.at = "stopping"
  /\ worker' = [worker EXCEPT !.at = "finishing"]
  /\ UNCHANGED <<task, adding, pending, retryOrder, proc, file, up>>

\* SIGTERM, then SIGKILL, each waited for; after that the process is abandoned.
StopWorker ==
  /\ worker.at = "stopping"
  /\ worker' = [worker EXCEPT !.at = "finishing"]
  /\ \E state \in Stopped(proc[worker.task]) : proc' = [proc EXCEPT ![worker.task] = state]
  /\ UNCHANGED <<task, adding, pending, retryOrder, file, up>>

Finish ==
  /\ worker.at = "finishing"
  /\ IF worker.ending = "completed" THEN Release(worker.task)
     ELSE Retain(worker.task, worker.ending)
  /\ worker' = Idle
  /\ UNCHANGED <<adding, pending, proc, file, up>>

Worker ==
  \/ Take \/ Drop \/ Start \/ ResultRead \/ CancelSeen \/ TimedOut \/ ProcessGone
  \/ DiscardOutput \/ StopWorker \/ Finish

-----------------------------------------------------------------------------
(* The process of a task, and the life of the engine.                      *)

\* The output is opened: what an earlier export left there is gone.
OpenOutput(t) ==
  /\ proc[t] = "preparing"
  /\ proc' = [proc EXCEPT ![t] = "writing"]
  /\ file' = [by |-> t, holds |-> "partial"]
  /\ UNCHANGED <<task, adding, pending, retryOrder, worker, up>>

\* The output is encoded and validated, where it is still there.
Succeed(t) ==
  /\ proc[t] = "writing" /\ file.by = t
  /\ proc' = [proc EXCEPT ![t] = "completed"]
  /\ file' = [by |-> t, holds |-> "whole"]
  /\ UNCHANGED <<task, adding, pending, retryOrder, worker, up>>

\* A render that fails removes what is at its destination, once it knows it.
Fail(t) ==
  /\ proc[t] \in Rendering
  /\ proc' = [proc EXCEPT ![t] = "failed"]
  /\ file' \in {file, NoFile}
  /\ UNCHANGED <<task, adding, pending, retryOrder, worker, up>>

\* The process dies on its own and posts nothing.
Die(t) ==
  /\ proc[t] \in Rendering
  /\ proc' = [proc EXCEPT ![t] = "dead"]
  /\ UNCHANGED <<task, adding, pending, retryOrder, worker, file, up>>

\* Mutant: the watchdog runs only while frames are encoded.
WatchdogWhileWriting(t) ==
  /\ ~up /\ proc[t] = "writing"
  /\ proc' = [proc EXCEPT ![t] = "dead"]
  /\ UNCHANGED <<task, adding, pending, retryOrder, worker, file, up>>

\* The process notices that its engine is gone, and kills its group.
Watchdog(t) ==
  /\ ~up /\ proc[t] \in Rendering
  /\ proc' = [proc EXCEPT ![t] = "dead"]
  /\ UNCHANGED <<task, adding, pending, retryOrder, worker, file, up>>

\* The engine exits or is killed.  The queue was in its memory; the processes
\* of its tasks are in groups of their own and go on.
EngineDies ==
  /\ up
  /\ up' = FALSE
  /\ task' = [t \in Tasks |-> NoEntry]
  /\ adding' = {} /\ pending' = <<>> /\ retryOrder' = <<>>
  /\ worker' = Idle
  /\ UNCHANGED <<proc, file>>

QueueInternal ==
  \/ Worker \/ EngineDies
  \/ \E t \in Tasks :
       PutPending(t) \/ OpenOutput(t) \/ Succeed(t) \/ Fail(t) \/ Die(t) \/ Watchdog(t)

QueueNext == QueueInternal \/ \E t \in Tasks : Submit(t) \/ Cancel(t)

QueueSpec == QueueInit /\ [][QueueNext]_queueVars

\* The engine's threads run; nothing is asked of a render process, but that its
\* watchdog thread runs.
QueueFairness ==
  /\ WF_queueVars(Worker)
  /\ \A t \in Tasks : WF_queueVars(PutPending(t)) /\ WF_queueVars(Watchdog(t))

-----------------------------------------------------------------------------
(* Properties.                                                             *)

At(t, places) == worker.task = t /\ worker.at \in places

\* No task is lost between the lock and the pending queue, or by a cancel at the
\* moment it is taken: a queued one has all it needs to run and will be taken,
\* and a running one is in the worker's hands.
NeverStranded ==
  \A t \in Tasks :
    /\ task[t].status = "queued" =>
         /\ task[t].request /\ task[t].cancel = "clear"
         /\ t \in adding \cup Elements(pending) \/ At(t, {"taken"})
    /\ task[t].status = "running" =>
         /\ task[t].request /\ task[t].cancel # "none"
         /\ At(t, {"executing", "discarding", "stopping", "finishing"})

\* What the queue keeps of ended tasks is bounded: the requests (whole projects)
\* of the newest few that did not complete, and no cancel event.
RetainedBounded ==
  /\ Len(retryOrder) <= RetryLimit
  /\ {t \in Tasks : Ended(t) /\ task[t].request} = Elements(retryOrder)
  /\ \A t \in Tasks : Ended(t) => task[t].cancel = "none"

\* When a task is reported as ended, its process has stopped writing: it posted
\* its result, is dead, or was abandoned after SIGKILL.
EndMeansStopped == \A t \in Tasks : Ended(t) => proc[t] \notin Rendering

\* At most one process renders, so no two exports write the destination at once.
OneRender == \A t, u \in Tasks : proc[t] \in Rendering /\ proc[u] \in Rendering => t = u

\* A render is reported as completed only over a whole file that it wrote.
CompletedIsWhole ==
  [][\A t \in Tasks :
       ~Ended(t) /\ task'[t].status = "completed" => file' = [by |-> t, holds |-> "whole"]
    ]_queueVars

\* A task ends once: a cancelled one never runs after all, and neither its
\* process nor a later cancel changes how it ended.
EndingStands ==
  [][\A t \in Tasks : up' /\ Ended(t) => task'[t].status = task[t].status]_queueVars

StageOf(tasks)  == [t \in Tasks |-> tasks[t].status]
AskedOf(tasks)  == {t \in Tasks : tasks[t].cancel = "set"}
WritingOf(procs) == {t \in Tasks : procs[t] \in Rendering}

Contract ==
  INSTANCE RenderContract WITH
    stage <- StageOf(task), asked <- AskedOf(task), writing <- WritingOf(proc),
    content <- file

\* Threads, pending queue and processes together do what the contract promises:
\* one render at a time, an ending that is final, stands on its file or on a cancel
\* that was asked, and comes when nothing of the render writes any more.
ImplementsContract == Contract!Spec

\* Every render ends, whatever its process does, for as long as the engine lives.
RendersEnd == \A t \in Tasks : Open(t) ~> ~Open(t)

\* No process outlives the engine for good.
OrphansDie == ~up ~> \A t \in Tasks : proc[t] \notin Rendering
=============================================================================
