--------------------------- MODULE SidecarManager ---------------------------
(***************************************************************************)
(* The desktop host's manager of the engine process: it starts the engine, *)
(* polls its health until it answers, watches it from then on, restarts it *)
(* a bounded number of times, and kills it.                                *)
(*                                                                         *)
(* A step of the manager is what runs between two awaits or in one event   *)
(* handler.  The host starts the engine once at launch and, when a pack    *)
(* that the engine uses was installed or moved, stops and starts it in one *)
(* go.  An engine is a process group: a wrapper, whose exit the host sees, *)
(* and the server that answers, which either can outlive.                  *)
(***************************************************************************)
EXTENDS Naturals

CONSTANTS
  Engines,       \* process groups that may exist at once; a place is used again
  NoEngine,
  MaxRestarts,   \* restarts after unexpected ends, before the manager gives up
  Attempts,      \* health checks of a starting engine
  Misses,        \* failed checks in a row that declare a ready engine gone
  MaxRequests,   \* bound: restarts that the host asks for
  MaxBackoffs    \* bound: delays of restarts told apart; two beyond it end together

ASSUME SidecarAssumption ==
  /\ NoEngine \notin Engines
  /\ {Attempts, Misses, MaxBackoffs} \subseteq Nat \ {0}
  /\ {MaxRestarts, MaxRequests} \subseteq Nat

VARIABLES
  manager,   \* the fields of the manager
  poll,      \* poll[e]: the startup poll that began with e's process
  watch,     \* watch[e]: the liveness loop that this poll started
  engine,    \* engine[e]: the process group and its event for the host
  host,      \* the host's life
  requests,  \* restarts it asked for
  tries      \* engines started since the last stop or answered liveness check, and
             \* the one that was the manager's at that check

vars == <<manager, poll, watch, engine, host, requests, tries>>

Phases == {"stopped", "starting", "ready", "failed"}
Manager ==
  [phase    : Phases,
   process  : Engines \cup {NoEngine},
   exited   : BOOLEAN,
   restarts : 0 .. MaxRestarts,
   epoch    : Engines \cup {NoEngine},   \* the loop the liveness epoch belongs to
   backoffs : 0 .. MaxBackoffs]          \* restarts that wait for their delay

\* A loop is over, waits for an answer that is under way, or sleeps.
Places == {"off", "asking", "asleep"}
NoPoll  == [at |-> "off", left |-> 0, answer |-> FALSE]
NoWatch == [at |-> "off", missed |-> 0, answer |-> FALSE]

\* "silent": a wrapper whose server does not answer, not yet or no longer; "orphan":
\* the server without its wrapper.
Groups == {"silent", "serving", "orphan", "gone"}

\* The entry of a group in the host's registry of processes: open, terminated by a
\* kill that signalled the group, or terminated because its wrapper's exit was seen.
Entries == {"none", "open", "killed", "closed"}
NoGroup == [group |-> "gone", entry |-> "none", event |-> "none"]

TypeOK ==
  /\ manager \in Manager
  /\ poll \in [Engines -> [at : Places, left : 0 .. Attempts - 1, answer : BOOLEAN]]
  /\ watch \in [Engines -> [at : Places, missed : 0 .. Misses - 1, answer : BOOLEAN]]
  /\ engine \in [Engines -> [group : Groups, entry : Entries,
                             event : {"none", "exit", "error"}]]
  /\ host \in {"launching", "running", "quit"}
  /\ requests \in 0 .. MaxRequests
  /\ tries \in Nat

Init ==
  /\ manager = [phase |-> "stopped", process |-> NoEngine, exited |-> FALSE,
                restarts |-> 0, epoch |-> NoEngine, backoffs |-> 0]
  /\ poll = [e \in Engines |-> NoPoll]
  /\ watch = [e \in Engines |-> NoWatch]
  /\ engine = [e \in Engines |-> NoGroup]
  /\ host = "launching"
  /\ requests = 0
  /\ tries = 0

Serves(e) == engine[e].group \in {"serving", "orphan"}

\* A check is answered by whoever holds the port when it is sent, or by nobody.
Answers == IF \E e \in Engines : Serves(e) THEN BOOLEAN ELSE {FALSE}

\* Nothing of an earlier engine is left at this place.
Free(e) == engine[e] = NoGroup /\ poll[e] = NoPoll /\ watch[e] = NoWatch

\* Only an entry that is still open signals its group.
Terminated(entry) == IF entry = "open" THEN "killed" ELSE entry

\* kill() of a process, or of none.
Killed(e) ==
  IF e \in Engines THEN [engine EXCEPT ![e].entry = Terminated(@)] ELSE engine

-----------------------------------------------------------------------------
(* The manager.                                                            *)

\* The process is spawned, or its error is on its way, and the first check is sent.
Begins(m, groups, e, answer, born) ==
  /\ Free(e)
  /\ engine' = [groups EXCEPT ![e] =
       IF born = "gone" THEN [NoGroup EXCEPT !.event = "error"]
       ELSE [group |-> born, entry |-> "open", event |-> "none"]]
  /\ manager' = [m EXCEPT !.phase = "starting", !.exited = FALSE, !.process = e]
  /\ poll' = [poll EXCEPT ![e] = [at |-> "asking", left |-> Attempts - 1, answer |-> answer]]
  /\ UNCHANGED watch

\* start(), of a manager m that is neither starting nor ready, with the groups
\* as in `groups`.
Start(m, groups) ==
  \E e \in Engines : \E answer \in Answers : \E born \in {"silent", "gone"} :
    Begins(m, groups, e, answer, born)

StoppedManager ==
  [manager EXCEPT !.phase = "stopped", !.process = NoEngine, !.restarts = 0, !.epoch = NoEngine]

Launch ==
  /\ host = "launching"
  /\ host' = "running" /\ tries' = 1
  /\ Start(manager, engine)
  /\ UNCHANGED requests

\* stop() and start(), with no await in between.
Restart ==
  /\ host = "running" /\ requests < MaxRequests
  /\ requests' = requests + 1 /\ tries' = 1
  /\ Start(StoppedManager, Killed(manager.process))
  /\ UNCHANGED host

\* stop() and the end of every process whose entry is open, and the host is gone
\* with its loops.
Quit ==
  /\ host = "running"
  /\ host' = "quit" /\ tries' = 0
  /\ manager' = [StoppedManager EXCEPT !.backoffs = 0]
  /\ engine' = [e \in Engines |-> [engine[e] EXCEPT !.entry = Terminated(@)]]
  /\ poll' = [e \in Engines |-> NoPoll]
  /\ watch' = [e \in Engines |-> NoWatch]
  /\ UNCHANGED requests

Recover(m) ==
  IF m.restarts >= MaxRestarts
  THEN [m EXCEPT !.process = NoEngine, !.phase = "failed"]
  ELSE [m EXCEPT !.process = NoEngine, !.phase = "starting",
                 !.restarts = @ + 1,
                 !.backoffs = IF @ < MaxBackoffs THEN @ + 1 ELSE @]

\* Mutant: the phase is left at starting, where start() does nothing.
BackoffEndsStarting ==
  /\ host = "running" /\ manager.backoffs > 0
  /\ manager' = [manager EXCEPT !.backoffs = @ - 1]
  /\ UNCHANGED <<poll, watch, engine, host, requests, tries>>

\* A stop or a start during the delay owns the process now.
BackoffEnds ==
  /\ host = "running" /\ manager.backoffs > 0
  /\ LET m == [manager EXCEPT !.backoffs = @ - 1] IN
     IF manager.phase = "starting" /\ manager.process = NoEngine
     THEN Start(m, engine) /\ tries' = tries + 1
     ELSE manager' = m /\ UNCHANGED <<poll, watch, engine, tries>>
  /\ UNCHANGED <<host, requests>>

\* Mutant: an engine that became ready is forgiven its restarts at once.
PollAnsweredForgives(e) ==
  /\ poll[e].at = "asking" /\ poll[e].answer
  /\ manager' = [manager EXCEPT !.phase = "ready", !.epoch = e, !.restarts = 0]
  /\ poll' = [poll EXCEPT ![e] = NoPoll]
  /\ watch' = [watch EXCEPT ![e] = [NoWatch EXCEPT !.at = "asleep"]]
  /\ UNCHANGED <<engine, host, requests, tries>>

\* Mutant: only the poll of the present process starts a liveness loop.
PollAnsweredUnwatched(e) ==
  /\ poll[e].at = "asking" /\ poll[e].answer
  /\ manager' = [manager EXCEPT !.phase = "ready", !.epoch = e]
  /\ poll' = [poll EXCEPT ![e] = NoPoll]
  /\ watch' = IF manager.process = e
              THEN [watch EXCEPT ![e] = [NoWatch EXCEPT !.at = "asleep"]] ELSE watch
  /\ UNCHANGED <<engine, host, requests, tries>>

\* The poll believes any answer, whatever happened while it waited.
PollAnswered(e) ==
  /\ poll[e].at = "asking" /\ poll[e].answer
  /\ manager' = [manager EXCEPT !.phase = "ready", !.epoch = e]
  /\ poll' = [poll EXCEPT ![e] = NoPoll]
  /\ watch' = [watch EXCEPT ![e] = [NoWatch EXCEPT !.at = "asleep"]]
  /\ UNCHANGED <<engine, host, requests, tries>>

PollUnanswered(e) ==
  /\ poll[e].at = "asking" /\ ~poll[e].answer
  /\ poll' = [poll EXCEPT ![e].at = "asleep"]
  /\ UNCHANGED <<manager, watch, engine, host, requests, tries>>

\* The poll gives up and fails whatever process there is, asks again, or ends
\* because a process exited.
PollWakes(e) ==
  /\ poll[e].at = "asleep"
  /\ CASE poll[e].left = 0 ->
            /\ manager' = [manager EXCEPT !.phase = "failed", !.process = NoEngine]
            /\ engine' = Killed(manager.process)
            /\ poll' = [poll EXCEPT ![e] = NoPoll]
       [] poll[e].left > 0 /\ manager.exited ->
            /\ poll' = [poll EXCEPT ![e] = NoPoll]
            /\ UNCHANGED <<manager, engine>>
       [] OTHER ->
            /\ \E answer \in Answers :
                 poll' = [poll EXCEPT ![e] =
                   [at |-> "asking", left |-> poll[e].left - 1, answer |-> answer]]
            /\ UNCHANGED <<manager, engine>>
  /\ UNCHANGED <<watch, host, requests, tries>>

Watches(e) == manager.epoch = e /\ manager.phase = "ready"

WatchWakes(e) ==
  /\ watch[e].at = "asleep"
  /\ IF Watches(e)
     THEN \E answer \in Answers :
            watch' = [watch EXCEPT ![e] =
              [at |-> "asking", missed |-> watch[e].missed, answer |-> answer]]
     ELSE watch' = [watch EXCEPT ![e] = NoWatch]
  /\ UNCHANGED <<manager, poll, engine, host, requests, tries>>

\* Goes on with this many misses, unless it was retired while it waited.
GoesOn(e, missed) ==
  watch' = [watch EXCEPT ![e] =
    IF Watches(e) THEN [at |-> "asleep", missed |-> missed, answer |-> FALSE] ELSE NoWatch]

\* An engine that answers has recovered, and the restarts are forgiven.
WatchAnswered(e) ==
  /\ watch[e].at = "asking" /\ watch[e].answer
  /\ manager' = [manager EXCEPT !.restarts = 0]
  /\ tries' = IF manager.process = NoEngine THEN 0 ELSE 1
  /\ GoesOn(e, 0)
  /\ UNCHANGED <<poll, engine, host, requests>>

\* Mutant: one more miss is tolerated.
LastMissLate(e) == watch[e].missed + 1 > Misses

LastMiss(e) == watch[e].missed + 1 >= Misses

WatchMissed(e) ==
  /\ watch[e].at = "asking" /\ ~watch[e].answer /\ ~LastMiss(e)
  /\ GoesOn(e, watch[e].missed + 1)
  /\ UNCHANGED <<manager, poll, engine, host, requests, tries>>

\* Mutant: the process is forgotten before it is killed.
WatchGivesUpForgets(e) ==
  /\ watch[e].at = "asking" /\ ~watch[e].answer /\ LastMiss(e)
  /\ manager' = Recover(manager)
  /\ watch' = [watch EXCEPT ![e] = NoWatch]
  /\ UNCHANGED <<poll, engine, host, requests, tries>>

\* The present process is killed and replaced, without another look at the epoch.
WatchGivesUp(e) ==
  /\ watch[e].at = "asking" /\ ~watch[e].answer /\ LastMiss(e)
  /\ engine' = Killed(manager.process)
  /\ manager' = Recover(manager)
  /\ watch' = [watch EXCEPT ![e] = NoWatch]
  /\ UNCHANGED <<poll, host, requests, tries>>

\* The wrapper's exit reaches the registry, which closes its open entry, and then
\* the manager: its kill of the group finds the entry closed and does nothing.
\* Only the present process may change the manager.
ExitSeen(e) ==
  /\ host = "running" /\ engine[e].event = "exit"
  /\ engine' = [engine EXCEPT ![e] =
       [group |-> @.group, entry |-> IF @.entry = "open" THEN "closed" ELSE @.entry,
        event |-> "none"]]
  /\ LET m == [manager EXCEPT !.exited = TRUE]
     IN manager' = CASE manager.process # e         -> manager
                     [] manager.process = e /\ manager.phase = "ready" -> Recover(m)
                     [] manager.process = e /\ manager.phase = "starting" ->
                          [m EXCEPT !.phase = "failed"]
                     [] OTHER                       -> m
  /\ UNCHANGED <<poll, watch, host, requests, tries>>

\* The process could not be spawned.
ErrorSeen(e) ==
  /\ host = "running" /\ engine[e].event = "error"
  /\ engine' = [engine EXCEPT ![e].event = "none"]
  /\ manager' =
       IF manager.process # e THEN manager
       ELSE [manager EXCEPT !.exited = TRUE,
               !.phase = IF @ \in {"starting", "ready"} THEN "failed" ELSE @]
  /\ UNCHANGED <<poll, watch, host, requests, tries>>

ManagerStep ==
  \/ BackoffEnds
  \/ \E e \in Engines :
       \/ PollAnswered(e) \/ PollUnanswered(e) \/ PollWakes(e)
       \/ WatchWakes(e) \/ WatchAnswered(e) \/ WatchMissed(e) \/ WatchGivesUp(e)
       \/ ExitSeen(e) \/ ErrorSeen(e)

-----------------------------------------------------------------------------
(* The engines.                                                            *)

HasWrapper(e) == engine[e].group \in {"silent", "serving"}

Becomes(e, group, event) ==
  /\ engine' = [engine EXCEPT ![e] =
       [group |-> group, entry |-> IF group = "gone" THEN "none" ELSE @.entry,
        event |-> event]]
  /\ UNCHANGED <<manager, poll, watch, host, requests, tries>>

\* The server binds the port, or answers again, if no other one holds the port.
Bind(e) ==
  /\ engine[e].group = "silent" /\ \A f \in Engines : ~Serves(f)
  /\ Becomes(e, "serving", engine[e].event)

\* The server ends or stops answering and its wrapper lives on.
LoseServer(e) == engine[e].group = "serving" /\ Becomes(e, "silent", engine[e].event)

LoseWrapper(e) == engine[e].group = "serving" /\ Becomes(e, "orphan", "exit")

\* The whole group ends.
End(e) ==
  /\ engine[e].group # "gone"
  /\ Becomes(e, "gone", IF HasWrapper(e) THEN "exit" ELSE engine[e].event)

EngineStep == \E e \in Engines : Bind(e) \/ LoseServer(e) \/ LoseWrapper(e) \/ End(e)

Next == Launch \/ Restart \/ Quit \/ ManagerStep \/ EngineStep

Spec == Init /\ [][Next]_vars

\* Timers fire, checks are answered or fail, events are delivered, and a killed
\* group ends.  Nothing is asked of an engine that was not killed.
Fairness ==
  /\ WF_vars(BackoffEnds)
  /\ \A e \in Engines :
       /\ WF_vars(PollAnswered(e) \/ PollUnanswered(e) \/ PollWakes(e))
       /\ WF_vars(WatchWakes(e) \/ WatchAnswered(e) \/ WatchMissed(e) \/ WatchGivesUp(e))
       /\ WF_vars(ExitSeen(e) \/ ErrorSeen(e))
       /\ WF_vars(End(e) /\ engine[e].entry = "killed")

FairSpec == Spec /\ Fairness

-----------------------------------------------------------------------------
(* Properties.                                                             *)

\* An engine that is neither gone nor told to go is the manager's present process,
\* or a server whose wrapper's exit the host has seen: whatever the order of stale
\* polls, delays, stops and exits, and when the host quits, no other one is left.
OnlyOrphansEscape ==
  \A e \in Engines : engine[e].group # "gone" =>
    \/ manager.process = e
    \/ engine[e].entry = "killed"
    \/ engine[e].group = "orphan" /\ engine[e].entry = "closed"

\* What manager.ts says of the kill in its exit listener: a server that outlived its
\* wrapper is reaped with the group before a replacement is started.  The code does
\* not do it, see the README.
RestartsReap ==
  manager.phase = "starting" /\ manager.process = NoEngine =>
    \A e \in Engines : engine[e].group # "gone" => engine[e].entry = "killed"

\* An engine that keeps dying is started a bounded number of times: only a stop
\* or an answered liveness check gives the manager new restarts.
CrashLoopEnds == tries <= MaxRestarts + 1

\* What is reported as starting or ready is never left to itself, whichever handler
\* ran last: a start waits for its delay, or the poll of the present process will
\* look again and see no exit; a ready manager has the liveness loop of its epoch.
Attended ==
  /\ manager.phase = "starting" =>
       IF manager.process = NoEngine THEN manager.backoffs > 0
       ELSE ~manager.exited /\ poll[manager.process].at # "off"
  /\ manager.phase = "ready" =>
       manager.epoch # NoEngine /\ watch[manager.epoch].at # "off"

\* Starting ends, in ready or in failed, whatever the engine does.
StartingEnds == manager.phase = "starting" ~> manager.phase # "starting"

\* The manager does not go on reporting ready while nothing answers.
SilenceNoticed ==
  manager.phase = "ready" /\ (\A e \in Engines : ~Serves(e))
    ~> manager.phase # "ready" \/ \E e \in Engines : Serves(e)
=============================================================================
