------------------------------ MODULE Exports -------------------------------
(***************************************************************************)
(* The exports of the desktop host over the engine's render queue.  The    *)
(* hub runs one client per export: it submits the render, polls its status *)
(* and, when the user or the window's end aborts it or when it loses track *)
(* of the render, asks the engine to cancel.  Requests may be lost, or     *)
(* reach the engine after the client has stopped waiting for the answer.   *)
(***************************************************************************)
EXTENDS RenderQueue

CONSTANT MaxStrikes   \* status checks that fail in a row before the client gives up

ASSUME StrikesAssumption == MaxStrikes \in Nat \ {0}

VARIABLES
  client,   \* client[t]: the client of the export whose render is t
  net       \* requests on their way to the engine

vars == <<queueVars, client, net>>

\* Waiting for the submit's answer, polling, waiting for the cancel's answer, or
\* answered and removed from the hub.
Phases == {"new", "submit", "watch", "cancel", "over"}
Client ==
  [phase   : Phases,
   strikes : 0 .. MaxStrikes - 1,
   aborted : BOOLEAN,
   id      : BOOLEAN,     \* it learnt the render's id
   lost    : BOOLEAN]     \* its cancel request never reached the queue

NewClient == [phase |-> "new", strikes |-> 0, aborted |-> FALSE, id |-> FALSE, lost |-> FALSE]

Requests == {"submit", "cancel"} \X Tasks

TypeOK ==
  /\ QueueTypeOK
  /\ client \in [Tasks -> Client]
  /\ net \subseteq Requests

Init ==
  /\ QueueInit
  /\ client = [t \in Tasks |-> NewClient]
  /\ net = {}

Goes(t, phase) == client' = [client EXCEPT ![t].phase = phase]

\* The export is answered and the hub forgets it.
Over(t) ==
  client' = [client EXCEPT ![t].phase = "over", ![t].strikes = 0, ![t].aborted = FALSE]

-----------------------------------------------------------------------------
(* The client.                                                             *)

StartExport(t) ==
  /\ client[t].phase = "new"
  /\ Goes(t, "submit")
  /\ net' = net \cup {<<"submit", t>>}
  /\ UNCHANGED queueVars

\* The user stops the export, its window is destroyed, or the app quits.
Abort(t) ==
  /\ client[t].phase = "watch" /\ ~client[t].aborted
  /\ client' = [client EXCEPT ![t].aborted = TRUE]
  /\ UNCHANGED <<queueVars, net>>

Accepted(t) ==
  /\ client[t].phase = "submit"
  /\ task[t].status # "none" /\ t \notin adding
  /\ client' = [client EXCEPT ![t].phase = "watch", ![t].id = TRUE]
  /\ UNCHANGED <<queueVars, net>>

\* The submit is refused, aborted or past its deadline; the request may still be
\* on its way.
SubmitFails(t) ==
  /\ client[t].phase = "submit"
  /\ Over(t)
  /\ UNCHANGED <<queueVars, net>>

\* A status check finds the render ended.  It changes nothing, and an ending
\* stands, so an answer that arrives late is as good as one read at once.
SeesEnd(t) ==
  /\ client[t].phase = "watch" /\ Ended(t)
  /\ Over(t)
  /\ UNCHANGED <<queueVars, net>>

SeesOpen(t) ==
  /\ client[t].phase = "watch" /\ Open(t)
  /\ client' = [client EXCEPT ![t].strikes = 0]
  /\ UNCHANGED <<queueVars, net>>

AskCancel(t) ==
  /\ client' = [client EXCEPT ![t].phase = "cancel", ![t].strikes = 0, ![t].aborted = FALSE]
  /\ net' = net \cup {<<"cancel", t>>}

\* Mutant: off by one, the limit itself is still tolerated.
StruckPastLimit(t) == client[t].strikes + 1 > MaxStrikes

Struck(t) == client[t].strikes + 1 = MaxStrikes

\* Mutant: a client that lost track of its render just stops watching it.
GivesUpSilently(t) ==
  /\ client[t].phase = "watch" /\ ~client[t].aborted /\ Struck(t)
  /\ Over(t)
  /\ UNCHANGED <<queueVars, net>>

\* Losing track of a render cancels it rather than leaving it running.
GivesUp(t) ==
  /\ client[t].phase = "watch" /\ ~client[t].aborted /\ Struck(t)
  /\ AskCancel(t)
  /\ UNCHANGED queueVars

\* Mutant: a failed status check is tried again for as long as it takes.
StatusFailsUncounted(t) ==
  /\ client[t].phase = "watch" /\ ~client[t].aborted /\ ~Struck(t)
  /\ UNCHANGED <<queueVars, client, net>>

\* A check the client's own abort cut short is no strike.
StatusFails(t) ==
  /\ client[t].phase = "watch" /\ ~client[t].aborted /\ ~Struck(t)
  /\ client' = [client EXCEPT ![t].strikes = @ + 1]
  /\ UNCHANGED <<queueVars, net>>

StopsWatching(t) ==
  /\ client[t].phase = "watch" /\ client[t].aborted
  /\ AskCancel(t)
  /\ UNCHANGED queueVars

\* The cancel is answered, refused or past its deadline; a confirming status
\* check of an aborted export decides only what its user is told.
CancelReturns(t) ==
  /\ client[t].phase = "cancel"
  /\ Over(t)
  /\ UNCHANGED <<queueVars, net>>

Poll(t) == SeesEnd(t) \/ SeesOpen(t) \/ StatusFails(t) \/ GivesUp(t) \/ StopsWatching(t)

-----------------------------------------------------------------------------
(* Requests on their way.                                                  *)

SubmitArrives(t) ==
  /\ <<"submit", t>> \in net
  /\ Submit(t)
  /\ net' = net \ {<<"submit", t>>}
  /\ UNCHANGED client

CancelArrives(t) ==
  /\ <<"cancel", t>> \in net
  /\ Cancel(t)
  /\ net' = net \ {<<"cancel", t>>}
  /\ UNCHANGED client

Lose(m) ==
  /\ m \in net
  /\ net' = net \ {m}
  /\ client' = IF m[1] = "cancel" THEN [client EXCEPT ![m[2]].lost = TRUE] ELSE client
  /\ UNCHANGED queueVars

Next ==
  \/ QueueInternal /\ UNCHANGED <<client, net>>
  \/ \E t \in Tasks :
       \/ StartExport(t) \/ Abort(t) \/ Accepted(t) \/ SubmitFails(t) \/ Poll(t)
       \/ CancelReturns(t) \/ SubmitArrives(t) \/ CancelArrives(t)
  \/ \E m \in net : Lose(m)

Spec == Init /\ [][Next]_vars

\* The engine's threads run, and the client's waits end: each request has a
\* deadline, and a client goes on polling.  A check that finds the render still
\* open changes nothing, so nothing is asked of those; in particular fairness
\* never makes a check fail while the render is open and the engine answers.
Fairness ==
  /\ QueueFairness
  /\ \A t \in Tasks :
       /\ WF_vars(Accepted(t) \/ SubmitFails(t))
       /\ WF_vars(Poll(t) /\ (client[t].aborted \/ ~Open(t)))
       /\ WF_vars(CancelReturns(t))

FairSpec == Spec /\ Fairness

-----------------------------------------------------------------------------
(* Properties.                                                             *)

\* A render whose client is gone is not left running by it: it has ended, or it
\* knows that it is cancelled, unless the cancel was lost on the way or the
\* engine died.
NoneLeftRunning ==
  \A t \in Tasks :
    up /\ client[t].phase = "over" /\ client[t].id =>
      Ended(t) \/ task[t].cancel = "set" \/ client[t].lost \/ <<"cancel", t>> \in net

\* Every export is answered: whether the render ends, hangs or is lost, and
\* whether or not the engine can be reached.
ExportsAnswered == \A t \in Tasks : client[t].phase # "new" ~> client[t].phase = "over"
=============================================================================
