--------------------------- MODULE RenderContract ---------------------------
(***************************************************************************)
(* What the render queue promises whoever asks for exports of one project, *)
(* with no threads, no pending queue and no requests under way: renders    *)
(* run one at a time and end once, and only when nothing writes for them   *)
(* any more; "completed" is over the render's own whole file; a render is  *)
(* "cancelled" only if that was asked.  When the engine dies the renders   *)
(* are forgotten, but what was writing may write on.  RenderQueue and its  *)
(* clients are proved to implement it.                                     *)
(***************************************************************************)
CONSTANTS Tasks, NoTask

VARIABLES
  stage,     \* "none", "queued", "running", or how the render ended
  asked,     \* running renders that were asked to stop
  writing,   \* renders with a process that may still write the destination
  content,   \* the destination: what it holds and who wrote it
  up         \* the engine is alive

vars == <<stage, asked, writing, content, up>>

Nothing    == [by |-> NoTask, holds |-> "nothing"]
Partial(t) == [by |-> t, holds |-> "partial"]
Whole(t)   == [by |-> t, holds |-> "whole"]

Init ==
  /\ stage = [t \in Tasks |-> "none"]
  /\ asked = {} /\ writing = {}
  /\ content \in {Nothing, Whole(NoTask)}
  /\ up = TRUE

Accept(t) ==
  /\ up /\ stage[t] = "none"
  /\ stage' = [stage EXCEPT ![t] = "queued"]
  /\ UNCHANGED <<asked, writing, content, up>>

\* A render that has not begun never does once it is withdrawn.
Withdraw(t) ==
  /\ up /\ stage[t] = "queued"
  /\ stage' = [stage EXCEPT ![t] = "cancelled"]
  /\ UNCHANGED <<asked, writing, content, up>>

Ask(t) ==
  /\ up /\ stage[t] = "running"
  /\ asked' = asked \cup {t}
  /\ UNCHANGED <<stage, writing, content, up>>

\* The destination is free, and no other render runs; a process may not come up.
Begin(t) ==
  /\ up /\ stage[t] = "queued"
  /\ writing = {} /\ \A u \in Tasks : stage[u] # "running"
  /\ stage' = [stage EXCEPT ![t] = "running"]
  /\ writing' \in {{}, {t}}
  /\ UNCHANGED <<asked, content, up>>

Write(t) ==
  /\ t \in writing
  /\ content' = Partial(t)
  /\ UNCHANGED <<stage, asked, writing, up>>

\* The last write completes the file of the render that opened it.
Commit(t) ==
  /\ t \in writing /\ content.by = t
  /\ writing' = writing \ {t}
  /\ content' = Whole(t)
  /\ UNCHANGED <<stage, asked, up>>

\* A process fails, dies or is stopped; only one that fails may clean up.
Quit(t) ==
  /\ t \in writing
  /\ writing' = writing \ {t}
  /\ content' \in {content, Nothing}
  /\ UNCHANGED <<stage, asked, up>>

\* The destination is cleared for the sake of the render that runs.
Clear(t) ==
  /\ up /\ stage[t] = "running"
  /\ content' = Nothing
  /\ UNCHANGED <<stage, asked, writing, up>>

End(t) ==
  /\ up /\ stage[t] = "running" /\ t \notin writing
  /\ \E ending \in {"completed", "failed", "cancelled"} :
       /\ ending = "completed" => content = Whole(t)
       /\ ending = "cancelled" => t \in asked
       /\ stage' = [stage EXCEPT ![t] = ending]
  /\ asked' = asked \ {t}
  /\ UNCHANGED <<writing, content, up>>

Crash ==
  /\ up
  /\ up' = FALSE
  /\ stage' = [t \in Tasks |-> "none"]
  /\ asked' = {}
  /\ UNCHANGED <<writing, content>>

Next ==
  \/ \E t \in Tasks :
       \/ Accept(t) \/ Withdraw(t) \/ Ask(t) \/ Begin(t) \/ Write(t)
       \/ Commit(t) \/ Quit(t) \/ Clear(t) \/ End(t)
  \/ Crash

Spec == Init /\ [][Next]_vars
=============================================================================
