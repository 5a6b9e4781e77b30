------------------------- MODULE MCProjectAuthority -------------------------
(* Small instances of ProjectAuthority for TLC.                            *)
EXTENDS ProjectAuthority

CONSTANTS u1, r1, a1, a2

NoEdits == {}
OneUserEdit == {u1}
OneRunEdit == {r1}
OneAgentEdit == {a1}
TwoAgentEdits == {a1, a2}
NoReaders == {}
OneReader == {"handler"}
NoFailures == {}
AnyFailure == {"write", "records"}

OnTheirWay == Len(answer) + Len(inbox)
ReadsDone == \A reader \in Readers : reading[reader] = None
UserOnly == run = None /\ asked.run = None /\ made \cap RunEdits = {} /\ ReadsDone

\* The agent's calls do not overlap, nothing overtakes its read, and no message to
\* the window is on its way during the read or after a publish that is not recorded.
CallsApart ==
  \/ agent.saves = <<>> /\ agent.reading = <<>>
  \/ agent.saves = <<>> /\ agent.reading = <<file>> /\ OnTheirWay = 0
  \/ /\ agent.reading = <<>> /\ Len(agent.saves) = 1 /\ Head(agent.saves).current
     /\ AgentWriting("writing") \/ OnTheirWay = 0

\* The three cases of the run.  An AI run edits, and another handler reads the file,
\* though not in the middle of the watcher's read or of a call of the agent.  Or the
\* user edits.  In both at most two messages are on their way to the window, and
\* the agent's edit is a1.  Or the user edits by patches alone, to revision 2, and the
\* agent's calls overlap once it has made its edit, which is then a2: calls under way
\* and messages on their way are two together, and the watcher reads between calls.
OneDesktopWriter ==
  \/ /\ made \cap (UserEdits \cup {a2}) = {}
     /\ OnTheirWay <= 2 /\ CallsApart
     /\ ReadsDone \/ (watcher.flush = None /\ agent.reading = <<>> /\ agent.saves = <<>>)
  \/ /\ UserOnly /\ a2 \notin made
     /\ OnTheirWay <= 2 /\ CallsApart
  \/ /\ UserOnly /\ a1 \notin made /\ a2 \in made
     /\ OnTheirWay + Len(agent.reading) + Len(agent.saves) <= 2
     /\ service.revision <= 2
     /\ watcher.flush = None \/ (agent.reading = <<>> /\ agent.saves = <<>>)
     /\ ~renderer.owed /\ renderer.saving = 0
=============================================================================
