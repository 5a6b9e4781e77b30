------------------------ MODULE SidecarManagerProofs ------------------------
(***************************************************************************)
(* Proofs about SidecarManager for every number of engines, restarts,      *)
(* checks and requests: its types, that the only engines it leaves behind  *)
(* are servers whose wrapper was seen to end, that a crash loop ends, and  *)
(* that no start and no ready engine is left alone.                        *)
(***************************************************************************)
EXTENDS SidecarManager, TLAPS

\* Before the launch the manager has no process.
NothingBeforeLaunch == host = "launching" => manager.process = NoEngine

\* A restart that waits for its delay is counted before it is tried.
Pending == manager.phase = "starting" /\ manager.process = NoEngine
TriesCounted == tries + (IF Pending THEN 1 ELSE 0) <= manager.restarts + 1

\* A living group has an entry, and a wrapper whose exit is seen or on its way has
\* left at most its server.
Sound(g) ==
  /\ g.group # "gone" => g.entry # "none"
  /\ g.entry = "closed" \/ g.event = "exit" => g.group \in {"orphan", "gone"}

\* A group that need not be the manager's process.
Left(g) ==
  \/ g.group = "gone"
  \/ g.entry = "killed"
  \/ g.group = "orphan" /\ g.entry = "closed"

Covered ==
  \A e \in Engines : Sound(engine[e]) /\ (manager.process = e \/ Left(engine[e]))

IInv == TypeOK /\ NothingBeforeLaunch /\ Covered /\ TriesCounted

-----------------------------------------------------------------------------
(* Types.                                                                  *)

Poll == [at : Places, left : 0 .. Attempts - 1, answer : BOOLEAN]
Watch == [at : Places, missed : 0 .. Misses - 1, answer : BOOLEAN]
Group == [group : Groups, entry : Entries, event : {"none", "exit", "error"}]

\* The constants, one by one.
LEMMA Bounds ==
  /\ Attempts \in Nat /\ Attempts > 0
  /\ Misses \in Nat /\ Misses > 0
  /\ MaxBackoffs \in Nat /\ MaxBackoffs > 0
  /\ MaxRestarts \in Nat /\ MaxRequests \in Nat
  /\ NoEngine \notin Engines
BY SidecarAssumption

\* Killing a process, or none, leaves the groups well typed.
LEMMA KilledType ==
  ASSUME TypeOK, NEW e \in Engines \cup {NoEngine}
  PROVE  Killed(e) \in [Engines -> Group]
BY DEF Killed, Terminated, Entries, TypeOK, Group

\* A recovery leaves the manager's fields well typed.
LEMMA RecoverType ==
  ASSUME NEW m \in Manager
  PROVE  Recover(m) \in Manager
<1>1. m.restarts < MaxRestarts => m.restarts + 1 \in 0 .. MaxRestarts
  BY Bounds DEF Manager
<1>2. m.backoffs < MaxBackoffs => m.backoffs + 1 \in 0 .. MaxBackoffs
  BY Bounds DEF Manager
<1>3. CASE m.restarts >= MaxRestarts
  BY <1>3 DEF Recover, Manager, Phases
<1>4. CASE ~(m.restarts >= MaxRestarts)
  <2>1. m.restarts + 1 \in 0 .. MaxRestarts
    BY <1>1, <1>4, Bounds DEF Manager
  <2>2. (IF m.backoffs < MaxBackoffs THEN m.backoffs + 1 ELSE m.backoffs) \in 0 .. MaxBackoffs
    BY <1>2 DEF Manager
  <2> QED BY <1>4, <2>1, <2>2 DEF Recover, Manager, Phases
<1> QED BY <1>3, <1>4

\* A start leaves manager, polls, loops and groups well typed.
LEMMA StartType ==
  ASSUME TypeOK, NEW m \in Manager, NEW groups \in [Engines -> Group], Start(m, groups)
  PROVE  /\ manager' \in Manager
         /\ poll' \in [Engines -> Poll]
         /\ watch' = watch
         /\ engine' \in [Engines -> Group]
<1>1. PICK e \in Engines : \E answer \in Answers : \E born \in {"silent", "gone"} :
        Begins(m, groups, e, answer, born)
  BY DEF Start
<1>1a. PICK answer \in Answers : \E born \in {"silent", "gone"} :
        Begins(m, groups, e, answer, born)
  BY <1>1
<1>1b. PICK born \in {"silent", "gone"} : Begins(m, groups, e, answer, born)
  BY <1>1a
<1>2. answer \in BOOLEAN
  BY DEF Answers
<1>3. engine' \in [Engines -> Group]
  BY <1>1b DEF Begins, NoGroup, Group, Groups, Entries
<1>4. manager' \in Manager
  BY <1>1b DEF Begins, Manager, Phases
<1>5. Attempts - 1 \in 0 .. Attempts - 1
  BY Bounds
<1>6. poll' \in [Engines -> Poll]
  BY <1>1b, <1>2, <1>5 DEF Begins, TypeOK, Poll, Places
<1> QED BY <1>1b, <1>3, <1>4, <1>6 DEF Begins

\* The manager as stop() leaves it is well typed.
LEMMA StoppedType ==
  ASSUME TypeOK
  PROVE  StoppedManager \in Manager /\ [StoppedManager EXCEPT !.backoffs = 0] \in Manager
<1>1. 0 \in 0 .. MaxRestarts /\ 0 \in 0 .. MaxBackoffs
  BY Bounds
<1>2. manager \in Manager
  BY DEF TypeOK
<1>3. StoppedManager \in Manager
  BY <1>1, <1>2 DEF StoppedManager, Manager, Phases
<1> QED BY <1>1, <1>3 DEF Manager

\* Every step of the manager's loops and handlers keeps the types.
LEMMA ManagerType ==
  ASSUME TypeOK, ManagerStep
  PROVE  TypeOK'
<1> USE DEF TypeOK
<1> DEFINE Same == UNCHANGED <<host, requests>>
<1>1. CASE BackoffEnds
  <2> DEFINE m == [manager EXCEPT !.backoffs = @ - 1]
  <2>1. m \in Manager
    <3>1. manager.backoffs \in 0 .. MaxBackoffs /\ manager.backoffs > 0
      BY <1>1 DEF BackoffEnds, Manager
    <3>2. manager.backoffs - 1 \in 0 .. MaxBackoffs
      BY <3>1, Bounds
    <3> QED BY <3>2 DEF Manager
  <2>2. CASE manager.phase = "starting" /\ manager.process = NoEngine
    <3>1. Start(m, engine) /\ tries' = tries + 1 /\ UNCHANGED <<host, requests>>
      BY <1>1, <2>2 DEF BackoffEnds
    <3>2. /\ manager' \in Manager
          /\ poll' \in [Engines -> Poll]
          /\ watch' = watch
          /\ engine' \in [Engines -> Group]
      <4> HIDE DEF m
      <4> QED BY <2>1, <3>1, StartType DEF Group
    <3> QED BY <3>1, <3>2 DEF Poll, Group
  <2>3. CASE ~(manager.phase = "starting" /\ manager.process = NoEngine)
    BY <1>1, <2>1, <2>3 DEF BackoffEnds
  <2> QED BY <2>2, <2>3
<1>2. ASSUME NEW e \in Engines, PollAnswered(e) PROVE TypeOK'
  <2>1. [NoWatch EXCEPT !.at = "asleep"] \in Watch /\ NoPoll \in Poll
    <3>1. 0 \in 0 .. Misses - 1 /\ 0 \in 0 .. Attempts - 1
      BY Bounds
    <3> QED BY <3>1 DEF NoWatch, NoPoll, Watch, Poll, Places
  <2>2. manager' \in Manager
    BY <1>2 DEF PollAnswered, Manager, Phases
  <2> QED BY <1>2, <2>1, <2>2 DEF PollAnswered, Watch, Poll
<1>3. ASSUME NEW e \in Engines, PollUnanswered(e) PROVE TypeOK'
  BY <1>3 DEF PollUnanswered, Places
<1>4. ASSUME NEW e \in Engines, PollWakes(e) PROVE TypeOK'
  <2>1. NoPoll \in Poll
    BY Bounds DEF NoPoll, Poll, Places
  <2>2. CASE poll[e].left = 0
    <3>1. engine' = Killed(manager.process) /\ manager.process \in Engines \cup {NoEngine}
      BY <1>4, <2>2 DEF PollWakes, Manager
    <3>2. manager' \in Manager
      <4>1. manager' = [manager EXCEPT !.phase = "failed", !.process = NoEngine]
        BY <1>4, <2>2 DEF PollWakes
      <4> QED BY <4>1 DEF Manager, Phases
    <3> QED BY <1>4, <2>1, <2>2, <3>1, <3>2, KilledType DEF PollWakes, Poll, Group
  <2>3. CASE poll[e].left > 0 /\ manager.exited
    BY <1>4, <2>1, <2>3 DEF PollWakes, Poll
  <2>4. CASE poll[e].left # 0 /\ ~(poll[e].left > 0 /\ manager.exited)
    <3>0. ~(poll[e].left = 0)
      BY <2>4
    <3>1. PICK answer \in Answers :
            poll' = [poll EXCEPT ![e] = [at |-> "asking", left |-> poll[e].left - 1, answer |-> answer]]
      BY <1>4, <2>4, <3>0, SMTT(20) DEF PollWakes
    <3>2. answer \in BOOLEAN
      BY DEF Answers
    <3>2a. poll[e].left \in 0 .. Attempts - 1
      BY DEF TypeOK
    <3>2b. poll[e].left - 1 \in 0 .. Attempts - 1
      BY <2>4, <3>2a, Bounds
    <3>3. poll' \in [Engines -> Poll]
      BY <3>1, <3>2, <3>2b DEF Poll, Places
    <3> QED BY <1>4, <2>4, <3>3 DEF PollWakes, Poll
  <2>5. poll[e].left = 0 \/ poll[e].left > 0
    BY Bounds
  <2> QED BY <2>2, <2>3, <2>4, <2>5
<1>5. NoWatch \in Watch
  BY Bounds DEF NoWatch, Watch, Places
<1>6. ASSUME NEW e \in Engines, WatchWakes(e) PROVE TypeOK'
  <2>1. CASE Watches(e)
    <3>1. PICK answer \in Answers :
            watch' = [watch EXCEPT ![e] =
              [at |-> "asking", missed |-> watch[e].missed, answer |-> answer]]
      BY <1>6, <2>1 DEF WatchWakes
    <3>2. answer \in BOOLEAN
      BY DEF Answers
    <3>3. watch' \in [Engines -> Watch]
      BY <3>1, <3>2 DEF Watch, Places
    <3> QED BY <1>6, <3>3 DEF WatchWakes, Watch
  <2>2. CASE ~Watches(e)
    BY <1>5, <1>6, <2>2 DEF WatchWakes, Watch
  <2> QED BY <2>1, <2>2
<1>7. ASSUME NEW e \in Engines, NEW n \in 0 .. Misses - 1, GoesOn(e, n)
      PROVE  watch' \in [Engines -> Watch]
  BY <1>5, <1>7 DEF GoesOn, Watch, Places
<1>8. ASSUME NEW e \in Engines, WatchAnswered(e) PROVE TypeOK'
  <2>1. 0 \in 0 .. Misses - 1
    BY Bounds
  <2>2. watch' \in [Engines -> Watch]
    BY <1>7, <1>8, <2>1 DEF WatchAnswered
  <2>3. manager' \in Manager
    <3>1. 0 \in 0 .. MaxRestarts
      BY Bounds
    <3> QED BY <1>8, <3>1 DEF WatchAnswered, Manager
  <2> QED BY <1>8, <2>2, <2>3 DEF WatchAnswered, Watch
<1>9. ASSUME NEW e \in Engines, WatchMissed(e) PROVE TypeOK'
  <2>1. watch[e].missed + 1 \in 0 .. Misses - 1
    BY <1>9, Bounds DEF WatchMissed, LastMiss
  <2>2. watch' \in [Engines -> Watch]
    BY <1>7, <1>9, <2>1 DEF WatchMissed
  <2> QED BY <1>9, <2>2 DEF WatchMissed, Watch
<1>10. ASSUME NEW e \in Engines, WatchGivesUp(e) PROVE TypeOK'
  <2>1. engine' = Killed(manager.process) /\ manager.process \in Engines \cup {NoEngine}
    BY <1>10 DEF WatchGivesUp, Manager
  <2>2. manager' \in Manager
    BY <1>10, RecoverType DEF WatchGivesUp
  <2> QED BY <1>5, <1>10, <2>1, <2>2, KilledType DEF WatchGivesUp, Watch, Group
<1>11. ASSUME NEW e \in Engines, ExitSeen(e) PROVE TypeOK'
  <2> DEFINE m == [manager EXCEPT !.exited = TRUE]
  <2>1. m \in Manager /\ [m EXCEPT !.phase = "failed"] \in Manager
    BY DEF Manager, Phases
  <2>2. Recover(m) \in Manager
    BY <2>1, RecoverType
  <2>5. engine' \in [Engines -> Group]
    BY <1>11 DEF ExitSeen, Group, Entries
  <2>6. manager' \in {manager, Recover(m), [m EXCEPT !.phase = "failed"], m}
    BY <1>11 DEF ExitSeen
  <2>7. manager' \in Manager
    <3> HIDE DEF m
    <3> QED BY <2>1, <2>2, <2>6
  <2> QED BY <1>11, <2>5, <2>7 DEF ExitSeen, Group
<1>12. ASSUME NEW e \in Engines, ErrorSeen(e) PROVE TypeOK'
  BY <1>12 DEF ErrorSeen, Manager, Phases
<1> QED BY <1>1, <1>2, <1>3, <1>4, <1>6, <1>8, <1>9, <1>10, <1>11, <1>12 DEF ManagerStep

\* Every step of the engines keeps the types.
LEMMA EngineType ==
  ASSUME TypeOK, EngineStep
  PROVE  TypeOK'
<1>1. ASSUME NEW e \in Engines, NEW g \in Groups, NEW ev \in {"none", "exit", "error"},
             Becomes(e, g, ev)
      PROVE  TypeOK'
  BY <1>1 DEF Becomes, TypeOK, Entries
<1>2. PICK e \in Engines : Bind(e) \/ LoseServer(e) \/ LoseWrapper(e) \/ End(e)
  BY DEF EngineStep
<1>3. engine[e].event \in {"none", "exit", "error"}
  BY DEF TypeOK
<1>4. CASE Bind(e)
  BY <1>1, <1>3, <1>4 DEF Bind, Groups
<1>5. CASE LoseServer(e)
  BY <1>1, <1>3, <1>5 DEF LoseServer, Groups
<1>6. CASE LoseWrapper(e)
  BY <1>1, <1>6 DEF LoseWrapper, Groups
<1>7. CASE End(e)
  <2>1. (IF HasWrapper(e) THEN "exit" ELSE engine[e].event) \in {"none", "exit", "error"}
    BY <1>3
  <2>2. Becomes(e, "gone", IF HasWrapper(e) THEN "exit" ELSE engine[e].event)
    BY <1>7 DEF End
  <2> QED BY <1>1, <2>1, <2>2 DEF Groups
<1> QED BY <1>2, <1>4, <1>5, <1>6, <1>7

\* Every step keeps the types.
LEMMA TypeKept ==
  ASSUME TypeOK, [Next]_vars
  PROVE  TypeOK'
<1>1. engine \in [Engines -> Group] /\ manager \in Manager
  BY DEF TypeOK, Group
<1>2. CASE Launch
  <2>1. Start(manager, engine) /\ host' = "running" /\ tries' = 1 /\ UNCHANGED requests
    BY <1>2 DEF Launch
  <2>2. /\ manager' \in Manager /\ poll' \in [Engines -> Poll]
        /\ watch' = watch /\ engine' \in [Engines -> Group]
    BY <1>1, <2>1, StartType
  <2> QED BY <2>1, <2>2 DEF TypeOK, Poll, Group
<1>3. CASE Restart
  <2>1. /\ Start(StoppedManager, Killed(manager.process)) /\ UNCHANGED host
        /\ requests < MaxRequests /\ requests' = requests + 1 /\ tries' = 1
    BY <1>3 DEF Restart
  <2>2. Killed(manager.process) \in [Engines -> Group]
    BY <1>1, KilledType DEF Manager
  <2>3. /\ manager' \in Manager /\ poll' \in [Engines -> Poll]
        /\ watch' = watch /\ engine' \in [Engines -> Group]
    BY <2>1, <2>2, StoppedType, StartType
  <2>4. requests' \in 0 .. MaxRequests
    BY <2>1, Bounds DEF TypeOK
  <2> QED BY <2>1, <2>3, <2>4 DEF TypeOK, Poll, Group
<1>4. CASE Quit
  <2>1. engine' \in [Engines -> Group]
    BY <1>1, <1>4 DEF Quit, Terminated, Entries, Group
  <2>2. NoPoll \in Poll /\ NoWatch \in Watch
    <3>1. 0 \in 0 .. Misses - 1 /\ 0 \in 0 .. Attempts - 1
      BY Bounds
    <3> QED BY <3>1 DEF NoWatch, NoPoll, Watch, Poll, Places
  <2>3. manager' \in Manager
    BY <1>4, StoppedType DEF Quit
  <2> QED BY <1>4, <2>1, <2>2, <2>3 DEF Quit, TypeOK, Poll, Watch, Group
<1>5. CASE ManagerStep
  BY <1>5, ManagerType
<1>6. CASE EngineStep
  BY <1>6, EngineType
<1>7. CASE UNCHANGED vars
  BY <1>7 DEF vars, TypeOK
<1> QED BY <1>2, <1>3, <1>4, <1>5, <1>6, <1>7 DEF Next

-----------------------------------------------------------------------------
(* Only orphans are left behind, and tries are counted.                    *)

\* What a kill makes of an entry.
LEMMA TerminatedCovers ==
  ASSUME NEW g \in Group, Sound(g), NEW h \in Group, h.group = g.group,
         h.entry = Terminated(g.entry), h.event = g.event
  PROVE  Sound(h) /\ Left(h)
BY DEF Sound, Left, Terminated, Group, Entries

\* Killing the present process leaves none but the gone, the killed and the orphans.
LEMMA KilledCovers ==
  ASSUME TypeOK, Covered, NEW f \in Engines
  PROVE  Sound(Killed(manager.process)[f]) /\ Left(Killed(manager.process)[f])
<1>1. engine \in [Engines -> Group] /\ manager.process \in Engines \cup {NoEngine}
  BY DEF TypeOK, Group, Manager
<1>2. Sound(engine[f]) /\ (manager.process = f \/ Left(engine[f]))
  BY DEF Covered
<1>3. CASE manager.process = f
  <2>1. Killed(manager.process)[f] \in Group
    BY <1>1, KilledType
  <2>2. /\ Killed(manager.process)[f].group = engine[f].group
        /\ Killed(manager.process)[f].entry = Terminated(engine[f].entry)
        /\ Killed(manager.process)[f].event = engine[f].event
    BY <1>1, <1>3 DEF Killed, Group
  <2> QED BY <1>1, <1>2, <2>1, <2>2, TerminatedCovers
<1>4. CASE manager.process # f
  <2>1. Killed(manager.process)[f] = engine[f]
    BY <1>1, <1>4 DEF Killed
  <2> QED BY <1>2, <1>4, <2>1
<1> QED BY <1>3, <1>4

\* A start with no other group to answer for.
LEMMA StartCovers ==
  ASSUME TypeOK, NEW m \in Manager, NEW groups \in [Engines -> Group], Start(m, groups),
         \A f \in Engines : Sound(groups[f]) /\ Left(groups[f])
  PROVE  /\ Covered'
         /\ ~Pending'
         /\ manager'.restarts = m.restarts
<1>1. PICK e \in Engines : \E answer \in Answers : \E born \in {"silent", "gone"} :
        Begins(m, groups, e, answer, born)
  BY DEF Start
<1>2. PICK answer \in Answers : \E born \in {"silent", "gone"} :
        Begins(m, groups, e, answer, born)
  BY <1>1
<1>3. PICK born \in {"silent", "gone"} : Begins(m, groups, e, answer, born)
  BY <1>2
<1>4. manager' = [m EXCEPT !.phase = "starting", !.exited = FALSE, !.process = e]
  BY <1>3 DEF Begins
<1>5. manager'.process = e /\ manager'.restarts = m.restarts
  BY <1>4 DEF Manager
<1>6. \A f \in Engines : f # e => engine'[f] = groups[f]
  BY <1>3 DEF Begins
<1>7. Sound(engine'[e])
  BY <1>3 DEF Begins, NoGroup, Sound
<1>8. \A f \in Engines : Sound(engine'[f]) /\ (manager'.process = f \/ Left(engine'[f]))
  BY <1>5, <1>6, <1>7
<1>9. Covered'
  BY <1>8 DEF Covered, Sound, Left
<1> QED BY <1>5, <1>9, Bounds DEF Pending

\* A recovery counts the restart that it promises.
LEMMA RecoverCounts ==
  ASSUME NEW m \in Manager
  PROVE  /\ Recover(m).process = NoEngine
         /\ Recover(m).phase = "starting" => Recover(m).restarts = m.restarts + 1
         /\ Recover(m).phase # "starting" => Recover(m).restarts = m.restarts
BY DEF Recover, Manager

\* Every step keeps the invariant.
LEMMA Inductive ==
  ASSUME IInv, [Next]_vars
  PROVE  IInv'
<1>1. TypeOK /\ TypeOK' /\ Covered
  BY TypeKept DEF IInv
<1>2. manager \in Manager /\ engine \in [Engines -> Group] /\ tries \in Nat
  BY <1>1 DEF TypeOK, Group
<1>3. manager.restarts \in Nat /\ manager'.restarts \in Nat /\ tries' \in Nat
  BY <1>1, Bounds DEF TypeOK, Manager
<1>4. TriesCounted
  BY DEF IInv
<1>5. tries <= manager.restarts + 1
  BY <1>2, <1>3, <1>4 DEF TriesCounted
<1> SUFFICES NothingBeforeLaunch' /\ Covered' /\ TriesCounted'
  BY <1>1 DEF IInv
<1>5a. \A f \in Engines : Sound(Killed(manager.process)[f]) /\ Left(Killed(manager.process)[f])
  BY <1>1, KilledCovers
<1>6. ASSUME UNCHANGED <<engine, tries, host>>, manager'.process = manager.process,
             manager'.restarts = manager.restarts, Pending' => Pending
      PROVE  NothingBeforeLaunch' /\ Covered' /\ TriesCounted'
  BY <1>1, <1>2, <1>3, <1>4, <1>6 DEF IInv, NothingBeforeLaunch, Covered, TriesCounted
<1>7. CASE Launch
  <2>1. Start(manager, engine) /\ host' = "running" /\ tries' = 1 /\ manager.process = NoEngine
    BY <1>7 DEF Launch, IInv, NothingBeforeLaunch
  <2>2. \A f \in Engines : Sound(engine[f]) /\ Left(engine[f])
    BY <1>1, <2>1, Bounds DEF Covered
  <2>3. Covered' /\ ~Pending'
    BY <1>1, <1>2, <2>1, <2>2, StartCovers
  <2> QED BY <1>3, <2>1, <2>3 DEF NothingBeforeLaunch, TriesCounted
<1>8. CASE Restart
  <2>1. /\ Start(StoppedManager, Killed(manager.process)) /\ UNCHANGED host
        /\ host = "running" /\ tries' = 1
    BY <1>8 DEF Restart
  <2>2. Killed(manager.process) \in [Engines -> Group]
    BY <1>1, <1>2, KilledType DEF Manager
  <2>3. Covered' /\ ~Pending'
    BY <1>1, <2>1, <2>2, StartCovers, StoppedType, KilledCovers
  <2> QED BY <1>3, <2>1, <2>3 DEF NothingBeforeLaunch, TriesCounted
<1>9. CASE Quit
  <2>1. \A f \in Engines : engine'[f] = [engine[f] EXCEPT !.entry = Terminated(@)]
    BY <1>9 DEF Quit
  <2>2. host' = "quit" /\ tries' = 0 /\ manager'.phase = "stopped"
    BY <1>2, <1>9 DEF Quit, StoppedManager, Manager
  <2>3. ASSUME NEW f \in Engines PROVE (Sound(engine[f]) /\ Left(engine[f]))'
    <3>1. engine[f] \in Group /\ Sound(engine[f])
      BY <1>1, <1>2 DEF Covered
    <3>2. /\ engine'[f] \in Group /\ engine'[f].group = engine[f].group
          /\ engine'[f].entry = Terminated(engine[f].entry)
          /\ engine'[f].event = engine[f].event
      BY <2>1, <3>1 DEF Group, Terminated, Entries
    <3>3. Sound(engine'[f]) /\ Left(engine'[f])
      BY <3>1, <3>2, TerminatedCovers
    <3> QED BY <3>3 DEF Sound, Left
  <2>4. Covered'
    BY <2>3 DEF Covered
  <2> QED BY <1>3, <2>2, <2>4 DEF NothingBeforeLaunch, TriesCounted, Pending
<1>10. CASE ManagerStep
  <2>0. ASSUME manager'.process = NoEngine, UNCHANGED <<tries, host>>,
               \A f \in Engines : (Sound(engine[f]) /\ Left(engine[f]))',
               \/ manager'.phase = "starting" /\ manager'.restarts = manager.restarts + 1
               \/ manager'.phase # "starting" /\ manager'.restarts = manager.restarts
        PROVE  NothingBeforeLaunch' /\ Covered' /\ TriesCounted'
    BY <1>2, <1>3, <1>5, <2>0
       DEF NothingBeforeLaunch, Covered, TriesCounted, Pending
  <2>1. CASE BackoffEnds
    <3> DEFINE m == [manager EXCEPT !.backoffs = @ - 1]
    <3>1. m.process = manager.process /\ m.phase = manager.phase /\ m.restarts = manager.restarts
      BY <1>2 DEF Manager
    <3>2. CASE Pending
      <4>1. Start(m, engine) /\ tries' = tries + 1 /\ UNCHANGED <<host, requests>>
        BY <2>1, <3>2 DEF BackoffEnds, Pending
      <4>2. m \in Manager
        <5>1. manager.backoffs \in 0 .. MaxBackoffs /\ manager.backoffs > 0
          BY <1>2, <2>1 DEF BackoffEnds, Manager
        <5>2. manager.backoffs - 1 \in 0 .. MaxBackoffs
          BY <5>1, Bounds
        <5> QED BY <1>2, <5>2 DEF Manager
      <4>3. \A f \in Engines : Sound(engine[f]) /\ Left(engine[f])
        BY <1>1, <3>2, Bounds DEF Covered, Pending
      <4>4. Covered' /\ ~Pending' /\ manager'.restarts = m.restarts
        <5> HIDE DEF m
        <5> QED BY <1>1, <1>2, <4>1, <4>2, <4>3, StartCovers
      <4>5. manager'.process # NoEngine \/ manager'.phase # "starting"
        BY <4>4 DEF Pending
      <4>6. host # "launching"
        BY <2>1 DEF BackoffEnds
      <4> QED BY <1>2, <1>3, <1>4, <3>1, <3>2, <4>1, <4>4, <4>6
              DEF NothingBeforeLaunch, TriesCounted
    <3>3. CASE ~Pending
      <4>1. manager' = m /\ UNCHANGED <<engine, tries, host>>
        BY <2>1, <3>3 DEF BackoffEnds, Pending
      <4> QED BY <1>6, <3>1, <4>1 DEF Pending
    <3> QED BY <3>2, <3>3
  <2>2. ASSUME NEW e \in Engines, PollAnswered(e)
        PROVE  NothingBeforeLaunch' /\ Covered' /\ TriesCounted'
    <3>1. manager'.process = manager.process /\ manager'.phase = "ready"
          /\ manager'.restarts = manager.restarts
      BY <1>2, <2>2 DEF PollAnswered, Manager
    <3> QED BY <1>6, <2>2, <3>1 DEF PollAnswered, Pending
  <2>3. ASSUME NEW e \in Engines, PollUnanswered(e) \/ WatchWakes(e) \/ WatchMissed(e)
        PROVE  NothingBeforeLaunch' /\ Covered' /\ TriesCounted'
    <3>1. UNCHANGED <<manager, engine, tries, host>>
      BY <2>3 DEF PollUnanswered, WatchWakes, WatchMissed
    <3> QED BY <1>6, <3>1 DEF Pending
  <2>4. ASSUME NEW e \in Engines, PollWakes(e)
        PROVE  NothingBeforeLaunch' /\ Covered' /\ TriesCounted'
    <3>1. CASE poll[e].left = 0
      <4>1. engine' = Killed(manager.process) /\ UNCHANGED <<tries, host>>
        BY <2>4, <3>1 DEF PollWakes
      <4>2. manager' = [manager EXCEPT !.phase = "failed", !.process = NoEngine]
        BY <2>4, <3>1 DEF PollWakes
      <4>3. manager'.phase = "failed" /\ manager'.process = NoEngine
            /\ manager'.restarts = manager.restarts
        BY <1>2, <4>2 DEF Manager
      <4>4. \A f \in Engines : (Sound(engine[f]) /\ Left(engine[f]))'
        BY <1>5a, <4>1 DEF Sound, Left
      <4> QED BY <2>0, <4>1, <4>3, <4>4
    <3>2. CASE poll[e].left # 0
      <4>1. UNCHANGED <<manager, engine, tries, host>>
        BY <2>4, <3>2 DEF PollWakes
      <4> QED BY <1>6, <4>1 DEF Pending
    <3> QED BY <3>1, <3>2
  <2>5. ASSUME NEW e \in Engines, WatchAnswered(e)
        PROVE  NothingBeforeLaunch' /\ Covered' /\ TriesCounted'
    <3>1. /\ manager'.process = manager.process /\ manager'.phase = manager.phase
          /\ manager'.restarts = 0
      BY <1>2, <2>5 DEF WatchAnswered, Manager
    <3>2. UNCHANGED <<engine, host>> /\ tries' = IF manager.process = NoEngine THEN 0 ELSE 1
      BY <2>5 DEF WatchAnswered
    <3>3. NothingBeforeLaunch' /\ Covered'
      BY <1>1, <3>1, <3>2 DEF IInv, NothingBeforeLaunch, Covered
    <3>4. TriesCounted'
      BY <3>1, <3>2 DEF TriesCounted, Pending
    <3> QED BY <3>3, <3>4
  <2>6. ASSUME NEW e \in Engines, WatchGivesUp(e)
        PROVE  NothingBeforeLaunch' /\ Covered' /\ TriesCounted'
    <3>1. /\ engine' = Killed(manager.process) /\ manager' = Recover(manager)
          /\ UNCHANGED <<tries, host>>
      BY <2>6 DEF WatchGivesUp
    <3>2. \A f \in Engines : (Sound(engine[f]) /\ Left(engine[f]))'
      BY <1>5a, <3>1 DEF Sound, Left
    <3> QED BY <1>2, <2>0, <3>1, <3>2, RecoverCounts
  <2>7. ASSUME NEW e \in Engines, ExitSeen(e)
        PROVE  NothingBeforeLaunch' /\ Covered' /\ TriesCounted'
    <3> DEFINE m == [manager EXCEPT !.exited = TRUE]
               crashed == manager.process = e /\ manager.phase = "ready"
    <3>1. UNCHANGED <<tries, host>>
      BY <2>7 DEF ExitSeen
    <3>2. m \in Manager /\ m.process = manager.process /\ m.phase = manager.phase
          /\ m.restarts = manager.restarts
      BY <1>2 DEF Manager
    <3>3. ASSUME NEW f \in Engines
          PROVE  /\ Sound(engine[f])' /\ Left(engine[e])'
                 /\ f # e => engine'[f] = engine[f]
      <4>1. Sound(engine[f]) /\ Sound(engine[e])
        BY <1>1 DEF Covered
      <4>2. f # e => engine'[f] = engine[f]
        BY <1>2, <2>7 DEF ExitSeen
      <4>3. /\ engine'[e].group = engine[e].group
            /\ engine'[e].entry = (IF engine[e].entry = "open" THEN "closed" ELSE engine[e].entry)
            /\ engine'[e].event = "none" /\ engine[e].event = "exit"
        BY <1>2, <2>7 DEF ExitSeen
      <4>4. engine[e].entry \in Entries
        BY <1>2 DEF Group
      <4>5. engine[e].group \in {"orphan", "gone"}
        BY <4>1, <4>3 DEF Sound
      <4>6. Sound(engine'[e]) /\ Left(engine'[e])
        BY <4>1, <4>3, <4>4, <4>5 DEF Sound, Left, Entries
      <4> QED BY <4>1, <4>2, <4>6 DEF Sound, Left
    <3>4. CASE crashed
      <4>1. manager' = Recover(m)
        BY <2>7, <3>4 DEF ExitSeen
      <4>2. \A f \in Engines : (Sound(engine[f]) /\ Left(engine[f]))'
        <5>1. ASSUME NEW f \in Engines, f # e PROVE Left(engine[f])'
          <6>1. Left(engine[f]) /\ engine'[f] = engine[f]
            BY <1>1, <3>3, <3>4, <5>1 DEF Covered
          <6> QED BY <6>1 DEF Left
        <5> QED BY <3>3, <5>1
      <4>3. /\ manager'.process = NoEngine
            /\ \/ manager'.phase = "starting" /\ manager'.restarts = manager.restarts + 1
               \/ manager'.phase # "starting" /\ manager'.restarts = manager.restarts
        <5> HIDE DEF m
        <5> QED BY <3>2, <4>1, RecoverCounts
      <4> QED BY <2>0, <3>1, <4>2, <4>3
    <3>5. CASE ~crashed
      <4>1. manager' \in {manager, m, [m EXCEPT !.phase = "failed"]}
        BY <2>7, <3>5 DEF ExitSeen
      <4>2. manager'.process = manager.process /\ manager'.restarts = manager.restarts
            /\ (Pending' => Pending)
        BY <1>2, <4>1 DEF Manager, Pending
      <4>3. ASSUME NEW f \in Engines
            PROVE  (Sound(engine[f]) /\ (manager.process = f \/ Left(engine[f])))'
        <5>1. manager.process = f \/ Left(engine[f])
          BY <1>1 DEF Covered
        <5> QED BY <3>3, <4>2, <5>1 DEF Left
      <4>4. NothingBeforeLaunch' /\ Covered'
        BY <3>1, <4>2, <4>3 DEF IInv, NothingBeforeLaunch, Covered
      <4>5. TriesCounted'
        BY <1>2, <1>3, <1>4, <3>1, <4>2 DEF TriesCounted
      <4> QED BY <4>4, <4>5
    <3> QED BY <3>4, <3>5
  <2>8. ASSUME NEW e \in Engines, ErrorSeen(e)
        PROVE  NothingBeforeLaunch' /\ Covered' /\ TriesCounted'
    <3>1. engine' = [engine EXCEPT ![e].event = "none"] /\ UNCHANGED <<tries, host>>
      BY <2>8 DEF ErrorSeen
    <3>2. manager'.process = manager.process /\ manager'.restarts = manager.restarts
          /\ (Pending' => Pending)
      BY <1>2, <2>8 DEF ErrorSeen, Manager, Pending
    <3>3. \A f \in Engines : /\ engine'[f].group = engine[f].group
                            /\ engine'[f].entry = engine[f].entry
                            /\ engine'[f].event \in {engine[f].event, "none"}
      BY <1>2, <3>1 DEF Group
    <3>4. NothingBeforeLaunch' /\ Covered'
      BY <1>1, <3>1, <3>2, <3>3 DEF IInv, NothingBeforeLaunch, Covered, Sound, Left
    <3>5. TriesCounted'
      BY <1>2, <1>3, <1>4, <3>1, <3>2 DEF TriesCounted
    <3> QED BY <3>4, <3>5
  <2> QED BY <1>10, <2>1, <2>2, <2>3, <2>4, <2>5, <2>6, <2>7, <2>8 DEF ManagerStep
<1>11. CASE EngineStep
  <2>0. {"serving", "silent", "orphan", "gone"} \subseteq Groups
    BY DEF Groups
  <2>1. ASSUME NEW e \in Engines, NEW g \in Groups, NEW ev \in {"none", "exit", "error"},
               Becomes(e, g, ev), engine[e].group # "gone",
               engine[e].group = "orphan" => g \in {"orphan", "gone"},
               engine[e].event = "exit" \/ ev = "exit" => g \in {"orphan", "gone"}
        PROVE  Covered'
    <3>1. \A f \in Engines : f # e => engine'[f] = engine[f]
      BY <1>2, <2>1 DEF Becomes
    <3>2. /\ engine'[e].group = g
          /\ engine'[e].entry = (IF g = "gone" THEN "none" ELSE engine[e].entry)
          /\ engine'[e].event = ev
      BY <1>2, <2>1 DEF Becomes
    <3>3. Sound(engine[e]) /\ (manager.process = e \/ Left(engine[e]))
      BY <1>1 DEF Covered
    <3>4. Sound(engine'[e]) /\ (manager.process = e \/ Left(engine'[e]))
      BY <2>1, <3>2, <3>3 DEF Sound, Left
    <3>5. manager' = manager
      BY <2>1 DEF Becomes
    <3>6. \A f \in Engines : (Sound(engine[f]) /\ (manager.process = f \/ Left(engine[f])))'
      BY <1>1, <3>1, <3>4, <3>5 DEF Covered, Sound, Left
    <3> QED BY <3>6 DEF Covered
  <2>2. PICK e \in Engines : Bind(e) \/ LoseServer(e) \/ LoseWrapper(e) \/ End(e)
    BY <1>11 DEF EngineStep
  <2>3. engine[e].event \in {"none", "exit", "error"}
    BY <1>2 DEF Group
  <2>3a. engine[e].event = "exit" => engine[e].group \in {"orphan", "gone"}
    BY <1>1 DEF Covered, Sound
  <2>4. ASSUME Bind(e) PROVE Covered'
    <3>1. Becomes(e, "serving", engine[e].event) /\ engine[e].group = "silent"
      BY <2>4 DEF Bind
    <3> QED BY <2>0, <2>1, <2>3, <2>3a, <3>1
  <2>5. ASSUME LoseServer(e) PROVE Covered'
    <3>1. Becomes(e, "silent", engine[e].event) /\ engine[e].group = "serving"
      BY <2>5 DEF LoseServer
    <3> QED BY <2>0, <2>1, <2>3, <2>3a, <3>1
  <2>6. ASSUME LoseWrapper(e) PROVE Covered'
    <3>1. Becomes(e, "orphan", "exit") /\ engine[e].group = "serving"
      BY <2>6 DEF LoseWrapper
    <3> QED BY <2>0, <2>1, <3>1
  <2>7. ASSUME End(e) PROVE Covered'
    <3>1. (IF HasWrapper(e) THEN "exit" ELSE engine[e].event) \in {"none", "exit", "error"}
      BY <2>3
    <3>2. Becomes(e, "gone", IF HasWrapper(e) THEN "exit" ELSE engine[e].event)
      BY <2>7 DEF End
    <3>3. engine[e].group # "gone"
      BY <2>7 DEF End
    <3> QED BY <2>0, <2>1, <3>1, <3>2, <3>3
  <2>8. Covered'
    BY <2>2, <2>4, <2>5, <2>6, <2>7
  <2>9. UNCHANGED <<manager, tries, host>>
    BY <2>2 DEF Bind, LoseServer, LoseWrapper, End, Becomes
  <2> QED BY <1>4, <2>8, <2>9 DEF IInv, NothingBeforeLaunch, TriesCounted, Pending
<1>12. CASE UNCHANGED vars
  BY <1>6, <1>12 DEF vars, Pending
<1> QED BY <1>7, <1>8, <1>9, <1>10, <1>11, <1>12 DEF Next

\* The invariant holds initially.
LEMMA Initially == Init => IInv
<1> SUFFICES ASSUME Init PROVE IInv
  OBVIOUS
<1>1. NoPoll \in Poll /\ NoWatch \in Watch
  <2>1. 0 \in 0 .. Misses - 1 /\ 0 \in 0 .. Attempts - 1
    BY Bounds
  <2> QED BY <2>1 DEF NoWatch, NoPoll, Watch, Poll, Places
<1>2. manager \in Manager
  <2>1. 0 \in 0 .. MaxRestarts /\ 0 \in 0 .. MaxBackoffs
    BY Bounds
  <2> QED BY <2>1 DEF Init, Manager, Phases
<1>3. NoGroup \in Group
  BY DEF NoGroup, Group, Groups, Entries
<1>4. TypeOK
  <2>1. 0 \in 0 .. MaxRequests
    BY SidecarAssumption
  <2> QED BY <1>1, <1>2, <1>3, <2>1 DEF Init, TypeOK, Poll, Watch, Group
<1>5. NothingBeforeLaunch /\ Covered
  BY DEF Init, NoGroup, NothingBeforeLaunch, Covered, Sound, Left
<1>6. TriesCounted
  BY DEF Init, TriesCounted, Pending
<1> QED BY <1>4, <1>5, <1>6 DEF IInv

-----------------------------------------------------------------------------
(* What is starting or ready is attended to.                               *)

\* A start leaves a starting manager with a poll that has just asked.
LEMMA StartAttends ==
  ASSUME TypeOK, NEW m \in Manager, NEW groups, Start(m, groups)
  PROVE  Attended'
<1>1. PICK e \in Engines : \E answer \in Answers : \E born \in {"silent", "gone"} :
        Begins(m, groups, e, answer, born)
  BY DEF Start
<1>2. PICK answer \in Answers : \E born \in {"silent", "gone"} :
        Begins(m, groups, e, answer, born)
  BY <1>1
<1>3. PICK born \in {"silent", "gone"} : Begins(m, groups, e, answer, born)
  BY <1>2
<1>4. manager' = [m EXCEPT !.phase = "starting", !.exited = FALSE, !.process = e]
  BY <1>3 DEF Begins
<1>5. manager'.process = e /\ manager'.phase = "starting" /\ ~manager'.exited
  BY <1>4 DEF Manager
<1>6. poll'[e].at = "asking"
  BY <1>3 DEF Begins, TypeOK
<1> QED BY <1>5, <1>6, Bounds DEF Attended

\* A recovery waits for its delay, or has given up.
LEMMA RecoverAttends ==
  ASSUME NEW m \in Manager, manager' = Recover(m)
  PROVE  Attended'
<1>1. m.backoffs \in 0 .. MaxBackoffs
  BY DEF Manager
<1>2. (IF m.backoffs < MaxBackoffs THEN m.backoffs + 1 ELSE m.backoffs) > 0
  BY <1>1, Bounds
<1>3. CASE m.restarts >= MaxRestarts
  <2>1. manager'.phase = "failed"
    BY <1>3 DEF Recover, Manager
  <2> QED BY <2>1 DEF Attended
<1>4. CASE ~(m.restarts >= MaxRestarts)
  <2>1. /\ manager'.phase = "starting" /\ manager'.process = NoEngine
        /\ manager'.backoffs = IF m.backoffs < MaxBackoffs THEN m.backoffs + 1 ELSE m.backoffs
    BY <1>4 DEF Recover, Manager
  <2> QED BY <1>2, <2>1 DEF Attended
<1> QED BY <1>3, <1>4

\* What the host and its handlers do leaves no start and no ready engine alone.
LEMMA AttendedKept ==
  ASSUME TypeOK, Attended, [Next]_vars
  PROVE  Attended'
<1>1. manager \in Manager /\ poll \in [Engines -> Poll] /\ watch \in [Engines -> Watch]
  BY DEF TypeOK, Poll, Watch
<1>2. ASSUME UNCHANGED <<manager, poll, watch>> PROVE Attended'
  BY <1>2 DEF Attended
<1>3. ASSUME manager'.phase \in {"stopped", "failed"} PROVE Attended'
  BY <1>3 DEF Attended
<1>4. CASE Launch \/ Restart
  BY <1>1, <1>4, StartAttends, StoppedType DEF Launch, Restart
<1>5. CASE Quit
  <2>1. manager'.phase = "stopped"
    BY <1>1, <1>5 DEF Quit, StoppedManager, Manager
  <2> QED BY <1>3, <2>1
<1>6. CASE BackoffEnds
  <2> DEFINE m == [manager EXCEPT !.backoffs = @ - 1]
  <2>1. manager.backoffs \in 0 .. MaxBackoffs /\ manager.backoffs > 0
    BY <1>1, <1>6 DEF BackoffEnds, Manager
  <2>2. m \in Manager
    <3>1. manager.backoffs - 1 \in 0 .. MaxBackoffs
      BY <2>1, Bounds
    <3> QED BY <1>1, <3>1 DEF Manager
  <2>3. /\ m.phase = manager.phase /\ m.process = manager.process
        /\ m.exited = manager.exited /\ m.epoch = manager.epoch
    BY <1>1 DEF Manager
  <2>4. \/ Start(m, engine)
        \/ ~(manager.phase = "starting" /\ manager.process = NoEngine)
           /\ manager' = m /\ UNCHANGED <<poll, watch>>
    BY <1>6 DEF BackoffEnds
  <2> HIDE DEF m
  <2>5. CASE Start(m, engine)
    BY <2>2, <2>5, StartAttends
  <2>6. CASE ~Start(m, engine)
    BY <2>3, <2>4, <2>6 DEF Attended
  <2> QED BY <2>5, <2>6
<1>7. ASSUME NEW e \in Engines, PollAnswered(e) PROVE Attended'
  <2>1. manager'.phase = "ready" /\ manager'.epoch = e
    BY <1>1, <1>7 DEF PollAnswered, Manager
  <2>2. watch'[e].at = "asleep"
    BY <1>1, <1>7 DEF PollAnswered, NoWatch
  <2> QED BY <2>1, <2>2, Bounds DEF Attended
<1>8. ASSUME NEW e \in Engines, PollUnanswered(e) PROVE Attended'
  <2>1. UNCHANGED <<manager, watch>> /\ poll' = [poll EXCEPT ![e].at = "asleep"]
    BY <1>8 DEF PollUnanswered
  <2>2. \A f \in Engines : poll[f].at # "off" => poll'[f].at # "off"
    BY <1>1, <2>1 DEF Poll
  <2> QED BY <1>1, <2>1, <2>2 DEF Attended, Manager
<1>9. ASSUME NEW e \in Engines, PollWakes(e) PROVE Attended'
  <2>1. UNCHANGED watch
    BY <1>9 DEF PollWakes
  <2>2. CASE poll[e].left = 0
    <3>1. manager' = [manager EXCEPT !.phase = "failed", !.process = NoEngine]
      BY <1>9, <2>2 DEF PollWakes
    <3>2. manager'.phase = "failed"
      BY <1>1, <3>1 DEF Manager
    <3> QED BY <1>3, <3>2
  <2>3. CASE poll[e].left > 0 /\ manager.exited
    <3>1. poll' = [poll EXCEPT ![e] = NoPoll] /\ UNCHANGED manager
      BY <1>9, <2>3 DEF PollWakes
    <3> QED BY <1>1, <2>1, <2>3, <3>1 DEF Attended, Manager
  <2>4. CASE poll[e].left > 0 /\ ~manager.exited
    <3>1. UNCHANGED manager
      BY <1>9, <2>4 DEF PollWakes
    <3>2. \A f \in Engines : poll[f].at # "off" => poll'[f].at # "off"
      BY <1>1, <1>9, <2>4 DEF PollWakes
    <3> QED BY <1>1, <2>1, <3>1, <3>2 DEF Attended, Manager
  <2>5. poll[e].left \in 0 .. Attempts - 1
    BY <1>1 DEF Poll
  <2> QED BY <2>2, <2>3, <2>4, <2>5, Bounds
<1>10. ASSUME NEW e \in Engines, WatchWakes(e) \/ WatchAnswered(e) \/ WatchMissed(e)
       PROVE  Attended'
  <2>1. UNCHANGED poll
    BY <1>10 DEF WatchWakes, WatchAnswered, WatchMissed
  <2>2. /\ manager'.phase = manager.phase /\ manager'.process = manager.process
        /\ manager'.exited = manager.exited /\ manager'.epoch = manager.epoch
        /\ manager'.backoffs = manager.backoffs
    <3>1. manager' = manager \/ manager' = [manager EXCEPT !.restarts = 0]
      BY <1>10 DEF WatchWakes, WatchAnswered, WatchMissed
    <3> QED BY <1>1, <3>1 DEF Manager
  <2>3. Watches(e) => watch'[e].at # "off"
    BY <1>1, <1>10 DEF WatchWakes, WatchAnswered, WatchMissed, GoesOn
  <2>4. \A f \in Engines \ {e} : watch'[f] = watch[f]
    BY <1>1, <1>10 DEF WatchWakes, WatchAnswered, WatchMissed, GoesOn
  <2>5. manager.epoch \in Engines \cup {NoEngine}
    BY <1>1 DEF Manager
  <2> QED BY <2>1, <2>2, <2>3, <2>4, <2>5 DEF Attended, Watches
<1>11. ASSUME NEW e \in Engines, WatchGivesUp(e) PROVE Attended'
  BY <1>1, <1>11, RecoverAttends DEF WatchGivesUp
<1>12. ASSUME NEW e \in Engines, ExitSeen(e) PROVE Attended'
  <2> DEFINE m == [manager EXCEPT !.exited = TRUE]
  <2>1. m \in Manager /\ m.phase = manager.phase
    BY <1>1 DEF Manager
  <2>2. UNCHANGED <<poll, watch>>
    BY <1>12 DEF ExitSeen
  <2>3. CASE manager.process # e
    BY <1>2, <1>12, <2>2, <2>3 DEF ExitSeen
  <2>4. CASE manager.process = e /\ manager.phase = "ready"
    <3>1. manager' = Recover(m)
      BY <1>12, <2>4 DEF ExitSeen
    <3> HIDE DEF m
    <3> QED BY <2>1, <3>1, RecoverAttends
  <2>5. CASE manager.process = e /\ manager.phase # "ready"
    <3>1. manager' = IF manager.phase = "starting" THEN [m EXCEPT !.phase = "failed"] ELSE m
      BY <1>12, <2>5 DEF ExitSeen
    <3>2. manager'.phase \in {"stopped", "failed"}
      <4> HIDE DEF m
      <4> QED BY <2>1, <2>5, <3>1 DEF Manager, Phases
    <3> QED BY <1>3, <3>2
  <2> QED BY <2>3, <2>4, <2>5
<1>13. ASSUME NEW e \in Engines, ErrorSeen(e) PROVE Attended'
  <2>1. UNCHANGED <<poll, watch>>
    BY <1>13 DEF ErrorSeen
  <2>2. CASE manager.process # e
    BY <1>2, <1>13, <2>1, <2>2 DEF ErrorSeen
  <2>3. CASE manager.process = e
    <3>1. manager' = [manager EXCEPT !.exited = TRUE,
                        !.phase = IF @ \in {"starting", "ready"} THEN "failed" ELSE @]
      BY <1>13, <2>3 DEF ErrorSeen
    <3>2. manager'.phase \in {"stopped", "failed"}
      BY <1>1, <3>1 DEF Manager, Phases
    <3> QED BY <1>3, <3>2
  <2> QED BY <2>2, <2>3
<1>14. CASE EngineStep \/ UNCHANGED vars
  BY <1>2, <1>14 DEF EngineStep, Bind, LoseServer, LoseWrapper, End, Becomes, vars
<1> QED BY <1>4, <1>5, <1>6, <1>7, <1>8, <1>9, <1>10, <1>11, <1>12, <1>13, <1>14
        DEF Next, ManagerStep

-----------------------------------------------------------------------------
(* The theorems.                                                           *)

\* The inductive invariant holds of every reachable state.
THEOREM Invariance == Spec => []IInv
  BY Initially, Inductive, PTL DEF Spec

\* Every reachable state of the manager, its loops and its engines is well typed.
THEOREM TypeCorrect == Spec => []TypeOK
<1>1. IInv => TypeOK
  BY DEF IInv
<1> QED BY <1>1, Invariance, PTL

\* Whatever is awaited when the host stops, restarts or quits, and in whatever order
\* exits are seen, an engine that is alive and was not told to go is the manager's
\* process or a server whose wrapper was seen to end.
THEOREM OnlyOrphansAreLeft == Spec => []OnlyOrphansEscape
<1>1. IInv => OnlyOrphansEscape
  BY DEF IInv, Covered, Left, OnlyOrphansEscape
<1> QED BY <1>1, Invariance, PTL

\* Between two stops or answered liveness checks, at most MaxRestarts + 1 engines
\* are started.
THEOREM CrashLoopsEnd == Spec => []CrashLoopEnds
<1>1. IInv => CrashLoopEnds
  <2> SUFFICES ASSUME IInv PROVE CrashLoopEnds
    OBVIOUS
  <2>1. tries \in Nat /\ manager.restarts \in 0 .. MaxRestarts
    BY DEF IInv, TypeOK, Manager
  <2>2. tries <= manager.restarts + 1
    BY <2>1, Bounds DEF IInv, TriesCounted
  <2> QED BY <2>1, <2>2, Bounds DEF CrashLoopEnds
<1> QED BY <1>1, Invariance, PTL

\* What makes starting end and silence noticed: a start always has a delay or a poll
\* of the present process left to act, and a ready manager a liveness loop, however
\* stops, exits, errors and late answers follow one another.
THEOREM NothingUnattended == Spec => []Attended
<1>1. Init => Attended
  BY DEF Init, Attended
<1>2. TypeOK /\ Attended /\ [Next]_vars => Attended'
  BY AttendedKept
<1> QED BY <1>1, <1>2, TypeCorrect, PTL DEF Spec
=============================================================================
