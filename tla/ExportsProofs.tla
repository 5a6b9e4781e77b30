--------------------------- MODULE ExportsProofs ----------------------------
(* Theorems of Exports, for every set of renders and every limit: no task is *)
(* stranded, an ending stands and means that the process has stopped, one    *)
(* render writes the destination at a time, a completed one left it whole,   *)
(* and a render whose client is gone has ended or knows it is cancelled.     *)
EXTENDS Exports, TLAPS

(* The inductive invariant of the queue.                                     *)

Distinct(s) == \A i, j \in 1 .. Len(s) : s[i] = s[j] => i = j

\* Only a running task has a process, and only under the worker that waits for it.
InHand == {"executing", "discarding", "stopping", "finishing"}
WorkerHolds ==
  /\ worker.at = "idle" <=> worker.task = NoTask
  /\ worker.at \in InHand => task[worker.task].status = "running"
  /\ worker.at \in {"taken", "discarding"} => worker.ending # "completed"

ProcessHeld ==
  \A t \in Tasks : up /\ proc[t] \in Rendering => At(t, {"executing", "discarding", "stopping"})

\* A success that is posted or read is over a whole file, and nobody writes it now.
ResultWhole ==
  /\ worker.at \in {"stopping", "finishing"} /\ worker.ending = "completed" =>
       proc[worker.task] = "completed"
  /\ worker.at \in InHand \ {"discarding"} /\ proc[worker.task] = "completed"
     /\ (worker.at = "executing" \/ worker.ending = "completed") =>
       file = [by |-> worker.task, holds |-> "whole"]

\* A task the queue does not know has nothing in it, and a dead engine knows none.
Known ==
  /\ \A t \in Tasks : task[t].status = "none" => task[t] = NoEntry
  /\ ~up => /\ task = [t \in Tasks |-> NoEntry]
            /\ adding = {} /\ pending = <<>> /\ retryOrder = <<>> /\ worker = Idle

QInv ==
  /\ QueueTypeOK /\ NeverStranded
  /\ RetainedBounded /\ Distinct(retryOrder)
  /\ WorkerHolds /\ ProcessHeld /\ OneRender /\ ResultWhole /\ Known

\* The client's part: a render it learnt of is known to the living engine, and
\* one it is done with is covered.
Covered(t) ==
  Ended(t) \/ task[t].cancel = "set" \/ client[t].lost \/ <<"cancel", t>> \in net

ClientHolds ==
  \A t \in Tasks :
    /\ client[t].phase \in {"new", "submit"} => ~client[t].id
    /\ client[t].id /\ up => task[t].status # "none"
    /\ client[t].id /\ up /\ client[t].phase \in {"cancel", "over"} => Covered(t)

IInv == TypeOK /\ QInv /\ ClientHolds

-----------------------------------------------------------------------------
(* Sequences of tasks.                                                       *)

LEMMA AppendElements ==
    ASSUME NEW s \in Seq(Tasks), NEW t \in Tasks
    PROVE  /\ Append(s, t) \in Seq(Tasks)
           /\ Len(Append(s, t)) = Len(s) + 1
           /\ Elements(Append(s, t)) = Elements(s) \cup {t}
           /\ Distinct(s) /\ t \notin Elements(s) => Distinct(Append(s, t))
  <1>1. /\ Append(s, t) \in Seq(Tasks) /\ Len(Append(s, t)) = Len(s) + 1
        /\ Append(s, t)[Len(s) + 1] = t
        /\ \A i \in 1 .. Len(s) : Append(s, t)[i] = s[i]
        /\ Len(s) \in Nat
    OBVIOUS
  <1>2. 1 .. Len(Append(s, t)) = (1 .. Len(s)) \cup {Len(s) + 1}
    BY <1>1
  <1>3. Elements(Append(s, t)) = Elements(s) \cup {t}
    BY <1>1, <1>2 DEF Elements
  <1>4. ASSUME Distinct(s), t \notin Elements(s) PROVE Distinct(Append(s, t))
    BY <1>1, <1>2, <1>4 DEF Distinct, Elements
  <1> QED BY <1>1, <1>3, <1>4

LEMMA TailElements ==
    ASSUME NEW s \in Seq(Tasks), s # <<>>
    PROVE  /\ Head(s) \in Tasks /\ Tail(s) \in Seq(Tasks)
           /\ Len(Tail(s)) = Len(s) - 1
           /\ Elements(s) = Elements(Tail(s)) \cup {Head(s)}
           /\ Distinct(s) => Distinct(Tail(s)) /\ Head(s) \notin Elements(Tail(s))
  <1>1. /\ Head(s) \in Tasks /\ Tail(s) \in Seq(Tasks)
        /\ Len(s) \in Nat /\ Len(s) # 0 /\ Len(Tail(s)) = Len(s) - 1
        /\ Head(s) = s[1]
        /\ \A i \in 1 .. Len(s) - 1 : Tail(s)[i] = s[i + 1]
    OBVIOUS
  <1>2. \A i \in 1 .. Len(s) : i = 1 \/ (i - 1 \in 1 .. Len(s) - 1 /\ s[i] = Tail(s)[i - 1])
    BY <1>1
  <1>3. Elements(s) = Elements(Tail(s)) \cup {Head(s)}
    <2>1. Elements(s) \subseteq Elements(Tail(s)) \cup {Head(s)}
      BY <1>1, <1>2 DEF Elements
    <2>2. Elements(Tail(s)) \subseteq Elements(s)
      BY <1>1 DEF Elements
    <2>3. Head(s) \in Elements(s)
      BY <1>1 DEF Elements
    <2> QED BY <2>1, <2>2, <2>3
  <1>4. ASSUME Distinct(s) PROVE Distinct(Tail(s)) /\ Head(s) \notin Elements(Tail(s))
    BY <1>1, <1>4 DEF Distinct, Elements
  <1> QED BY <1>1, <1>3, <1>4

-----------------------------------------------------------------------------
(* What ending a task makes of the queue.                                    *)

\* An open task has its request and is not among the ended ones that are kept.
LEMMA OpenIsNotKept ==
    ASSUME QInv, NEW t \in Tasks, Open(t)
    PROVE  task[t].request /\ t \notin Elements(retryOrder)
  BY DEF QInv, NeverStranded, RetainedBounded, Open, Ended, Terminal

LEMMA RetainEnds ==
    ASSUME QInv, NEW t \in Tasks, Open(t), NEW ending \in Terminal, Retain(t, ending)
    PROVE  /\ task' \in [Tasks -> Entry] /\ retryOrder' \in Seq(Tasks)
           /\ Distinct(retryOrder') /\ RetainedBounded'
           /\ task'[t].status = ending
           /\ \A u \in Tasks \ {t} :
                /\ task'[u].status = task[u].status /\ task'[u].cancel = task[u].cancel
                /\ Open(u) => task'[u] = task[u]
                /\ task[u] = NoEntry => task'[u] = NoEntry
  <1> DEFINE order   == Append(retryOrder, t)
             evicted == IF OverLimit(order) THEN {Head(order)} ELSE {}
             kept    == IF OverLimit(order) THEN Tail(order) ELSE order
  <1>1. /\ task \in [Tasks -> Entry] /\ retryOrder \in Seq(Tasks)
        /\ Distinct(retryOrder) /\ Len(retryOrder) <= RetryLimit
        /\ {u \in Tasks : Ended(u) /\ task[u].request} = Elements(retryOrder)
        /\ \A u \in Tasks : Ended(u) => task[u].cancel = "none"
    BY DEF QInv, QueueTypeOK, RetainedBounded
  <1>2. /\ order \in Seq(Tasks) /\ Len(order) = Len(retryOrder) + 1
        /\ Elements(order) = Elements(retryOrder) \cup {t} /\ Distinct(order)
    BY <1>1, OpenIsNotKept, AppendElements
  <1>3. order # <<>>
    BY <1>1, <1>2
  <1>4. /\ retryOrder' = kept
        /\ task' = [u \in Tasks |->
             [status  |-> IF u = t THEN ending ELSE task[u].status,
              request |-> task[u].request /\ u \notin evicted,
              cancel  |-> IF u = t THEN "none" ELSE task[u].cancel]]
    BY DEF Retain
  <1> HIDE DEF order
  <1>5. /\ kept \in Seq(Tasks) /\ Distinct(kept) /\ Len(kept) <= RetryLimit
        /\ Elements(kept) = Elements(order) \ evicted
        /\ evicted \subseteq Elements(order)
    <2>1. CASE OverLimit(order)
      BY <2>1, <1>1, <1>2, <1>3, TailElements, QueueAssumption DEF OverLimit
    <2>2. CASE ~OverLimit(order)
      BY <2>2, <1>1, <1>2, QueueAssumption DEF OverLimit
    <2> QED BY <2>1, <2>2
  <1> HIDE DEF evicted, kept
  <1>6. task' \in [Tasks -> Entry]
    <2>1. \A u \in Tasks : task[u] \in Entry
      BY DEF QInv, QueueTypeOK
    <2>2. ASSUME NEW u \in Tasks
          PROVE  /\ (IF u = t THEN ending ELSE task[u].status)
                      \in Terminal \cup {"none", "queued", "running"}
                 /\ (IF u = t THEN "none" ELSE task[u].cancel) \in {"none", "clear", "set"}
      <3>1. task[u].status \in Terminal \cup {"none", "queued", "running"}
        BY <2>1 DEF Entry
      <3>2. task[u].cancel \in {"none", "clear", "set"}
        BY <2>1 DEF Entry
      <3> QED BY <3>1, <3>2
    <2>3. \A u \in Tasks : (task[u].request /\ u \notin evicted) \in BOOLEAN
      OBVIOUS
    <2> QED BY <1>4, <2>2, <2>3 DEF Entry
  <1>7. /\ task'[t].status = ending /\ task'[t].cancel = "none"
        /\ task'[t].request = (task[t].request /\ t \notin evicted)
        /\ \A u \in Tasks \ {t} :
             /\ task'[u].status = task[u].status /\ task'[u].cancel = task[u].cancel
             /\ task'[u].request = (task[u].request /\ u \notin evicted)
    BY <1>4
  <1>8. RetainedBounded'
    <2>1. task[t].request
      BY OpenIsNotKept
    <2>2. {u \in Tasks : Ended(u)' /\ task'[u].request} = Elements(order) \ evicted
      BY <1>1, <1>2, <1>7, <2>1 DEF Ended
    <2>3. \A u \in Tasks : Ended(u)' => task'[u].cancel = "none"
      BY <1>1, <1>7 DEF Ended
    <2> QED BY <1>4, <1>5, <2>2, <2>3 DEF RetainedBounded, Ended
  <1>9. ASSUME NEW u \in Tasks \ {t}
        PROVE  /\ Open(u) => task'[u] = task[u]
               /\ task[u] = NoEntry => task'[u] = NoEntry
    <2>1. task[u] \in Entry /\ task'[u] \in Entry
      BY <1>1, <1>6
    <2>2. Open(u) => u \notin evicted
      BY <1>2, <1>5, OpenIsNotKept
    <2>3. Open(u) => task[u].request
      BY OpenIsNotKept
    <2>4. ASSUME Open(u) PROVE task'[u] = task[u]
      BY <1>7, <2>1, <2>2, <2>3, <2>4 DEF Entry
    <2>5. ASSUME task[u] = NoEntry PROVE task'[u] = NoEntry
      <3>1. task[u].status = "none" /\ task[u].cancel = "none" /\ ~task[u].request
        BY <2>5 DEF NoEntry
      <3>2. task'[u].status = "none" /\ task'[u].cancel = "none" /\ task'[u].request = FALSE
        BY <1>7, <3>1
      <3> QED BY <2>1, <3>2 DEF Entry, NoEntry
    <2> QED BY <2>4, <2>5
  <1> QED BY <1>4, <1>5, <1>6, <1>7, <1>8, <1>9

\* What is kept of ended tasks depends on nothing but these.
LEMMA KeptStays ==
    ASSUME QInv, UNCHANGED retryOrder,
           \A t \in Tasks : task'[t] = task[t] \/ ~(Ended(t) \/ Ended(t)')
    PROVE  RetainedBounded' /\ Distinct(retryOrder)'
  BY DEF QInv, RetainedBounded, Ended

-----------------------------------------------------------------------------
(* The queue's steps.                                                        *)

LEMMA QueueStarts == QueueInit => QInv
  <1> SUFFICES ASSUME QueueInit PROVE QInv
    OBVIOUS
  <1>1. /\ QueueTypeOK /\ NeverStranded
    BY DEF QueueInit, QueueTypeOK, NeverStranded, Entry, NoEntry, NoFile, EarlierExport,
           Idle, ProcStates, WorkerPlaces, Terminal
  <1>2. RetainedBounded /\ Distinct(retryOrder)
    BY QueueAssumption DEF QueueInit, RetainedBounded, Distinct, Elements, Ended, NoEntry,
                           Terminal
  <1>3. WorkerHolds /\ ProcessHeld /\ OneRender /\ ResultWhole /\ Known
    BY QueueAssumption DEF QueueInit, WorkerHolds, ProcessHeld, OneRender, ResultWhole,
                           Known,
           NoEntry, Idle, InHand, Rendering
  <1> QED BY <1>1, <1>2, <1>3 DEF QInv

LEMMA SubmitKeeps ==
    ASSUME QInv, NEW t \in Tasks, Submit(t)
    PROVE  QInv'
  <1>1. QueueTypeOK'
    BY DEF QInv, QueueTypeOK, Submit, NewEntry, NoEntry, Idle, Entry
  <1>2. NeverStranded'
    BY DEF QInv, QueueTypeOK, NeverStranded, At, Known, WorkerHolds, InHand, Submit,
           NewEntry, NoEntry, Idle
  <1>3. RetainedBounded' /\ Distinct(retryOrder)'
    BY KeptStays DEF Submit, NewEntry, NoEntry, Idle, Ended, Terminal
  <1>4. WorkerHolds' /\ ProcessHeld'
    BY DEF QInv, QueueTypeOK, WorkerHolds, ProcessHeld, Known, NeverStranded, At, InHand,
           Rendering, Submit, NewEntry, NoEntry, Idle
  <1>5. OneRender' /\ ResultWhole' /\ Known'
    BY DEF QInv, QueueTypeOK, WorkerHolds, ProcessHeld, OneRender, ResultWhole, Known,
           NeverStranded, At, InHand, Rendering, Submit, NewEntry, NoEntry, Idle
  <1> QED BY <1>1, <1>2, <1>3, <1>4, <1>5 DEF QInv

LEMMA PutKeeps ==
    ASSUME QInv, NEW t \in Tasks, PutPending(t)
    PROVE  QInv'
  <1>0. /\ Append(pending, t) \in Seq(Tasks)
        /\ Elements(Append(pending, t)) = Elements(pending) \cup {t}
    BY AppendElements DEF QInv, QueueTypeOK
  <1>1. QueueTypeOK'
    BY <1>0 DEF QInv, QueueTypeOK, PutPending
  <1>2. NeverStranded'
    BY <1>0 DEF QInv, QueueTypeOK, NeverStranded, At, PutPending
  <1>3. RetainedBounded' /\ Distinct(retryOrder)'
    BY KeptStays DEF PutPending
  <1>4. WorkerHolds' /\ ProcessHeld'
    BY DEF QInv, QueueTypeOK, WorkerHolds, ProcessHeld, Known, At, InHand, Rendering,
           PutPending
  <1>5. OneRender' /\ ResultWhole' /\ Known'
    BY DEF QInv, QueueTypeOK, WorkerHolds, ProcessHeld, OneRender, ResultWhole, Known, At,
           InHand, Rendering, PutPending
  <1> QED BY <1>1, <1>2, <1>3, <1>4, <1>5 DEF QInv

LEMMA TakeKeeps ==
    ASSUME QInv, Take
    PROVE  QInv'
  <1>0. /\ Head(pending) \in Tasks /\ Tail(pending) \in Seq(Tasks)
        /\ Elements(pending) = Elements(Tail(pending)) \cup {Head(pending)}
        /\ worker' = [at |-> "taken", task |-> Head(pending), ending |-> "failed"]
    BY TailElements DEF QInv, QueueTypeOK, Take, Idle
  <1>f. /\ worker.at = "idle" /\ pending' = Tail(pending)
        /\ UNCHANGED <<task, adding, retryOrder, proc, file, up>>
    BY DEF Take
  <1>g. up /\ \A u \in Tasks : proc[u] \notin Rendering
    BY <1>f DEF QInv, Known, ProcessHeld, At, Take
  <1>1. QueueTypeOK'
    BY <1>0, <1>f DEF QInv, QueueTypeOK, WorkerPlaces, Terminal
  <1>2. NeverStranded'
    BY <1>0, <1>f DEF QInv, QueueTypeOK, NeverStranded, At
  <1>3. RetainedBounded' /\ Distinct(retryOrder)'
    BY KeptStays DEF Take, Idle
  <1>4. WorkerHolds' /\ ProcessHeld'
    BY <1>0, <1>f, <1>g, QueueAssumption DEF QInv, WorkerHolds, ProcessHeld, OneRender,
                                             ResultWhole, Known, At, InHand
  <1>5. OneRender' /\ ResultWhole' /\ Known'
    BY <1>0, <1>f, <1>g, QueueAssumption DEF QInv, WorkerHolds, ProcessHeld, OneRender,
                                             ResultWhole, Known, At, InHand
  <1> QED BY <1>1, <1>2, <1>3, <1>4, <1>5 DEF QInv

LEMMA DropKeeps ==
    ASSUME QInv, Drop
    PROVE  QInv'
  <1>1. QueueTypeOK'
    BY DEF QInv, QueueTypeOK, Drop, Idle, WorkerPlaces, Terminal
  <1>2. NeverStranded'
    BY DEF QInv, QueueTypeOK, NeverStranded, At, Known, WorkerHolds, InHand, Drop, Idle
  <1>3. RetainedBounded' /\ Distinct(retryOrder)'
    BY KeptStays DEF Drop, Idle
  <1>4. WorkerHolds' /\ ProcessHeld'
    BY DEF QInv, QueueTypeOK, WorkerHolds, ProcessHeld, Known, NeverStranded, At, InHand,
           Rendering, Drop, Idle
  <1>5. OneRender' /\ ResultWhole' /\ Known'
    BY DEF QInv, QueueTypeOK, WorkerHolds, ProcessHeld, OneRender, ResultWhole, Known,
           NeverStranded, At, InHand, Rendering, Drop, Idle
  <1> QED BY <1>1, <1>2, <1>3, <1>4, <1>5 DEF QInv

LEMMA StartKeeps ==
    ASSUME QInv, Start
    PROVE  QInv'
  <1> DEFINE t == worker.task
  <1>0. t \in Tasks /\ worker.at = "taken" /\ t # NoTask
    BY QueueAssumption DEF QInv, QueueTypeOK, WorkerHolds, Start
  <1>a. /\ task \in [Tasks -> Entry] /\ proc \in [Tasks -> ProcStates]
        /\ task[t].request /\ task[t].cancel = "clear" /\ task[t].status = "queued" /\ up
    <2>1. task[t] \in Entry /\ task[t].request /\ task[t].cancel = "clear"
      BY <1>0 DEF QInv, QueueTypeOK, Start
    <2>2. task[t].status # "running"
      BY <1>0 DEF QInv, NeverStranded, At
    <2>3. task[t].status # "none"
      BY <1>0, <2>1 DEF QInv, Known, NoEntry
    <2>4. ~Ended(t)
      BY <1>0, <2>1 DEF QInv, RetainedBounded
    <2>5. up
      BY <1>0 DEF QInv, Known, Idle
    <2> QED BY <2>1, <2>2, <2>3, <2>4, <2>5 DEF QInv, QueueTypeOK, Entry, Ended
  <1>b. /\ task' \in [Tasks -> Entry]
        /\ task'[t].status = "running" /\ task'[t].request /\ task'[t].cancel = "clear"
        /\ \A u \in Tasks \ {t} : task'[u] = task[u]
    BY <1>0, <1>a DEF Start, Entry
  <1>c. \/ /\ proc' = [proc EXCEPT ![t] = "preparing"]
           /\ worker' = [at |-> "executing", task |-> t, ending |-> worker.ending]
        \/ /\ proc' = proc
           /\ worker' = [at |-> "finishing", task |-> t, ending |-> worker.ending]
    BY DEF QInv, QueueTypeOK, Start
  <1>d. worker.ending \in Terminal \ {"completed"}
    BY <1>0 DEF QInv, QueueTypeOK, WorkerHolds
  <1>e. \A u \in Tasks : proc[u] \notin Rendering
    BY <1>0, <1>a DEF QInv, ProcessHeld, At
  <1>f. UNCHANGED <<adding, pending, retryOrder, file, up>>
    BY DEF Start
  <1> HIDE DEF t
  <1>1. QueueTypeOK'
    BY <1>0, <1>a, <1>b, <1>c, <1>d, <1>f DEF QInv, QueueTypeOK, WorkerPlaces, ProcStates,
                                              Rendering
  <1>2. NeverStranded'
    BY <1>0, <1>b, <1>c, <1>f DEF QInv, NeverStranded, At, t
  <1>3. RetainedBounded' /\ Distinct(retryOrder)'
    BY <1>a, <1>b, <1>f, KeptStays DEF Ended, Terminal
  <1>4. WorkerHolds' /\ ProcessHeld'
    BY <1>0, <1>a, <1>b, <1>c, <1>d, <1>e, <1>f DEF QInv, WorkerHolds, ProcessHeld,
                                                    OneRender, ResultWhole, Known, At,
                                                    InHand, Rendering, NoEntry
  <1>5. OneRender' /\ ResultWhole' /\ Known'
    BY <1>0, <1>a, <1>b, <1>c, <1>d, <1>e, <1>f DEF QInv, WorkerHolds, ProcessHeld,
                                                    OneRender, ResultWhole, Known, At,
                                                    InHand, Rendering, NoEntry
  <1> QED BY <1>1, <1>2, <1>3, <1>4, <1>5 DEF QInv

LEMMA ResultKeeps ==
    ASSUME QInv, ResultRead
    PROVE  QInv'
  <1>1. QueueTypeOK'
    BY DEF QInv, QueueTypeOK, ResultRead, Leaves, Idle, WorkerPlaces, Terminal
  <1>2. NeverStranded'
    BY DEF QInv, QueueTypeOK, NeverStranded, At, Known, WorkerHolds, InHand, ResultRead,
           Leaves, Idle
  <1>3. RetainedBounded' /\ Distinct(retryOrder)'
    BY KeptStays DEF ResultRead, Leaves, Idle
  <1>4. WorkerHolds' /\ ProcessHeld'
    BY DEF QInv, QueueTypeOK, WorkerHolds, ProcessHeld, Known, NeverStranded, At, InHand,
           Rendering, ResultRead, Leaves, Idle
  <1>5. OneRender' /\ ResultWhole' /\ Known'
    BY DEF QInv, QueueTypeOK, WorkerHolds, ProcessHeld, OneRender, ResultWhole, Known,
           NeverStranded, At, InHand, Rendering, ResultRead, Leaves, Idle
  <1> QED BY <1>1, <1>2, <1>3, <1>4, <1>5 DEF QInv

LEMMA CancelSeenKeeps ==
    ASSUME QInv, CancelSeen
    PROVE  QInv'
  <1>1. QueueTypeOK'
    BY DEF QInv, QueueTypeOK, CancelSeen, Leaves, Idle, WorkerPlaces, Terminal
  <1>2. NeverStranded'
    BY DEF QInv, QueueTypeOK, NeverStranded, At, Known, WorkerHolds, InHand, CancelSeen,
           Leaves, Idle
  <1>3. RetainedBounded' /\ Distinct(retryOrder)'
    BY KeptStays DEF CancelSeen, Leaves, Idle
  <1>4. WorkerHolds' /\ ProcessHeld'
    BY DEF QInv, QueueTypeOK, WorkerHolds, ProcessHeld, Known, NeverStranded, At, InHand,
           Rendering, CancelSeen, Leaves, Idle
  <1>5. OneRender' /\ ResultWhole' /\ Known'
    BY DEF QInv, QueueTypeOK, WorkerHolds, ProcessHeld, OneRender, ResultWhole, Known,
           NeverStranded, At, InHand, Rendering, CancelSeen, Leaves, Idle
  <1> QED BY <1>1, <1>2, <1>3, <1>4, <1>5 DEF QInv

LEMMA TimedOutKeeps ==
    ASSUME QInv, TimedOut
    PROVE  QInv'
  <1>1. QueueTypeOK'
    BY DEF QInv, QueueTypeOK, TimedOut, Leaves, Idle, WorkerPlaces, Terminal
  <1>2. NeverStranded'
    BY DEF QInv, QueueTypeOK, NeverStranded, At, Known, WorkerHolds, InHand, TimedOut,
           Leaves, Idle
  <1>3. RetainedBounded' /\ Distinct(retryOrder)'
    BY KeptStays DEF TimedOut, Leaves, Idle
  <1>4. WorkerHolds' /\ ProcessHeld'
    BY DEF QInv, QueueTypeOK, WorkerHolds, ProcessHeld, Known, NeverStranded, At, InHand,
           Rendering, TimedOut, Leaves, Idle
  <1>5. OneRender' /\ ResultWhole' /\ Known'
    BY DEF QInv, QueueTypeOK, WorkerHolds, ProcessHeld, OneRender, ResultWhole, Known,
           NeverStranded, At, InHand, Rendering, TimedOut, Leaves, Idle
  <1> QED BY <1>1, <1>2, <1>3, <1>4, <1>5 DEF QInv

LEMMA GoneKeeps ==
    ASSUME QInv, ProcessGone
    PROVE  QInv'
  <1>1. QueueTypeOK'
    BY DEF QInv, QueueTypeOK, ProcessGone, Leaves, Idle, WorkerPlaces, Terminal
  <1>2. NeverStranded'
    BY DEF QInv, QueueTypeOK, NeverStranded, At, Known, WorkerHolds, InHand, ProcessGone,
           Leaves, Idle
  <1>3. RetainedBounded' /\ Distinct(retryOrder)'
    BY KeptStays DEF ProcessGone, Leaves, Idle
  <1>4. WorkerHolds' /\ ProcessHeld'
    BY DEF QInv, QueueTypeOK, WorkerHolds, ProcessHeld, Known, NeverStranded, At, InHand,
           Rendering, ProcessGone, Leaves, Idle
  <1>5. OneRender' /\ ResultWhole' /\ Known'
    BY DEF QInv, QueueTypeOK, WorkerHolds, ProcessHeld, OneRender, ResultWhole, Known,
           NeverStranded, At, InHand, Rendering, ProcessGone, Leaves, Idle
  <1> QED BY <1>1, <1>2, <1>3, <1>4, <1>5 DEF QInv

LEMMA DiscardKeeps ==
    ASSUME QInv, DiscardOutput
    PROVE  QInv'
  <1>1. QueueTypeOK'
    BY DEF QInv, QueueTypeOK, DiscardOutput, NoFile, Idle, WorkerPlaces
  <1>2. NeverStranded'
    BY DEF QInv, QueueTypeOK, NeverStranded, At, Known, WorkerHolds, InHand, DiscardOutput,
           NoFile, Idle
  <1>3. RetainedBounded' /\ Distinct(retryOrder)'
    BY KeptStays DEF DiscardOutput, NoFile, Idle
  <1>4. WorkerHolds' /\ ProcessHeld'
    BY DEF QInv, QueueTypeOK, WorkerHolds, ProcessHeld, Known, NeverStranded, At, InHand,
           Rendering, DiscardOutput, NoFile, Idle
  <1>5. OneRender' /\ ResultWhole' /\ Known'
    BY DEF QInv, QueueTypeOK, WorkerHolds, ProcessHeld, OneRender, ResultWhole, Known,
           NeverStranded, At, InHand, Rendering, DiscardOutput, NoFile, Idle
  <1> QED BY <1>1, <1>2, <1>3, <1>4, <1>5 DEF QInv

LEMMA StopKeeps ==
    ASSUME QInv, StopWorker
    PROVE  QInv'
  <1>1. QueueTypeOK'
    <2>1. PICK state \in Stopped(proc[worker.task]) : proc' = [proc EXCEPT ![worker.task] = state]
      BY DEF StopWorker
    <2>2. worker.task \in Tasks
      BY DEF QInv, QueueTypeOK, WorkerHolds, StopWorker
    <2>3. state \in ProcStates
      BY <2>1, <2>2 DEF QInv, QueueTypeOK, Stopped, ProcStates
    <2>4. proc' \in [Tasks -> ProcStates]
      BY <2>1, <2>3 DEF QInv, QueueTypeOK
    <2> QED BY <2>4 DEF QInv, QueueTypeOK, StopWorker, WorkerPlaces
  <1>2. NeverStranded'
    BY DEF QInv, QueueTypeOK, NeverStranded, At, Known, WorkerHolds, InHand, StopWorker,
           Stopped, Idle
  <1>3. RetainedBounded' /\ Distinct(retryOrder)'
    BY KeptStays DEF StopWorker, Stopped, Idle
  <1>4. WorkerHolds' /\ ProcessHeld'
    BY DEF QInv, QueueTypeOK, WorkerHolds, ProcessHeld, Known, NeverStranded, At, InHand,
           Rendering, StopWorker, Stopped, Idle
  <1>5. OneRender' /\ ResultWhole' /\ Known'
    BY DEF QInv, QueueTypeOK, WorkerHolds, ProcessHeld, OneRender, ResultWhole, Known,
           NeverStranded, At, InHand, Rendering, StopWorker, Stopped, Idle
  <1> QED BY <1>1, <1>2, <1>3, <1>4, <1>5 DEF QInv

LEMMA OpenKeeps ==
    ASSUME QInv, NEW t \in Tasks, OpenOutput(t)
    PROVE  QInv'
  <1>1. QueueTypeOK'
    BY DEF QInv, QueueTypeOK, OpenOutput, Idle, ProcStates, Rendering
  <1>2. NeverStranded'
    BY DEF QInv, QueueTypeOK, NeverStranded, At, Known, WorkerHolds, InHand, OpenOutput,
           Idle
  <1>3. RetainedBounded' /\ Distinct(retryOrder)'
    BY KeptStays DEF OpenOutput, Idle
  <1>4. WorkerHolds' /\ ProcessHeld'
    BY DEF QInv, QueueTypeOK, WorkerHolds, ProcessHeld, Known, NeverStranded, At, InHand,
           Rendering, OpenOutput, Idle
  <1>5. OneRender' /\ ResultWhole' /\ Known'
    BY DEF QInv, QueueTypeOK, WorkerHolds, ProcessHeld, OneRender, ResultWhole, Known,
           NeverStranded, At, InHand, Rendering, OpenOutput, Idle
  <1> QED BY <1>1, <1>2, <1>3, <1>4, <1>5 DEF QInv

LEMMA SucceedKeeps ==
    ASSUME QInv, NEW t \in Tasks, Succeed(t)
    PROVE  QInv'
  <1>1. QueueTypeOK'
    BY DEF QInv, QueueTypeOK, Succeed, Idle, ProcStates, Rendering
  <1>2. NeverStranded'
    BY DEF QInv, QueueTypeOK, NeverStranded, At, Known, WorkerHolds, InHand, Succeed, Idle
  <1>3. RetainedBounded' /\ Distinct(retryOrder)'
    BY KeptStays DEF Succeed, Idle
  <1>4. WorkerHolds' /\ ProcessHeld'
    BY DEF QInv, QueueTypeOK, WorkerHolds, ProcessHeld, Known, NeverStranded, At, InHand,
           Rendering, Succeed, Idle
  <1>5. OneRender' /\ ResultWhole' /\ Known'
    BY DEF QInv, QueueTypeOK, WorkerHolds, ProcessHeld, OneRender, ResultWhole, Known,
           NeverStranded, At, InHand, Rendering, Succeed, Idle
  <1> QED BY <1>1, <1>2, <1>3, <1>4, <1>5 DEF QInv

LEMMA FailKeeps ==
    ASSUME QInv, NEW t \in Tasks, Fail(t)
    PROVE  QInv'
  <1>1. QueueTypeOK'
    BY DEF QInv, QueueTypeOK, Fail, NoFile, Idle, ProcStates, Rendering
  <1>2. NeverStranded'
    BY DEF QInv, QueueTypeOK, NeverStranded, At, Known, WorkerHolds, InHand, Fail, NoFile,
           Idle
  <1>3. RetainedBounded' /\ Distinct(retryOrder)'
    BY KeptStays DEF Fail, NoFile, Idle
  <1>4. WorkerHolds' /\ ProcessHeld'
    BY DEF QInv, QueueTypeOK, WorkerHolds, ProcessHeld, Known, NeverStranded, At, InHand,
           Rendering, Fail, NoFile, Idle
  <1>5. OneRender' /\ ResultWhole' /\ Known'
    BY DEF QInv, QueueTypeOK, WorkerHolds, ProcessHeld, OneRender, ResultWhole, Known,
           NeverStranded, At, InHand, Rendering, Fail, NoFile, Idle
  <1> QED BY <1>1, <1>2, <1>3, <1>4, <1>5 DEF QInv

LEMMA DieKeeps ==
    ASSUME QInv, NEW t \in Tasks, Die(t)
    PROVE  QInv'
  <1>1. QueueTypeOK'
    BY DEF QInv, QueueTypeOK, Die, Idle, ProcStates, Rendering
  <1>2. NeverStranded'
    BY DEF QInv, QueueTypeOK, NeverStranded, At, Known, WorkerHolds, InHand, Die, Idle
  <1>3. RetainedBounded' /\ Distinct(retryOrder)'
    BY KeptStays DEF Die, Idle
  <1>4. WorkerHolds' /\ ProcessHeld'
    BY DEF QInv, QueueTypeOK, WorkerHolds, ProcessHeld, Known, NeverStranded, At, InHand,
           Rendering, Die, Idle
  <1>5. OneRender' /\ ResultWhole' /\ Known'
    BY DEF QInv, QueueTypeOK, WorkerHolds, ProcessHeld, OneRender, ResultWhole, Known,
           NeverStranded, At, InHand, Rendering, Die, Idle
  <1> QED BY <1>1, <1>2, <1>3, <1>4, <1>5 DEF QInv

LEMMA WatchdogKeeps ==
    ASSUME QInv, NEW t \in Tasks, Watchdog(t)
    PROVE  QInv'
  <1>1. QueueTypeOK'
    BY DEF QInv, QueueTypeOK, Watchdog, Idle, ProcStates, Rendering
  <1>2. NeverStranded'
    BY DEF QInv, QueueTypeOK, NeverStranded, At, Known, WorkerHolds, InHand, Watchdog, Idle
  <1>3. RetainedBounded' /\ Distinct(retryOrder)'
    BY KeptStays DEF Watchdog, Idle
  <1>4. WorkerHolds' /\ ProcessHeld'
    BY DEF QInv, QueueTypeOK, WorkerHolds, ProcessHeld, Known, NeverStranded, At, InHand,
           Rendering, Watchdog, Idle
  <1>5. OneRender' /\ ResultWhole' /\ Known'
    BY DEF QInv, QueueTypeOK, WorkerHolds, ProcessHeld, OneRender, ResultWhole, Known,
           NeverStranded, At, InHand, Rendering, Watchdog, Idle
  <1> QED BY <1>1, <1>2, <1>3, <1>4, <1>5 DEF QInv

LEMMA CancelKeeps ==
    ASSUME QInv, NEW t \in Tasks, Cancel(t)
    PROVE  QInv'
  <1>f. UNCHANGED <<adding, pending, worker, proc, file, up>> /\ up
    BY DEF Cancel
  <1>t. task \in [Tasks -> Entry] /\ task[t] \in Entry
    BY DEF QInv, QueueTypeOK
  <1>1. CASE task[t].status = "queued"
    <2>1. Open(t) /\ Retain(t, "cancelled") /\ "cancelled" \in Terminal
      BY <1>1 DEF Open, Cancel, Terminal
    <2>2. /\ task' \in [Tasks -> Entry] /\ retryOrder' \in Seq(Tasks)
          /\ Distinct(retryOrder') /\ RetainedBounded'
          /\ task'[t].status = "cancelled"
          /\ \A u \in Tasks \ {t} :
               /\ task'[u].status = task[u].status
               /\ Open(u) => task'[u] = task[u]
               /\ task[u] = NoEntry => task'[u] = NoEntry
      BY <2>1, RetainEnds
    <2>3. QueueTypeOK'
      BY <1>f, <2>2 DEF QInv, QueueTypeOK
    <2>4. NeverStranded'
      BY <1>f, <2>2 DEF QInv, NeverStranded, At, Open
    <2>5. WorkerHolds'
      BY <1>1, <1>f, <2>2 DEF QInv, QueueTypeOK, WorkerHolds, InHand
    <2>6. ProcessHeld' /\ OneRender' /\ ResultWhole'
      BY <1>f DEF QInv, ProcessHeld, At, OneRender, ResultWhole
    <2>7. Known'
      BY <1>f, <2>2 DEF QInv, Known
    <2> QED BY <2>2, <2>3, <2>4, <2>5, <2>6, <2>7 DEF QInv, Distinct
  <1>2. CASE task[t].status = "running"
    <2>1. task' = [task EXCEPT ![t].cancel = "set"] /\ UNCHANGED retryOrder
      BY <1>2 DEF Cancel
    <2>2. /\ task' \in [Tasks -> Entry] /\ task'[t].status = "running"
          /\ task'[t].request = task[t].request /\ task'[t].cancel = "set"
          /\ \A u \in Tasks \ {t} : task'[u] = task[u]
      BY <1>2, <1>t, <2>1 DEF Entry
    <2>3. QueueTypeOK'
      BY <1>f, <2>1, <2>2 DEF QInv, QueueTypeOK
    <2>4. NeverStranded'
      BY <1>2, <1>f, <2>2 DEF QInv, NeverStranded, At
    <2>5. RetainedBounded' /\ Distinct(retryOrder)'
      BY <1>2, <2>1, <2>2, KeptStays DEF Ended, Terminal
    <2>6. WorkerHolds'
      BY <1>2, <1>f, <2>2 DEF QInv, QueueTypeOK, WorkerHolds, InHand
    <2>7. ProcessHeld' /\ OneRender' /\ ResultWhole'
      BY <1>f DEF QInv, ProcessHeld, At, OneRender, ResultWhole
    <2>8. Known'
      BY <1>f, <2>2 DEF QInv, Known
    <2> QED BY <2>3, <2>4, <2>5, <2>6, <2>7, <2>8 DEF QInv
  <1>3. CASE task[t].status \notin {"queued", "running"}
    <2>1. UNCHANGED <<task, retryOrder>>
      BY <1>3 DEF Cancel
    <2>2. QueueTypeOK' /\ NeverStranded'
      BY <1>f, <2>1 DEF QInv, QueueTypeOK, NeverStranded, At
    <2>3. RetainedBounded' /\ Distinct(retryOrder)'
      BY <2>1, KeptStays
    <2>4. WorkerHolds' /\ ProcessHeld' /\ OneRender' /\ ResultWhole' /\ Known'
      BY <1>f, <2>1 DEF QInv, WorkerHolds, ProcessHeld, At, OneRender, ResultWhole, Known
    <2> QED BY <2>2, <2>3, <2>4 DEF QInv
  <1> QED BY <1>1, <1>2, <1>3

LEMMA FinishKeeps ==
    ASSUME QInv, Finish
    PROVE  QInv'
  <1> DEFINE t == worker.task
  <1>1. /\ t \in Tasks /\ worker.at = "finishing" /\ task[t].status = "running"
        /\ worker.ending \in Terminal
    BY DEF QInv, QueueTypeOK, WorkerHolds, InHand, Finish
  <1>2. worker' = Idle /\ UNCHANGED <<adding, pending, proc, file, up>>
    BY DEF Finish
  <1>3. up /\ \A u \in Tasks : proc[u] \notin Rendering
    BY <1>1 DEF QInv, Known, ProcessHeld, At, Idle
  <1>4. Open(t)
    BY <1>1 DEF Open
  <1>5. /\ task' \in [Tasks -> Entry] /\ retryOrder' \in Seq(Tasks)
        /\ RetainedBounded' /\ Distinct(retryOrder')
        /\ task'[t].status \in Terminal
        /\ \A u \in Tasks \ {t} :
             /\ task'[u].status = task[u].status
             /\ Open(u) => task'[u] = task[u]
             /\ task[u] = NoEntry => task'[u] = NoEntry
    <2>1. CASE worker.ending # "completed"
      <3>1. Retain(t, worker.ending)
        BY <2>1 DEF Finish
      <3> HIDE DEF t
      <3> QED BY <1>1, <1>4, <3>1, RetainEnds
    <2>2. CASE worker.ending = "completed"
      <3>1. Release(t)
        BY <2>2 DEF Finish
      <3> HIDE DEF t
      <3>2. /\ UNCHANGED retryOrder
            /\ task' = [task EXCEPT ![t] = [status |-> "completed", request |-> FALSE,
                                            cancel |-> "none"]]
        BY <3>1 DEF Release
      <3>3. /\ task' \in [Tasks -> Entry]
            /\ task'[t] = [status |-> "completed", request |-> FALSE, cancel |-> "none"]
            /\ \A u \in Tasks \ {t} : task'[u] = task[u]
        BY <1>1, <3>2 DEF QInv, QueueTypeOK, Entry, Terminal
      <3>4. ~Ended(t)
        BY <1>1 DEF Ended, Terminal
      <3>5. {u \in Tasks : Ended(u)' /\ task'[u].request} =
              {u \in Tasks : Ended(u) /\ task[u].request}
        BY <3>3, <3>4 DEF Ended
      <3>6. \A u \in Tasks : Ended(u)' => task'[u].cancel = "none"
        BY <3>3 DEF QInv, RetainedBounded, Ended
      <3>7. RetainedBounded'
        BY <3>2, <3>5, <3>6 DEF QInv, RetainedBounded
      <3> QED BY <3>2, <3>3, <3>7 DEF QInv, QueueTypeOK, Terminal
    <2> QED BY <2>1, <2>2
  <1> HIDE DEF t
  <1>6. QueueTypeOK'
    BY <1>2, <1>5 DEF QInv, QueueTypeOK, Idle, WorkerPlaces, Terminal
  <1>7. NeverStranded'
    BY <1>1, <1>2, <1>5 DEF QInv, NeverStranded, At, Open, Terminal, t
  <1>8. WorkerHolds' /\ ProcessHeld' /\ OneRender' /\ ResultWhole'
    BY <1>2, <1>3, QueueAssumption
       DEF WorkerHolds, ProcessHeld, OneRender, ResultWhole, Idle, InHand
  <1>9. Known'
    BY <1>2, <1>3, <1>5 DEF QInv, Known, Terminal
  <1> QED BY <1>5, <1>6, <1>7, <1>8, <1>9 DEF QInv, Distinct

LEMMA DeathKeeps ==
    ASSUME QInv, EngineDies
    PROVE  QInv'
  <1>1. QueueTypeOK' /\ NeverStranded'
    <2>1. /\ NoEntry \in Entry /\ <<>> \in Seq(Tasks)
          /\ Idle \in [at : WorkerPlaces, task : Tasks \cup {NoTask}, ending : Terminal]
      BY DEF Entry, NoEntry, Idle, WorkerPlaces, Terminal
    <2>2. task' \in [Tasks -> Entry] /\ \A t \in Tasks : task'[t] = NoEntry
      BY <2>1 DEF EngineDies
    <2> QED BY <2>1, <2>2 DEF QInv, QueueTypeOK, NeverStranded, EngineDies, NoEntry
  <1>2. RetainedBounded' /\ Distinct(retryOrder)'
    BY QueueAssumption
       DEF EngineDies, RetainedBounded, Distinct, Elements, Ended, NoEntry, Terminal
  <1>3. WorkerHolds' /\ ProcessHeld' /\ OneRender' /\ ResultWhole' /\ Known'
    BY QueueAssumption
       DEF QInv, EngineDies, WorkerHolds, ProcessHeld, OneRender, ResultWhole, Known,
           NoEntry, Idle, InHand
  <1> QED BY <1>1, <1>2, <1>3 DEF QInv

LEMMA StutterKeeps ==
    ASSUME QInv, UNCHANGED queueVars
    PROVE  QInv'
  BY DEF queueVars, QInv, QueueTypeOK, NeverStranded, RetainedBounded, Distinct,
         WorkerHolds,
         ProcessHeld, OneRender, ResultWhole, Known, At, Ended, Elements

\* What the queue does on its own.
LEMMA InternalKeeps ==
    ASSUME QInv, QueueInternal
    PROVE  QInv'
  <1>1. ASSUME Worker PROVE QInv'
    BY <1>1, TakeKeeps, DropKeeps, StartKeeps, ResultKeeps, CancelSeenKeeps, TimedOutKeeps,
       GoneKeeps, DiscardKeeps, StopKeeps, FinishKeeps DEF Worker
  <1>2. ASSUME NEW t \in Tasks,
               \/ PutPending(t) \/ OpenOutput(t) \/ Succeed(t)
               \/ Fail(t) \/ Die(t) \/ Watchdog(t)
        PROVE  QInv'
    BY <1>2, PutKeeps, OpenKeeps, SucceedKeeps, FailKeeps, DieKeeps, WatchdogKeeps
  <1> QED BY <1>1, <1>2, DeathKeeps DEF QueueInternal

-----------------------------------------------------------------------------
(* How a task ends.                                                          *)

\* What a step of the queue may do to a task that has ended, or is to end as
\* cancelled, while the engine lives.
LEMMA TasksGoOn ==
    ASSUME QInv, [QueueNext]_queueVars, NEW t \in Tasks, up'
    PROVE  /\ up
           /\ Ended(t) => task'[t].status = task[t].status
           /\ task[t].status # "none" => task'[t].status # "none"
           /\ task[t].cancel = "set" => Ended(t)' \/ task'[t].cancel = "set"
           /\ ~Ended(t) /\ task'[t].status = "completed" =>
                file' = [by |-> t, holds |-> "whole"]
  <1> DEFINE Goal == /\ up
                     /\ Ended(t) => task'[t].status = task[t].status
                     /\ task[t].status # "none" => task'[t].status # "none"
                     /\ task[t].cancel = "set" => Ended(t)' \/ task'[t].cancel = "set"
                     /\ ~Ended(t) /\ task'[t].status = "completed" =>
                          file' = [by |-> t, holds |-> "whole"]
  <1>t. task \in [Tasks -> Entry] /\ worker.task \in Tasks \cup {NoTask}
    BY DEF QInv, QueueTypeOK
  <1>0. ASSUME task' = task, up PROVE Goal
    BY <1>0 DEF Ended, Terminal
  <1>1. ASSUME NEW u \in Tasks, Open(u), NEW ending \in Terminal, Retain(u, ending), up,
               ending # "completed"
        PROVE  Goal
    <2>1. /\ task'[u].status = ending
          /\ \A k \in Tasks \ {u} :
               task'[k].status = task[k].status /\ task'[k].cancel = task[k].cancel
      BY <1>1, RetainEnds
    <2>2. CASE t = u
      BY <1>1, <2>1, <2>2 DEF Open, Ended, Terminal
    <2>3. CASE t # u
      BY <1>1, <2>1, <2>3 DEF Ended, Terminal
    <2> QED BY <2>2, <2>3
  <1>2. ASSUME NEW u \in Tasks, Submit(u) PROVE Goal
    <2>1. task' = [task EXCEPT ![u] = NewEntry] /\ task[u] = NoEntry /\ up
      BY <1>2 DEF Submit
    <2> QED BY <1>t, <2>1 DEF Ended, Terminal, NewEntry, NoEntry
  <1>3. ASSUME NEW u \in Tasks, Cancel(u) PROVE Goal
    <2>1. CASE task[u].status = "queued"
      BY <1>1, <1>3, <2>1 DEF Cancel, Open, Terminal
    <2>2. CASE task[u].status = "running"
      <3>1. task' = [task EXCEPT ![u].cancel = "set"] /\ up
        BY <1>3, <2>2 DEF Cancel
      <3> QED BY <1>t, <2>2, <3>1 DEF Ended, Terminal, Entry
    <2>3. CASE task[u].status \notin {"queued", "running"}
      BY <1>0, <1>3, <2>3 DEF Cancel
    <2> QED BY <2>1, <2>2, <2>3
  <1>4. ASSUME Start PROVE Goal
    <2>1. /\ worker.task \in Tasks /\ task[worker.task].cancel = "clear" /\ up
          /\ task' = [task EXCEPT ![worker.task].status = "running"]
      BY <1>4 DEF QInv, QueueTypeOK, WorkerHolds, Start
    <2>2. ~Ended(worker.task)
      BY <2>1 DEF QInv, RetainedBounded
    <2> QED BY <1>t, <2>1, <2>2 DEF Ended, Terminal, Entry
  <1>5. ASSUME Finish PROVE Goal
    <2>1. /\ worker.task \in Tasks /\ worker.at = "finishing" /\ up
          /\ task[worker.task].status = "running" /\ worker.ending \in Terminal
      BY <1>5 DEF QInv, QueueTypeOK, WorkerHolds, InHand, Finish
    <2>2. CASE worker.ending # "completed"
      <3>1. Retain(worker.task, worker.ending) /\ Open(worker.task)
        BY <1>5, <2>1, <2>2 DEF Finish, Open
      <3> HIDE DEF Goal
      <3> QED BY <1>1, <2>1, <2>2, <3>1
    <2>3. CASE worker.ending = "completed"
      <3>1. /\ task' = [task EXCEPT ![worker.task] =
                          [status |-> "completed", request |-> FALSE, cancel |-> "none"]]
            /\ file' = file
        BY <1>5, <2>3 DEF Finish, Release
      <3>2. file = [by |-> worker.task, holds |-> "whole"]
        BY <2>1, <2>3 DEF QInv, ResultWhole, InHand
      <3>3. CASE t = worker.task
        BY <1>t, <2>1, <3>1, <3>2, <3>3 DEF Ended, Terminal
      <3>4. CASE t # worker.task
        BY <1>t, <2>1, <3>1, <3>4 DEF Ended, Terminal
      <3> QED BY <3>3, <3>4
    <2> QED BY <2>2, <2>3
  <1>6. ASSUME Take \/ Drop \/ ResultRead \/ CancelSeen \/ TimedOut \/ ProcessGone
               \/ DiscardOutput \/ StopWorker
        PROVE  task' = task /\ up
    BY <1>6 DEF Take, Drop, ResultRead, CancelSeen, TimedOut, ProcessGone, Leaves,
                DiscardOutput, StopWorker
  <1>7. ASSUME NEW u \in Tasks,
               \/ PutPending(u) \/ OpenOutput(u) \/ Succeed(u)
               \/ Fail(u) \/ Die(u) \/ Watchdog(u)
        PROVE  task' = task /\ up
    BY <1>7 DEF PutPending, OpenOutput, Succeed, Fail, Die, Watchdog
  <1>8. ASSUME UNCHANGED queueVars PROVE task' = task /\ up
    BY <1>8 DEF queueVars
  <1>9. ~EngineDies
    BY DEF EngineDies
  <1>10. \/ \E u \in Tasks : Submit(u) \/ Cancel(u)
         \/ Start \/ Finish
         \/ task' = task /\ up
    BY <1>6, <1>7, <1>8, <1>9 DEF QueueNext, QueueInternal, Worker
  <1> HIDE DEF Goal
  <1>11. Goal
    BY <1>0, <1>2, <1>3, <1>4, <1>5, <1>10
  <1> QED BY <1>11 DEF Goal

-----------------------------------------------------------------------------
(* The queue implements its contract.                                        *)

\* The worker ends a task as cancelled only if its cancel event is set, and stays set.
CancelAsked ==
  /\ worker.at \in {"idle", "taken", "executing"} => worker.ending = "failed"
  /\ worker.at \in InHand /\ worker.ending = "cancelled" => task[worker.task].cancel = "set"

LEMMA CancelStaysAsked ==
    ASSUME QInv, QInv', CancelAsked, [QueueNext]_queueVars
    PROVE  CancelAsked'
  <1>1. ASSUME worker' = worker PROVE CancelAsked'
    <2> SUFFICES ASSUME worker.at \in InHand, task[worker.task].cancel = "set"
                 PROVE  task'[worker.task].cancel = "set"
      BY <1>1 DEF CancelAsked
    <2>1. worker.task \in Tasks
      BY QueueAssumption DEF QInv, QueueTypeOK, WorkerHolds, InHand
    <2>2. up'
      BY <1>1 DEF QInv, Known, Idle, InHand
    <2>3. task'[worker.task].status = "running"
      BY <1>1 DEF QInv, WorkerHolds
    <2> QED BY <2>1, <2>2, <2>3, TasksGoOn DEF Ended, Terminal
  <1>2. ASSUME Take \/ Drop \/ Finish \/ EngineDies PROVE CancelAsked'
    <2>1. worker'.at \in {"idle", "taken"} /\ worker'.ending = "failed"
      <3>1. CASE Drop \/ Finish \/ EngineDies
        <4>1. worker' = Idle
          BY <3>1 DEF Drop, Finish, EngineDies
        <4> QED BY <4>1 DEF Idle
      <3>2. CASE Take
        <4>1. worker' = [at |-> "taken", task |-> Head(pending), ending |-> "failed"]
          BY <3>2 DEF Take, Idle
        <4> QED BY <4>1
      <3> QED BY <1>2, <3>1, <3>2
    <2> QED BY <2>1 DEF CancelAsked, InHand
  <1>3. ASSUME Start PROVE CancelAsked'
    BY <1>3 DEF Start, CancelAsked, QInv, QueueTypeOK
  <1>4. ASSUME ResultRead \/ TimedOut \/ ProcessGone PROVE CancelAsked'
    BY <1>4 DEF ResultRead, TimedOut, ProcessGone, Leaves, CancelAsked, QInv, QueueTypeOK
  <1>5. ASSUME CancelSeen PROVE CancelAsked'
    BY <1>5 DEF CancelSeen, Leaves, CancelAsked, QInv, QueueTypeOK
  <1>6. ASSUME DiscardOutput \/ StopWorker PROVE CancelAsked'
    BY <1>6 DEF DiscardOutput, StopWorker, CancelAsked, QInv, QueueTypeOK, InHand
  <1>7. ASSUME NEW t \in Tasks,
               \/ PutPending(t) \/ OpenOutput(t) \/ Succeed(t) \/ Fail(t) \/ Die(t)
               \/ Watchdog(t) \/ Submit(t) \/ Cancel(t)
        PROVE  worker' = worker
    BY <1>7 DEF PutPending, OpenOutput, Succeed, Fail, Die, Watchdog, Submit, Cancel
  <1>8. ASSUME UNCHANGED queueVars PROVE worker' = worker
    BY <1>8 DEF queueVars
  <1> QED BY <1>1, <1>2, <1>3, <1>4, <1>5, <1>6, <1>7, <1>8
          DEF QueueNext, QueueInternal, Worker

\* What the contract sees of a step that changes one render, or one process.
LEMMA StageChanges ==
    ASSUME NEW t \in Tasks, NEW s, task'[t].status = s,
           \A u \in Tasks \ {t} : task'[u].status = task[u].status
    PROVE  StageOf(task)' = [StageOf(task) EXCEPT ![t] = s]
  BY DEF StageOf

LEMMA AskedChanges ==
    ASSUME NEW t \in Tasks, \A u \in Tasks \ {t} : task'[u].cancel = task[u].cancel
    PROVE  /\ task'[t].cancel = "set" => AskedOf(task)' = AskedOf(task) \cup {t}
           /\ task'[t].cancel # "set" => AskedOf(task)' = AskedOf(task) \ {t}
           /\ task[t].cancel # "set" => AskedOf(task) \ {t} = AskedOf(task)
  BY DEF AskedOf

LEMMA WritingChanges ==
    ASSUME QInv, NEW t \in Tasks, NEW s, proc' = [proc EXCEPT ![t] = s]
    PROVE  /\ s \in Rendering => WritingOf(proc)' = WritingOf(proc) \cup {t}
           /\ s \notin Rendering => WritingOf(proc)' = WritingOf(proc) \ {t}
           /\ t \in WritingOf(proc) <=> proc[t] \in Rendering
  <1>1. proc'[t] = s /\ \A u \in Tasks \ {t} : proc'[u] = proc[u]
    BY DEF QInv, QueueTypeOK
  <1> QED BY <1>1 DEF WritingOf

LEMMA SubmitImplements ==
    ASSUME QInv, NEW t \in Tasks, Submit(t)
    PROVE  Contract!Accept(t)
  <1>1. /\ up /\ task[t] = NoEntry /\ UNCHANGED <<proc, file, up>>
        /\ task' = [task EXCEPT ![t] = NewEntry]
    BY DEF Submit
  <1>2. /\ task'[t].status = "queued" /\ task'[t].cancel = "clear"
        /\ task[t].status = "none" /\ task[t].cancel = "none"
        /\ \A u \in Tasks \ {t} : task'[u] = task[u]
    BY <1>1 DEF QInv, QueueTypeOK, NewEntry, NoEntry
  <1>3. StageOf(task)' = [StageOf(task) EXCEPT ![t] = "queued"] /\ StageOf(task)[t] = "none"
    BY <1>2, StageChanges DEF StageOf
  <1>4. AskedOf(task)' = AskedOf(task)
    BY <1>2, AskedChanges
  <1>5. WritingOf(proc)' = WritingOf(proc)
    BY <1>1 DEF WritingOf
  <1> QED BY <1>1, <1>3, <1>4, <1>5 DEF Contract!Accept

\* Cancelling withdraws a queued task, asks a running one, and else does nothing.
LEMMA CancelImplements ==
    ASSUME QInv, QInv', NEW t \in Tasks, Cancel(t)
    PROVE  Contract!Withdraw(t) \/ Contract!Ask(t) \/ UNCHANGED Contract!vars
  <1>1. up /\ UNCHANGED <<proc, file, up>> /\ WritingOf(proc)' = WritingOf(proc)
    BY DEF Cancel, WritingOf
  <1>2. CASE task[t].status = "queued"
    <2>1. Open(t) /\ Retain(t, "cancelled") /\ "cancelled" \in Terminal
      BY <1>2 DEF Open, Cancel, Terminal
    <2>2. /\ task'[t].status = "cancelled"
          /\ \A u \in Tasks \ {t} :
               task'[u].status = task[u].status /\ task'[u].cancel = task[u].cancel
      BY <2>1, RetainEnds
    <2>3. task'[t].cancel = "none" /\ task[t].cancel = "clear"
      BY <1>2, <2>2 DEF QInv, RetainedBounded, NeverStranded, Ended, Terminal
    <2>4. AskedOf(task)' = AskedOf(task)
      BY <2>2, <2>3, AskedChanges
    <2>5. /\ StageOf(task)' = [StageOf(task) EXCEPT ![t] = "cancelled"]
          /\ StageOf(task)[t] = "queued"
      BY <1>2, <2>2, StageChanges DEF StageOf
    <2> QED BY <1>1, <2>4, <2>5 DEF Contract!Withdraw
  <1>3. CASE task[t].status = "running"
    <2>1. task' = [task EXCEPT ![t].cancel = "set"]
      BY <1>3 DEF Cancel
    <2>2. /\ task'[t].status = "running" /\ task'[t].cancel = "set"
          /\ \A u \in Tasks \ {t} : task'[u] = task[u]
      BY <1>3, <2>1 DEF QInv, QueueTypeOK, Entry
    <2>3. AskedOf(task)' = AskedOf(task) \cup {t}
      BY <2>2, AskedChanges
    <2>4. StageOf(task)' = StageOf(task) /\ StageOf(task)[t] = "running"
      BY <1>3, <2>2 DEF StageOf
    <2> QED BY <1>1, <2>3, <2>4 DEF Contract!Ask
  <1>4. CASE task[t].status \notin {"queued", "running"}
    <2>1. UNCHANGED task
      BY <1>4 DEF Cancel
    <2> QED BY <1>1, <2>1 DEF Contract!vars, StageOf, AskedOf
  <1> QED BY <1>2, <1>3, <1>4

\* The task the worker starts is queued, and no other runs or writes.
LEMMA StartImplements ==
    ASSUME QInv, Start
    PROVE  Contract!Begin(worker.task)
  <1> DEFINE t == worker.task
  <1>1. t \in Tasks /\ worker.at = "taken" /\ task[t].cancel = "clear" /\ task[t].request
    BY QueueAssumption DEF QInv, QueueTypeOK, WorkerHolds, Start
  <1>2. /\ task' = [task EXCEPT ![t].status = "running"] /\ UNCHANGED <<file, up>>
        /\ proc' = proc \/ proc' = [proc EXCEPT ![t] = "preparing"]
    BY DEF Start
  <1>3. up /\ \A u \in Tasks : task[u].status # "running" /\ proc[u] \notin Rendering
    BY <1>1 DEF QInv, Known, Idle, NeverStranded, ProcessHeld, At
  <1>4. task[t].status = "queued"
    <2>1. task[t].status \in Terminal \cup {"none", "queued", "running"}
      BY <1>1 DEF QInv, QueueTypeOK, Entry
    <2>2. task[t].status # "none" /\ ~Ended(t)
      BY <1>1 DEF QInv, Known, NoEntry, RetainedBounded
    <2> QED BY <1>1, <1>3, <2>1, <2>2 DEF Ended
  <1> HIDE DEF t
  <1>5. /\ task'[t].status = "running" /\ task'[t].cancel = "clear"
        /\ \A u \in Tasks \ {t} : task'[u] = task[u]
    BY <1>1, <1>2 DEF QInv, QueueTypeOK, Entry
  <1>6. StageOf(task)' = [StageOf(task) EXCEPT ![t] = "running"]
    BY <1>1, <1>5, StageChanges
  <1>7. AskedOf(task)' = AskedOf(task)
    BY <1>1, <1>5, AskedChanges
  <1>8. WritingOf(proc) = {} /\ WritingOf(proc)' \in {{}, {t}}
    <2>1. WritingOf(proc) = {}
      BY <1>3 DEF WritingOf
    <2>2. CASE proc' = proc
      BY <2>1, <2>2 DEF WritingOf
    <2>3. CASE proc' = [proc EXCEPT ![t] = "preparing"]
      BY <1>1, <2>1, <2>3, WritingChanges DEF Rendering
    <2> QED BY <1>2, <2>1, <2>2, <2>3
  <1>9. StageOf(task)[t] = "queued" /\ \A u \in Tasks : StageOf(task)[u] # "running"
    BY <1>1, <1>3, <1>4 DEF StageOf
  <1> QED BY <1>2, <1>3, <1>6, <1>7, <1>8, <1>9 DEF Contract!Begin, t

\* What the worker removes, it removes for the task it has in hand.
LEMMA DiscardImplements ==
    ASSUME QInv, DiscardOutput
    PROVE  Contract!Clear(worker.task) \/ UNCHANGED Contract!vars
  <1>1. worker.task \in Tasks /\ task[worker.task].status = "running" /\ up
    BY QueueAssumption DEF QInv, QueueTypeOK, WorkerHolds, InHand, Known, Idle, DiscardOutput
  <1>2. file' \in {file, NoFile} /\ UNCHANGED <<task, proc, up>>
    BY DEF DiscardOutput
  <1>3. /\ StageOf(task)' = StageOf(task) /\ AskedOf(task)' = AskedOf(task)
        /\ WritingOf(proc)' = WritingOf(proc) /\ StageOf(task)[worker.task] = "running"
    BY <1>1, <1>2 DEF StageOf, AskedOf, WritingOf
  <1> QED BY <1>1, <1>2, <1>3 DEF Contract!Clear, Contract!vars, Contract!Nothing, NoFile

LEMMA StopImplements ==
    ASSUME QInv, StopWorker
    PROVE  Contract!Quit(worker.task) \/ UNCHANGED Contract!vars
  <1> DEFINE t == worker.task
  <1>1. t \in Tasks /\ UNCHANGED <<task, file, up>>
    BY QueueAssumption DEF QInv, QueueTypeOK, WorkerHolds, StopWorker
  <1>2. PICK state \in Stopped(proc[t]) : proc' = [proc EXCEPT ![t] = state]
    BY DEF StopWorker
  <1> HIDE DEF t
  <1>3. StageOf(task)' = StageOf(task) /\ AskedOf(task)' = AskedOf(task)
    BY <1>1 DEF StageOf, AskedOf
  <1>4. CASE proc[t] \in Rendering
    <2>1. state \notin Rendering
      BY <1>2, <1>4 DEF Stopped, Rendering
    <2>2. t \in WritingOf(proc) /\ WritingOf(proc)' = WritingOf(proc) \ {t}
      BY <1>1, <1>2, <1>4, <2>1, WritingChanges
    <2> QED BY <1>1, <1>3, <2>2 DEF Contract!Quit, t
  <1>5. CASE proc[t] \notin Rendering
    <2>1. proc' = proc
      BY <1>1, <1>2, <1>5 DEF Stopped, QInv, QueueTypeOK
    <2> QED BY <1>1, <1>3, <2>1 DEF Contract!vars, WritingOf
  <1> QED BY <1>4, <1>5

\* A task ends as the worker found: its process writes no more, a success is over
\* the whole file, a cancel was asked.
LEMMA FinishImplements ==
    ASSUME QInv, QInv', CancelAsked, Finish
    PROVE  Contract!End(worker.task)
  <1> DEFINE t == worker.task
             ending == worker.ending
  <1>1. /\ t \in Tasks /\ worker.at = "finishing" /\ task[t].status = "running"
        /\ ending \in Terminal /\ Open(t)
    BY QueueAssumption DEF QInv, QueueTypeOK, WorkerHolds, InHand, Finish, Open
  <1>2. UNCHANGED <<proc, file, up>> /\ WritingOf(proc)' = WritingOf(proc)
    BY DEF Finish, WritingOf
  <1>3. up /\ t \notin WritingOf(proc)
    BY <1>1 DEF QInv, Known, Idle, ProcessHeld, At, WritingOf
  <1>4. ending = "completed" => file = [by |-> t, holds |-> "whole"]
    BY <1>1 DEF QInv, ResultWhole, InHand
  <1>5. ending = "cancelled" => t \in AskedOf(task)
    BY <1>1 DEF CancelAsked, InHand, AskedOf
  <1>6. IF ending = "completed" THEN Release(t) ELSE Retain(t, ending)
    BY DEF Finish
  <1> HIDE DEF t, ending
  <1>7. /\ task'[t].status = ending
        /\ \A u \in Tasks \ {t} :
             task'[u].status = task[u].status /\ task'[u].cancel = task[u].cancel
    <2>1. CASE ending = "completed"
      BY <1>1, <1>6, <2>1 DEF Release, QInv, QueueTypeOK
    <2>2. CASE ending # "completed"
      BY <1>1, <1>6, <2>2, RetainEnds
    <2> QED BY <2>1, <2>2
  <1>8. task'[t].cancel = "none"
    BY <1>1, <1>7 DEF QInv, RetainedBounded, Ended
  <1>9. AskedOf(task)' = AskedOf(task) \ {t}
    BY <1>1, <1>7, <1>8, AskedChanges
  <1>10. StageOf(task)' = [StageOf(task) EXCEPT ![t] = ending] /\ StageOf(task)[t] = "running"
    BY <1>1, <1>7, StageChanges DEF StageOf
  <1> QED BY <1>1, <1>2, <1>3, <1>4, <1>5, <1>9, <1>10
          DEF Contract!End, Contract!Whole, Terminal, t

\* A process writes the destination from when it opens it until it ends.
LEMMA ProcessImplements ==
    ASSUME QInv, NEW t \in Tasks,
           OpenOutput(t) \/ Succeed(t) \/ Fail(t) \/ Die(t) \/ Watchdog(t)
    PROVE  Contract!Write(t) \/ Contract!Commit(t) \/ Contract!Quit(t)
  <1>1. UNCHANGED <<task, up>> /\ proc[t] \in Rendering
    BY DEF OpenOutput, Succeed, Fail, Die, Watchdog, Rendering
  <1>2. StageOf(task)' = StageOf(task) /\ AskedOf(task)' = AskedOf(task)
    BY <1>1 DEF StageOf, AskedOf
  <1>3. t \in WritingOf(proc)
    BY <1>1 DEF WritingOf
  <1>0. "completed" \notin Rendering /\ "failed" \notin Rendering /\ "dead" \notin Rendering
    BY DEF Rendering
  <1>4. CASE OpenOutput(t)
    <2>1. proc' = [proc EXCEPT ![t] = "writing"] /\ file' = [by |-> t, holds |-> "partial"]
      BY <1>4 DEF OpenOutput
    <2>2. WritingOf(proc)' = WritingOf(proc)
      BY <1>3, <2>1, WritingChanges DEF Rendering
    <2> QED BY <1>1, <1>2, <1>3, <2>1, <2>2 DEF Contract!Write, Contract!Partial
  <1>5. CASE Succeed(t)
    <2>1. /\ proc' = [proc EXCEPT ![t] = "completed"] /\ file.by = t
          /\ file' = [by |-> t, holds |-> "whole"]
      BY <1>5 DEF Succeed
    <2>2. WritingOf(proc)' = WritingOf(proc) \ {t}
      BY <1>0, <2>1, WritingChanges
    <2> QED BY <1>1, <1>2, <1>3, <2>1, <2>2 DEF Contract!Commit, Contract!Whole
  <1>6. CASE Fail(t) \/ Die(t) \/ Watchdog(t)
    <2>1. /\ proc' = [proc EXCEPT ![t] = "failed"] \/ proc' = [proc EXCEPT ![t] = "dead"]
          /\ file' \in {file, NoFile}
      BY <1>6 DEF Fail, Die, Watchdog
    <2>2. WritingOf(proc)' = WritingOf(proc) \ {t}
      <3>1. CASE proc' = [proc EXCEPT ![t] = "failed"]
        BY <1>0, <3>1, WritingChanges
      <3>2. CASE proc' = [proc EXCEPT ![t] = "dead"]
        BY <1>0, <3>2, WritingChanges
      <3> QED BY <2>1, <3>1, <3>2
    <2> QED BY <1>1, <1>2, <1>3, <2>1, <2>2 DEF Contract!Quit, Contract!Nothing, NoFile
  <1> QED BY <1>4, <1>5, <1>6

LEMMA DeathImplements ==
    ASSUME EngineDies
    PROVE  Contract!Crash
  <1>1. /\ up /\ up' = FALSE /\ UNCHANGED <<proc, file>>
        /\ task' = [t \in Tasks |-> NoEntry]
    BY DEF EngineDies
  <1>2. /\ StageOf(task)' = [t \in Tasks |-> "none"] /\ AskedOf(task)' = {}
        /\ WritingOf(proc)' = WritingOf(proc)
    BY <1>1 DEF StageOf, AskedOf, WritingOf, NoEntry
  <1> QED BY <1>1, <1>2 DEF Contract!Crash

LEMMA StepImplements ==
    ASSUME QInv, QInv', CancelAsked, [QueueNext]_queueVars
    PROVE  [Contract!Next]_(Contract!vars)
  <1>1. ASSUME UNCHANGED <<task, proc, file, up>> PROVE UNCHANGED Contract!vars
    BY <1>1 DEF Contract!vars, StageOf, AskedOf, WritingOf
  <1>2. ASSUME Take \/ Drop \/ ResultRead \/ CancelSeen \/ TimedOut \/ ProcessGone
               \/ UNCHANGED queueVars
        PROVE  UNCHANGED <<task, proc, file, up>>
    BY <1>2 DEF Take, Drop, ResultRead, CancelSeen, TimedOut, ProcessGone, Leaves, queueVars
  <1>3. ASSUME NEW t \in Tasks, PutPending(t) PROVE UNCHANGED <<task, proc, file, up>>
    BY <1>3 DEF PutPending
  <1>4. ASSUME Start \/ DiscardOutput \/ StopWorker \/ Finish
        PROVE  [Contract!Next]_(Contract!vars)
    <2>1. worker.task \in Tasks
      BY <1>4, QueueAssumption
         DEF QInv, QueueTypeOK, WorkerHolds, Start, DiscardOutput, StopWorker, Finish
    <2> QED BY <1>4, <2>1, StartImplements, DiscardImplements, StopImplements,
               FinishImplements DEF Contract!Next
  <1>5. ASSUME NEW t \in Tasks,
               \/ Submit(t) \/ Cancel(t) \/ OpenOutput(t) \/ Succeed(t) \/ Fail(t)
               \/ Die(t) \/ Watchdog(t)
        PROVE  [Contract!Next]_(Contract!vars)
    BY <1>5, SubmitImplements, CancelImplements, ProcessImplements DEF Contract!Next
  <1>6. ASSUME EngineDies PROVE Contract!Next
    BY <1>6, DeathImplements DEF Contract!Next
  <1> QED BY <1>1, <1>2, <1>3, <1>4, <1>5, <1>6 DEF QueueNext, QueueInternal, Worker

-----------------------------------------------------------------------------
(* The clients' steps.                                                       *)

\* A step of an export is a step of the queue, or leaves the queue alone.
LEMMA StepOfQueue ==
    ASSUME [Next]_vars
    PROVE  [QueueNext]_queueVars
  BY DEF Next, vars, QueueNext, StartExport, Abort, Accepted, SubmitFails, Poll, SeesEnd,
         SeesOpen, StatusFails, GivesUp, StopsWatching, CancelReturns, SubmitArrives,
         CancelArrives, Lose

LEMMA QueueKeeps ==
    ASSUME QInv, [QueueNext]_queueVars
    PROVE  QInv'
  BY InternalKeeps, SubmitKeeps, CancelKeeps, StutterKeeps DEF QueueNext

LEMMA ClientTypes ==
    ASSUME TypeOK, [Next]_vars
    PROVE  client' \in [Tasks -> Client] /\ net' \subseteq Requests
  <1>0. client \in [Tasks -> Client] /\ net \subseteq Requests
    BY DEF TypeOK
  <1>1. ASSUME UNCHANGED <<client, net>>
        PROVE  client' \in [Tasks -> Client] /\ net' \subseteq Requests
    BY <1>0, <1>1
  <1>2. ASSUME NEW t \in Tasks,
               \/ StartExport(t) \/ Abort(t) \/ Accepted(t) \/ SubmitFails(t) \/ Poll(t)
               \/ CancelReturns(t)
        PROVE  client' \in [Tasks -> Client] /\ net' \subseteq Requests
    <2>1. client[t] \in Client
      BY <1>0
    <2>0. 0 \in 0 .. MaxStrikes - 1
      BY StrikesAssumption
    <2>2. PICK c \in Client : client' = [client EXCEPT ![t] = c]
      <3>1. CASE StartExport(t)
        BY <2>1, <3>1 DEF StartExport, Goes, Client, Phases
      <3>2. CASE Abort(t)
        BY <2>1, <3>2 DEF Abort, Client
      <3>3. CASE Accepted(t)
        BY <2>1, <3>3 DEF Accepted, Client, Phases
      <3>4. CASE SubmitFails(t) \/ CancelReturns(t) \/ SeesEnd(t)
        BY <2>1, <3>4, StrikesAssumption DEF SubmitFails, CancelReturns, SeesEnd, Over,
                                             Client, Phases
      <3>5. CASE SeesOpen(t)
        BY <2>1, <2>0, <3>5 DEF SeesOpen, Client
      <3>6. CASE StatusFails(t)
        <4>1. client[t].strikes + 1 \in 0 .. MaxStrikes - 1
          BY <2>1, <3>6, StrikesAssumption DEF StatusFails, Struck, Client
        <4> QED BY <2>1, <3>6, <4>1 DEF StatusFails, Client
      <3>7. CASE GivesUp(t) \/ StopsWatching(t)
        BY <2>1, <3>7, StrikesAssumption DEF GivesUp, StopsWatching, AskCancel, Client,
                                             Phases
      <3> QED BY <1>2, <3>1, <3>2, <3>3, <3>4, <3>5, <3>6, <3>7 DEF Poll
    <2>3. net' \subseteq net \cup {<<"submit", t>>, <<"cancel", t>>}
      BY <1>2 DEF StartExport, Abort, Accepted, SubmitFails, Poll, CancelReturns, SeesEnd,
                  SeesOpen, StatusFails, GivesUp, StopsWatching, AskCancel
    <2> QED BY <1>0, <2>2, <2>3 DEF Requests
  <1>3. ASSUME NEW t \in Tasks, SubmitArrives(t) \/ CancelArrives(t)
        PROVE  client' \in [Tasks -> Client] /\ net' \subseteq Requests
    BY <1>0, <1>3 DEF SubmitArrives, CancelArrives
  <1>4. ASSUME NEW m \in net, Lose(m)
        PROVE  client' \in [Tasks -> Client] /\ net' \subseteq Requests
    <2>1. m[2] \in Tasks
      BY <1>0 DEF Requests
    <2>2. client' = client \/ client' = [client EXCEPT ![m[2]].lost = TRUE]
      BY <1>4 DEF Lose
    <2>3. [client[m[2]] EXCEPT !.lost = TRUE] \in Client
      <3>1. client[m[2]] \in Client
        BY <1>0, <2>1
      <3> QED BY <3>1 DEF Client
    <2>4. \/ client' = client
          \/ client' = [client EXCEPT ![m[2]] = [client[m[2]] EXCEPT !.lost = TRUE]]
      BY <2>2
    <2>5. client' \in [Tasks -> Client]
      BY <1>0, <2>1, <2>3, <2>4
    <2> QED BY <1>0, <1>4, <2>5 DEF Lose
  <1> QED BY <1>1, <1>2, <1>3, <1>4 DEF Next, vars

LEMMA ClientKeeps ==
    ASSUME IInv, [Next]_vars
    PROVE  ClientHolds'
  <1> SUFFICES ASSUME NEW t \in Tasks
               PROVE  /\ client'[t].phase \in {"new", "submit"} => ~client'[t].id
                      /\ client'[t].id /\ up' => task'[t].status # "none"
                      /\ client'[t].id /\ up' /\ client'[t].phase \in {"cancel", "over"} =>
                           Covered(t)'
    BY DEF ClientHolds
  <1>0. /\ client \in [Tasks -> Client] /\ client[t] \in Client
        /\ client[t].phase \in {"new", "submit"} => ~client[t].id
        /\ client[t].id /\ up => task[t].status # "none"
        /\ client[t].id /\ up /\ client[t].phase \in {"cancel", "over"} => Covered(t)
    BY DEF IInv, TypeOK, ClientHolds
  <1>1. up' => /\ up
               /\ Ended(t) => Ended(t)'
               /\ task[t].status # "none" => task'[t].status # "none"
               /\ task[t].cancel = "set" => Ended(t)' \/ task'[t].cancel = "set"
    BY StepOfQueue, TasksGoOn DEF IInv, Ended
  <1> DEFINE Goal == /\ client'[t].phase \in {"new", "submit"} => ~client'[t].id
                     /\ client'[t].id /\ up' => task'[t].status # "none"
                     /\ client'[t].id /\ up' /\ client'[t].phase \in {"cancel", "over"} =>
                          Covered(t)'
  <1>2. ASSUME client'[t] = client[t], <<"cancel", t>> \in net => <<"cancel", t>> \in net'
        PROVE  Goal
    BY <1>0, <1>1, <1>2 DEF Covered
  <1>3. ASSUME UNCHANGED <<client, net>> PROVE Goal
    BY <1>2, <1>3
  <1>4. ASSUME NEW u \in Tasks, u # t,
               \/ StartExport(u) \/ Abort(u) \/ Accepted(u) \/ SubmitFails(u) \/ Poll(u)
               \/ CancelReturns(u)
        PROVE  Goal
    <2>1. client'[t] = client[t] /\ net \subseteq net'
      BY <1>0, <1>4 DEF StartExport, Goes, Abort, Accepted, SubmitFails, Over, Poll,
                        CancelReturns,
                  SeesEnd, SeesOpen, StatusFails, GivesUp, StopsWatching, AskCancel
    <2> QED BY <1>2, <2>1
  <1>5. CASE StartExport(t)
    BY <1>0, <1>1, <1>5 DEF StartExport, Goes, Client
  <1>6. CASE Accepted(t)
    BY <1>0, <1>1, <1>6 DEF Accepted, Client
  <1>7. CASE SubmitFails(t)
    BY <1>0, <1>1, <1>7 DEF SubmitFails, Over, Client
  <1>8. CASE SeesEnd(t)
    BY <1>0, <1>1, <1>8 DEF SeesEnd, Over, Client, Covered
  <1>9. CASE Abort(t) \/ SeesOpen(t) \/ StatusFails(t)
    BY <1>0, <1>1, <1>9 DEF Abort, SeesOpen, StatusFails, Client
  <1>10. CASE GivesUp(t) \/ StopsWatching(t)
    BY <1>0, <1>1, <1>10 DEF GivesUp, StopsWatching, AskCancel, Client, Covered
  <1>11. CASE CancelReturns(t)
    <2>1. /\ client' = [client EXCEPT ![t].phase = "over", ![t].strikes = 0, ![t].aborted = FALSE]
          /\ client[t].phase = "cancel" /\ net' = net
      BY <1>11 DEF CancelReturns, Over
    <2>2. /\ client'[t].phase = "over" /\ client'[t].id = client[t].id
          /\ client'[t].lost = client[t].lost
      BY <1>0, <2>1 DEF Client
    <2> QED BY <1>0, <1>1, <2>1, <2>2 DEF Covered
  <1>12. ASSUME NEW u \in Tasks, SubmitArrives(u) PROVE Goal
    <2>1. client'[t] = client[t] /\ <<"submit", u>> # <<"cancel", t>>
          /\ net' = net \ {<<"submit", u>>}
      BY <1>12 DEF SubmitArrives
    <2> QED BY <1>2, <2>1
  <1>13. ASSUME NEW u \in Tasks, CancelArrives(u), u # t PROVE Goal
    BY <1>2, <1>13 DEF CancelArrives
  <1>14. CASE CancelArrives(t)
    <2>1. Cancel(t) /\ client' = client
      BY <1>14 DEF CancelArrives
    <2>2. Ended(t)' \/ task'[t].cancel = "set"
      <3>1. CASE task[t].status = "queued"
        <4>1. Retain(t, "cancelled") /\ Open(t) /\ "cancelled" \in Terminal
          BY <2>1, <3>1 DEF Cancel, Open, Terminal
        <4>2. task'[t].status = "cancelled"
          BY <4>1, RetainEnds DEF IInv
        <4> QED BY <4>2 DEF Ended, Terminal
      <3>2. CASE task[t].status = "running"
        BY <2>1, <3>2 DEF Cancel, IInv, QInv, QueueTypeOK, Entry
      <3>3. CASE task[t].status \notin {"queued", "running"}
        <4>1. task' = task /\ task[t].status # "none" /\ task[t] \in Entry
          BY <2>1, <3>3 DEF Cancel, IInv, QInv, QueueTypeOK
        <4> QED BY <3>3, <4>1 DEF Entry, Ended
      <3> QED BY <3>1, <3>2, <3>3
    <2> QED BY <1>0, <1>1, <2>1, <2>2 DEF Covered
  <1>15. ASSUME NEW m \in net, Lose(m) PROVE Goal
    <2>1. CASE m = <<"cancel", t>>
      <3>1. client' = [client EXCEPT ![t].lost = TRUE]
        BY <1>15, <2>1 DEF Lose
      <3>2. /\ client'[t].phase = client[t].phase /\ client'[t].id = client[t].id
            /\ client'[t].lost
        BY <1>0, <3>1 DEF Client
      <3> QED BY <1>0, <1>1, <3>2 DEF Covered
    <2>2. CASE m # <<"cancel", t>>
      <3>1. \/ client'[t] = client[t]
            \/ client'[t] = [client[t] EXCEPT !.lost = TRUE]
        BY <1>0, <1>15 DEF Lose
      <3>2. /\ client'[t].phase = client[t].phase /\ client'[t].id = client[t].id
            /\ client[t].lost => client'[t].lost
        BY <1>0, <3>1 DEF Client
      <3>3. <<"cancel", t>> \in net => <<"cancel", t>> \in net'
        BY <1>15, <2>2 DEF Lose
      <3> QED BY <1>0, <1>1, <3>2, <3>3 DEF Covered
    <2> QED BY <2>1, <2>2
  <1> HIDE DEF Goal
  <1>16. CASE \E u \in Tasks :
                \/ StartExport(u) \/ Abort(u) \/ Accepted(u) \/ SubmitFails(u) \/ Poll(u)
                \/ CancelReturns(u)
    <2>1. PICK u \in Tasks :
                \/ StartExport(u) \/ Abort(u) \/ Accepted(u) \/ SubmitFails(u) \/ Poll(u)
                \/ CancelReturns(u)
      BY <1>16
    <2>2. CASE u # t
      BY <1>4, <2>1, <2>2 DEF Goal
    <2>3. CASE u = t
      BY <1>5, <1>6, <1>7, <1>8, <1>9, <1>10, <1>11, <2>1, <2>3 DEF Poll, Goal
    <2> QED BY <2>2, <2>3
  <1>17. Goal
    BY <1>3, <1>12, <1>13, <1>14, <1>15, <1>16 DEF Next, vars, Goal
  <1> QED BY <1>17 DEF Goal

-----------------------------------------------------------------------------
(* The theorems.                                                             *)

\* The inductive invariant holds initially.
LEMMA Initially == Init => IInv
  <1> SUFFICES ASSUME Init PROVE IInv
    OBVIOUS
  <1>1. QInv
    BY QueueStarts DEF Init
  <1>2. client \in [Tasks -> Client] /\ net \subseteq Requests
    BY StrikesAssumption DEF Init, NewClient, Client, Phases
  <1>3. ClientHolds
    <2> SUFFICES ASSUME NEW t \in Tasks
                 PROVE  client[t].phase \notin {"cancel", "over"} /\ ~client[t].id
      BY Zenon DEF ClientHolds
    <2>1. client[t] = NewClient
      BY DEF Init
    <2> QED BY <2>1 DEF NewClient
  <1> QED BY <1>1, <1>2, <1>3 DEF IInv, TypeOK, QInv

\* Every step of the queue, its processes and its clients keeps it.
LEMMA Inductive == IInv /\ [Next]_vars => IInv'
  <1> SUFFICES ASSUME IInv, [Next]_vars PROVE IInv'
    OBVIOUS
  <1>1. QInv'
    BY StepOfQueue, QueueKeeps DEF IInv
  <1>2. client' \in [Tasks -> Client] /\ net' \subseteq Requests
    BY ClientTypes DEF IInv
  <1>3. ClientHolds'
    BY ClientKeeps
  <1> QED BY <1>1, <1>2, <1>3 DEF IInv, TypeOK, QInv

\* The inductive invariant holds of every reachable state.
THEOREM Invariance == Spec => []IInv
  BY Initially, Inductive, PTL DEF Spec

\* Every reachable state of the queue and its clients is well typed.
THEOREM TypeCorrect == Spec => []TypeOK
  <1>1. IInv => TypeOK
    BY DEF IInv
  <1> QED BY <1>1, Invariance, PTL

\* A queued task has all it needs to run and is on its way to the worker; a
\* running one is in the worker's hands.
THEOREM NoTaskStranded == Spec => []NeverStranded
  <1>1. IInv => NeverStranded
    BY DEF IInv, QInv
  <1> QED BY <1>1, Invariance, PTL

\* The queue keeps the requests of at most RetryLimit ended tasks.
THEOREM RetentionBounded == Spec => []RetainedBounded
  <1>1. IInv => RetainedBounded
    BY DEF IInv, QInv
  <1> QED BY <1>1, Invariance, PTL

\* A task that has ended has no process that still writes.
THEOREM EndedHasStopped == Spec => []EndMeansStopped
  <1>1. ASSUME IInv PROVE EndMeansStopped
    <2> SUFFICES ASSUME NEW t \in Tasks, Ended(t), proc[t] \in Rendering PROVE FALSE
      BY DEF EndMeansStopped
    <2>1. up
      BY <1>1 DEF IInv, QInv, Known, Ended, NoEntry, Terminal
    <2>2. At(t, {"executing", "discarding", "stopping"})
      BY <1>1, <2>1 DEF IInv, QInv, ProcessHeld
    <2>3. task[t].status = "running"
      BY <1>1, <2>2 DEF IInv, QInv, WorkerHolds, At, InHand
    <2> QED BY <2>3 DEF Ended, Terminal
  <1> QED BY <1>1, Invariance, PTL

\* At most one process renders at any time.
THEOREM OneRenderAtATime == Spec => []OneRender
  <1>1. IInv => OneRender
    BY DEF IInv, QInv
  <1> QED BY <1>1, Invariance, PTL

\* A render whose client is gone has ended, knows that it is cancelled, or is
\* about to, unless its cancel was lost or the engine died.
THEOREM NoRenderLeftRunning == Spec => []NoneLeftRunning
  <1>1. IInv => NoneLeftRunning
    BY DEF IInv, ClientHolds, NoneLeftRunning, Covered
  <1> QED BY <1>1, Invariance, PTL

\* While the engine lives, a task that has ended stays as it ended.
THEOREM EndingsStand == Spec => EndingStands
  <1>1. ASSUME IInv, [Next]_vars
        PROVE  [\A t \in Tasks : up' /\ Ended(t) => task'[t].status = task[t].status]_queueVars
    BY <1>1, StepOfQueue, TasksGoOn DEF IInv
  <1> QED BY <1>1, Invariance, PTL DEF Spec, EndingStands

\* A render that is reported as completed has just left its whole file.
THEOREM CompletedLeavesWhole == Spec => CompletedIsWhole
  <1>1. ASSUME IInv, [Next]_vars
        PROVE  [\A t \in Tasks :
                  ~Ended(t) /\ task'[t].status = "completed" =>
                    file' = [by |-> t, holds |-> "whole"]]_queueVars
    <2> SUFFICES ASSUME NEW t \in Tasks, ~Ended(t), task'[t].status = "completed"
                 PROVE  file' = [by |-> t, holds |-> "whole"]
      OBVIOUS
    <2>1. up'
      BY <1>1, Inductive DEF IInv, QInv, Known, NoEntry
    <2> QED BY <1>1, <2>1, StepOfQueue, TasksGoOn DEF IInv
  <1> QED BY <1>1, Invariance, PTL DEF Spec, CompletedIsWhole

\* The worker's threads, the pending queue and the processes do together what the
\* contract promises, whatever requests, deaths and timeouts come in whatever order:
\* renders run one at a time, end once and only when nothing of them writes, as
\* completed only over their own whole file and as cancelled only if that was asked.
THEOREM RefinesContract == Spec => ImplementsContract
  <1>1. Init => Contract!Init /\ CancelAsked
    <2> SUFFICES ASSUME Init PROVE Contract!Init /\ CancelAsked
      OBVIOUS
    <2>1. /\ task = [t \in Tasks |-> NoEntry] /\ proc = [t \in Tasks |-> "none"]
          /\ worker = Idle /\ file \in {NoFile, EarlierExport} /\ up = TRUE
      BY DEF Init, QueueInit
    <2>2. /\ StageOf(task) = [t \in Tasks |-> "none"]
          /\ AskedOf(task) = {} /\ WritingOf(proc) = {}
      BY <2>1 DEF StageOf, AskedOf, WritingOf, NoEntry, Rendering
    <2>3. CancelAsked
      BY <2>1 DEF CancelAsked, Idle, InHand
    <2> QED BY <2>1, <2>2, <2>3
            DEF Contract!Init, Contract!Nothing, Contract!Whole, NoFile, EarlierExport
  <1>2. IInv /\ IInv' /\ CancelAsked /\ [Next]_vars =>
          CancelAsked' /\ [Contract!Next]_(Contract!vars)
    BY StepOfQueue, CancelStaysAsked, StepImplements DEF IInv
  <1> QED BY <1>1, <1>2, Invariance, PTL DEF Spec, ImplementsContract, Contract!Spec
=============================================================================
