----------------------- MODULE ProjectAuthorityProofs -----------------------
(* A theorem of ProjectAuthority, for every set of edits, readers,         *)
(* failures and bounds: a revision names one document.                     *)
EXTENDS ProjectAuthority, TLAPS

-----------------------------------------------------------------------------
(* Sequences                                                               *)

LEMMA Appended ==
    ASSUME NEW S, NEW s \in Seq(S), NEW e \in S
    PROVE  /\ Append(s, e) \in Seq(S)
           /\ \A j \in DOMAIN Append(s, e) :
                  Append(s, e)[j] = e \/ \E k \in DOMAIN s : Append(s, e)[j] = s[k]
  OBVIOUS

LEMMA Dequeued ==
    ASSUME NEW S, NEW s \in Seq(S), s # <<>>
    PROVE  /\ Tail(s) \in Seq(S)
           /\ Head(s) \in S
           /\ \A j \in DOMAIN Tail(s) : \E k \in DOMAIN s : Tail(s)[j] = s[k]
  <1>1. \A j \in DOMAIN Tail(s) : j + 1 \in DOMAIN s /\ Tail(s)[j] = s[j + 1]
    OBVIOUS
  <1> QED BY <1>1

LEMMA Removed ==
    ASSUME NEW S, NEW s \in Seq(S), NEW i \in DOMAIN s
    PROVE  /\ RemoveAt(s, i) \in Seq(S)
           /\ \A j \in DOMAIN RemoveAt(s, i) : \E k \in DOMAIN s : RemoveAt(s, i)[j] = s[k]
  <1> DEFINE before == SubSeq(s, 1, i - 1)
             after  == SubSeq(s, i + 1, Len(s))
  <1>1. i \in 1 .. Len(s) /\ Len(s) \in Nat
    OBVIOUS
  <1>2. /\ before \in Seq(S) /\ Len(before) = i - 1
        /\ \A j \in 1 .. i - 1 : before[j] = s[j]
    BY <1>1
  <1>3. /\ after \in Seq(S) /\ Len(after) = Len(s) - i
        /\ \A j \in 1 .. Len(s) - i : after[j] = s[i + j]
    BY <1>1
  <1> HIDE DEF before, after
  <1>4. RemoveAt(s, i) = before \o after
    BY DEF RemoveAt, before, after
  <1>5. before \o after \in Seq(S) /\ Len(before \o after) = Len(s) - 1
    BY <1>1, <1>2, <1>3
  <1>6. ASSUME NEW j \in DOMAIN (before \o after)
        PROVE  \E k \in DOMAIN s : (before \o after)[j] = s[k]
    <2>1. j \in 1 .. Len(s) - 1
      BY <1>5
    <2>2. CASE j <= i - 1
      <3>1. (before \o after)[j] = before[j]
        BY <1>2, <1>3, <2>1, <2>2
      <3> QED BY <1>1, <1>2, <2>1, <2>2, <3>1
    <2>3. CASE j > i - 1
      <3>1. (before \o after)[j] = after[j - (i - 1)]
        BY <1>1, <1>2, <1>3, <2>1, <2>3
      <3>2. j - (i - 1) \in 1 .. Len(s) - i /\ i + (j - (i - 1)) = j + 1
        BY <1>1, <2>1, <2>3
      <3>3. after[j - (i - 1)] = s[j + 1]
        BY <1>3, <3>2
      <3> QED BY <1>1, <2>1, <3>1, <3>3
    <2> QED BY <1>1, <2>1, <2>2, <2>3
  <1> QED BY <1>4, <1>5, <1>6

-----------------------------------------------------------------------------
(* Queues of messages.  What a message carries does not matter to the      *)
(* theorems, so the elements of a queue are not typed.                     *)

IsQueue(s) == \E S : s \in Seq(S)

LEMMA QueueAppended ==
    ASSUME NEW s, IsQueue(s), NEW e
    PROVE  IsQueue(Append(s, e)) /\ Range(Append(s, e)) \subseteq Range(s) \cup {e}
  <1>1. PICK S : s \in Seq(S)
    BY DEF IsQueue
  <1>2. s \in Seq(S \cup {e})
    BY <1>1
  <1> QED BY <1>2, Appended DEF IsQueue, Range

LEMMA QueueDequeued ==
    ASSUME NEW s, IsQueue(s), s # <<>>
    PROVE  IsQueue(Tail(s)) /\ Range(Tail(s)) \subseteq Range(s)
  BY Dequeued DEF IsQueue, Range

LEMMA QueueRemoved ==
    ASSUME NEW s, IsQueue(s), NEW i \in DOMAIN s
    PROVE  /\ IsQueue(RemoveAt(s, i)) /\ Range(RemoveAt(s, i)) \subseteq Range(s)
           /\ s[i] \in Range(s)
  BY Removed DEF IsQueue, Range

-----------------------------------------------------------------------------
(* The host's revision                                                     *)

(* The messages in flight are numbered by the host.                        *)
Numbered ==
    /\ IsQueue(inbox) /\ IsQueue(answer)
    /\ DOMAIN service = {"project", "history", "persisted", "revision"}
    /\ service.revision \in Nat
    /\ \A m \in Told : m.revision \in Nat

RevisionInv == Numbered /\ RevisionNamesDocument

LEMMA RevisionInit == Init => RevisionInv
  <1>1. Init => IsQueue(inbox) /\ IsQueue(answer)
    BY DEF Init, IsQueue
  <1>2. Init => Told = {}
    BY DEF Init, Told, Range
  <1> QED BY <1>1, <1>2 DEF Init, RevisionInv, Numbered, RevisionNamesDocument

Queues == IsQueue(inbox) /\ IsQueue(answer)

(* A step that tells the window nothing new and persists nothing.          *)
LEMMA Quiet ==
    ASSUME RevisionInv, Queues', Told' \subseteq Told,
           DOMAIN service' = DOMAIN service,
           service'.revision = service.revision, service'.persisted = service.persisted
    PROVE  RevisionInv'
  BY DEF RevisionInv, Numbered, RevisionNamesDocument, Queues

(* A step that records a document may tell the window of that document,    *)
(* under the revision it is recorded with.                                 *)
Advanced ==
    /\ DOMAIN service' = {"project", "history", "persisted", "revision"}
    /\ service'.revision = IF service'.persisted = service.persisted
                           THEN service.revision ELSE service.revision + 1

LEMMA RecordAdvances ==
    \A doc, entries : service' = RecordPersisted(doc, entries) =>
        Advanced /\ service'.persisted = doc
  BY DEF RecordPersisted, Advanced

LEMMA Recorded ==
    ASSUME RevisionInv, Queues', Advanced,
           \A m \in Told' : \/ m \in Told
                            \/ m.revision = service'.revision /\ m.doc = service'.persisted
    PROVE  RevisionInv'
  <1> DEFINE doc == service'.persisted
  <1>1. /\ DOMAIN service' = {"project", "history", "persisted", "revision"}
        /\ service'.revision = IF doc = service.persisted THEN service.revision
                                                          ELSE service.revision + 1
    BY DEF Advanced
  <1>2. service.revision \in Nat /\ \A m \in Told : m.revision \in Nat
    BY DEF RevisionInv, Numbered
  <1>3. Numbered'
    BY <1>1, <1>2 DEF Numbered, Queues
  <1>4. ASSUME NEW m \in Told, m.revision = service'.revision PROVE m.doc = doc
    BY <1>1, <1>2, <1>4 DEF RevisionInv, RevisionNamesDocument
  <1>5. ASSUME NEW m \in Told PROVE m.revision <= service'.revision
    BY <1>1, <1>2 DEF RevisionInv, RevisionNamesDocument
  <1>6. \A m \in Told' : m.revision <= service'.revision
    BY <1>1, <1>2, <1>5
  <1>7. \A m \in Told' : m.revision = service'.revision => m.doc = doc
    BY <1>4
  <1>8. ASSUME NEW m \in Told', NEW n \in Told', m.revision = n.revision
        PROVE  m.doc = n.doc
    <2>1. CASE m \in Told /\ n \in Told
      BY <1>8, <2>1 DEF RevisionInv, RevisionNamesDocument
    <2>2. CASE ~(m \in Told /\ n \in Told)
      BY <1>7, <1>8, <2>2
    <2> QED BY <2>1, <2>2
  <1> QED BY <1>1, <1>3, <1>6, <1>7, <1>8 DEF RevisionInv, RevisionNamesDocument

Telling(m) == m.kind = "changed" \/ (m.ok /\ m.how # "replayed")

LEMMA SameQueues ==
    ASSUME UNCHANGED <<inbox, answer>>
    PROVE  (Queues => Queues') /\ Told' = Told
  BY DEF Queues, Told, IsQueue, Range

LEMMA Answered ==
    ASSUME Queues, NEW message, Answer(message), inbox' = inbox
    PROVE  /\ Queues'
           /\ \A m \in Told' : m \in Told \/ (m = message /\ Telling(m))
  <1>1. IsQueue(answer') /\ Range(answer') \subseteq Range(answer) \cup {message}
    BY QueueAppended DEF Queues, Answer
  <1>2. IsQueue(inbox') /\ Range(inbox') = Range(inbox)
    BY DEF Queues
  <1> QED BY <1>1, <1>2 DEF Queues, Told, Telling

LEMMA Refusals ==
    ASSUME Queues, NEW kind, kind # "changed", Refuse(kind), inbox' = inbox
    PROVE  Queues' /\ Told' \subseteq Told
  <1>1. ~Telling(Refused(kind))
    BY DEF Telling, Refused
  <1>2. CASE Answer(Refused(kind))
    BY <1>1, <1>2, Answered
  <1>3. CASE UNCHANGED answer
    BY <1>3, SameQueues
  <1> QED BY <1>2, <1>3 DEF Refuse

LEMMA Delivery ==
    ASSUME Queues, NEW kind, Delivered(kind)
    PROVE  Queues' /\ Told' \subseteq Told /\ service' = service
  <1>1. /\ inbox # <<>> /\ inbox' = Tail(inbox)
        /\ answer' = answer /\ service' = service
    BY DEF Delivered, desktop
  <1>2. IsQueue(inbox') /\ Range(inbox') \subseteq Range(inbox)
    BY <1>1, QueueDequeued DEF Queues
  <1>3. IsQueue(answer') /\ Range(answer') = Range(answer)
    BY <1>1 DEF Queues
  <1> QED BY <1>1, <1>2, <1>3 DEF Queues, Told

LEMMA Sending ==
    ASSUME Queues, NEW i \in DOMAIN answer, Send(i)
    PROVE  Queues' /\ Told' \subseteq Told /\ service' = service
  <1>1. IsQueue(answer') /\ Range(answer') \subseteq Range(answer) /\ answer[i] \in Range(answer)
    BY QueueRemoved DEF Queues, Send
  <1>2. IsQueue(inbox') /\ Range(inbox') \subseteq Range(inbox) \cup {answer[i]}
    BY QueueAppended DEF Queues, Send
  <1>3. service' = service
    BY DEF Send
  <1> QED BY <1>1, <1>2, <1>3 DEF Queues, Told

(* No write is mistaken for a notification.                                *)
KindInv == "kind" \in DOMAIN op /\ op.kind # "changed"

LEMMA KindInit == Init => KindInv
  BY DEF Init, Idle, KindInv

LEMMA KindStep == KindInv /\ [Next]_vars => KindInv'
  <1> SUFFICES ASSUME KindInv, [Next]_vars PROVE KindInv'
    OBVIOUS
  <1>same. ASSUME UNCHANGED op PROVE KindInv'
    BY <1>same DEF KindInv
  <1>begun. ASSUME NEW kind \in {"save", "patch", "run"}, NEW doc, NEW entries, NEW expected,
                   BeginWrite(kind, doc, entries, expected)
            PROVE  KindInv'
    BY <1>begun DEF BeginWrite, KindInv
  <1>1. CASE Window
    BY <1>1, <1>same DEF Window, EditAsPatch, EditAsDocument, Persist, AskRun, AdoptChange,
                         SaveAnswered, PatchAccepted, PatchRejected, Delivered, desktop
  <1>2. CASE Lane
    <2>1. CASE StartSave
      BY <1>same, <1>begun, <2>1 DEF StartSave, Decline
    <2>2. CASE StartPatch
      BY <1>begun, <2>2 DEF StartPatch
    <2>3. CASE ReplayPatch \/ InvalidPatch \/ BeginRun
      BY <1>same, <2>3 DEF ReplayPatch, InvalidPatch, BeginRun, Decline
    <2>4. ASSUME NEW e \in RunEdits, StartRunPatch(e) PROVE KindInv'
      BY <1>begun, <2>4 DEF StartRunPatch
    <2>5. CASE Publish \/ RecordBaseline
      BY <2>5 DEF Publish, RecordBaseline, KindInv
    <2>6. CASE PublishFails \/ Commit \/ CommitFails
      BY <2>6 DEF PublishFails, Commit, CommitFails, Idle, KindInv
    <2>7. ASSUME NEW i \in DOMAIN answer, Send(i) PROVE KindInv'
      BY <1>same, <2>7 DEF Send
    <2> QED BY <1>2, <2>1, <2>2, <2>3, <2>4, <2>5, <2>6, <2>7 DEF Lane
  <1>3. CASE Reads
    BY <1>3, <1>same DEF Reads, FlushReads, FlushEnds, ReadFile, ReadEnds
  <1>4. CASE Session
    BY <1>4, <1>same DEF Session, AgentReads, AgentOpens, AgentTool, AgentSaves,
                         AgentPublishes, AgentRecords, AgentSaved, AgentRefused,
                         AgentSteps
  <1>5. CASE UNCHANGED vars
    BY <1>5, <1>same DEF vars
  <1> QED BY <1>1, <1>2, <1>3, <1>4, <1>5 DEF Next

LEMMA RevisionStep == RevisionInv /\ KindInv /\ [Next]_vars => RevisionInv'
  <1> SUFFICES ASSUME RevisionInv, KindInv, [Next]_vars PROVE RevisionInv'
    OBVIOUS
  <1>q. Queues
    BY DEF RevisionInv, Numbered, Queues
  <1>quiet. ASSUME UNCHANGED <<service, inbox, answer>> PROVE RevisionInv'
    BY <1>q, <1>quiet, SameQueues, Quiet
  <1>1. CASE Window
    <2>1. CASE \E kind : Delivered(kind)
      BY <1>q, <2>1, Delivery, Quiet
    <2>2. CASE ~\E kind : Delivered(kind)
      <3>1. UNCHANGED <<service, inbox, answer>>
        BY <1>1, <2>2 DEF Window, EditAsPatch, EditAsDocument, Persist, AskRun,
                          AdoptChange, SaveAnswered, PatchAccepted, PatchRejected, desktop
      <3> QED BY <3>1, <1>quiet
    <2> QED BY <2>1, <2>2
  <1>2. CASE Lane
    <2>1. ASSUME NEW kind, NEW doc, NEW entries, NEW expected,
                 BeginWrite(kind, doc, entries, expected), UNCHANGED <<service, inbox>>
          PROVE  RevisionInv'
      BY <2>1, <1>quiet DEF BeginWrite
    <2>2. ASSUME NEW message, ~Telling(message), Decline(message),
                 UNCHANGED <<service, inbox>>
          PROVE  RevisionInv'
      BY <1>q, <2>2, Answered, Quiet DEF Decline
    <2>3. ~Telling(Refused("save")) /\ ~Telling(Refused("patch"))
      BY DEF Telling, Refused
    <2>4. ~Telling(Accepted("patch", service.project, service.revision, "replayed"))
      BY DEF Telling, Accepted
    <2>5. CASE StartSave
      BY <2>1, <2>2, <2>3, <2>5 DEF StartSave, Granted
    <2>6. CASE StartPatch
      BY <2>1, <2>6 DEF StartPatch, Granted
    <2>7. CASE ReplayPatch
      BY <2>2, <2>4, <2>7 DEF ReplayPatch, Granted
    <2>8. CASE InvalidPatch
      BY <2>2, <2>3, <2>8 DEF InvalidPatch, Granted
    <2>9. CASE BeginRun
      <3>1. UNCHANGED <<inbox, answer>>
        BY <2>9 DEF BeginRun
      <3>2. service' = service \/ service' = [service EXCEPT !.project = asked.run.doc]
        BY <2>9 DEF BeginRun
      <3>3. /\ DOMAIN service' = DOMAIN service
            /\ service'.revision = service.revision /\ service'.persisted = service.persisted
        BY <3>2 DEF RevisionInv, Numbered
      <3> QED BY <1>q, <3>1, <3>3, SameQueues, Quiet
    <2>10. ASSUME NEW e \in RunEdits, StartRunPatch(e) PROVE RevisionInv'
      BY <2>1, <2>10 DEF StartRunPatch
    <2>11. CASE Publish \/ RecordBaseline
      BY <1>quiet, <2>11 DEF Publish, RecordBaseline
    <2>12. CASE PublishFails
      <3>1. op.kind # "changed"
        BY DEF KindInv
      <3> QED BY <1>q, <2>12, <3>1, Refusals, Quiet DEF PublishFails
    <2>13. CASE Commit
      <3> DEFINE message == IF op.kind = "run"
                            THEN Changed(op.doc, service'.revision)
                            ELSE Accepted(op.kind, op.doc, service'.revision, op.how)
      <3>1. message.revision = service'.revision /\ message.doc = op.doc
        BY DEF Changed, Accepted
      <3>2. Answer(message) /\ inbox' = inbox
        BY <2>13 DEF Commit
      <3> HIDE DEF message
      <3>3. Queues' /\ \A m \in Told' : m \in Told \/ m = message
        BY <1>q, <3>2, Answered
      <3>4. Advanced /\ service'.persisted = op.doc
        BY <2>13, RecordAdvances DEF Commit
      <3> QED BY <3>1, <3>3, <3>4, Recorded
    <2>14. CASE CommitFails
      <3>1. op.kind # "changed"
        BY DEF KindInv
      <3>2. Queues' /\ Told' \subseteq Told
        BY <1>q, <2>14, <3>1, Refusals DEF CommitFails
      <3>3. CASE service' = service
        BY <3>2, <3>3, Quiet
      <3>4. CASE service' = RecordPersisted(op.doc, op.entries)
        BY <3>2, <3>4, RecordAdvances, Recorded
      <3> QED BY <2>14, <3>3, <3>4 DEF CommitFails
    <2>15. ASSUME NEW i \in DOMAIN answer, Send(i) PROVE RevisionInv'
      BY <1>q, <2>15, Sending, Quiet
    <2> QED BY <1>2, <2>5, <2>6, <2>7, <2>8, <2>9, <2>10, <2>11, <2>12, <2>13, <2>14,
               <2>15 DEF Lane
  <1>3. CASE Reads
    <2>1. CASE FlushReads
      BY <1>quiet, <2>1 DEF FlushReads
    <2>2. CASE FlushEnds
      <3>1. CASE UNCHANGED <<service, inbox>>
        BY <1>quiet, <2>2, <3>1 DEF FlushEnds
      <3>2. CASE ~UNCHANGED <<service, inbox>>
        <4> DEFINE text == watcher.flush
                   message == Changed(text, service'.revision)
        <4>1. service' = RecordPersisted(text, {}) /\ inbox' = Append(inbox, message)
          BY <2>2, <3>2 DEF FlushEnds
        <4>2. message.revision = service'.revision /\ message.doc = text
          BY DEF Changed
        <4> HIDE DEF text, message
        <4>3. IsQueue(inbox') /\ Range(inbox') \subseteq Range(inbox) \cup {message}
          BY <1>q, <4>1, QueueAppended DEF Queues
        <4>4. IsQueue(answer') /\ Range(answer') = Range(answer)
          BY <1>q, <2>2 DEF FlushEnds, Queues
        <4>5. Queues' /\ \A m \in Told' : m \in Told \/ m = message
          BY <4>3, <4>4 DEF Queues, Told
        <4>6. Advanced /\ service'.persisted = text
          BY <4>1, RecordAdvances
        <4> QED BY <4>2, <4>5, <4>6, Recorded
      <3> QED BY <3>1, <3>2
    <2>3. ASSUME NEW reader \in Readers, ReadFile(reader) \/ ReadEnds(reader)
          PROVE  RevisionInv'
      BY <1>quiet, <2>3 DEF ReadFile, ReadEnds
    <2> QED BY <1>3, <2>1, <2>2, <2>3 DEF Reads
  <1>4. CASE Session
    BY <1>quiet, <1>4 DEF Session, AgentReads, AgentOpens, AgentTool, AgentSaves,
                          AgentPublishes, AgentRecords, AgentSaved, AgentRefused,
                          AgentSteps
  <1>5. CASE UNCHANGED vars
    BY <1>quiet, <1>5 DEF vars
  <1> QED BY <1>1, <1>2, <1>3, <1>4, <1>5 DEF Next

(* A revision names one document, in every reachable state: two answers or *)
(* notifications that carry one revision carry the same document, and the  *)
(* newest revision names what the host recorded as persisted               *)
(* (recordPersisted).                                                      *)
THEOREM OneDocumentPerRevision == Spec => []RevisionNamesDocument
  <1>1. RevisionInv => RevisionNamesDocument
    BY DEF RevisionInv
  <1> QED BY RevisionInit, RevisionStep, KindInit, KindStep, <1>1, PTL DEF Spec

=============================================================================
