-------------------------- MODULE ProjectAuthority --------------------------
(***************************************************************************)
(* Who may write project.fp.json, and what each process believes it holds. *)
(*                                                                         *)
(* The desktop main process (ProjectCommandService, ProjectFileWatcher and *)
(* the project IPC handlers) and the MCP server edit the same file; the    *)
(* renderer edits a copy of it and sends the copy, or one patch at a time, *)
(* to the main process.  The processes share nothing but the file: each    *)
(* publishes by compare-and-swap on the content it last observed there,    *)
(* and the main process learns of the other's writes from a debounced      *)
(* filesystem event.                                                       *)
(*                                                                         *)
(* A document is the set of the edits it contains: what the properties are *)
(* about is which edits a copy holds, never what an edit does.  Undo is    *)
(* one more edit.                                                          *)
(***************************************************************************)
EXTENDS Naturals, Sequences, SequencesExt

CONSTANTS
    UserEdits,   \* edits made in the editor's window; each is made at most once
    RunEdits,    \* patches an AI run of the desktop proposes; each at most once
    AgentEdits,  \* edits made by an external agent through the MCP server
    Readers,     \* other handlers of the desktop that re-read the open project
    Failures,    \* what may fail: "write" before the rename, "records" after it
    MaxSaves,    \* bound on whole-document saves in flight at once
    MaxRevision, \* bound on the host's project revision
    MaxAgentReads, \* bound on open_project calls the agent has under way at once
    MaxAgentSaves, \* bound on its save_project calls under way at once
    None         \* no request, no run, no document

Edits == UserEdits \cup RunEdits \cup AgentEdits
Docs == SUBSET Edits

ASSUME EditsAssumption ==
    /\ UserEdits \cap RunEdits = {}
    /\ UserEdits \cap AgentEdits = {}
    /\ RunEdits \cap AgentEdits = {}
ASSUME FailuresAssumption == Failures \subseteq {"write", "records"}
ASSUME BoundsAssumption ==
    {MaxSaves, MaxRevision, MaxAgentReads, MaxAgentSaves} \subseteq Nat \ {0}
ASSUME NoneAssumption == \A doc \in Docs : doc # None

VARIABLES
    file,      \* the content of project.fp.json
    observed,  \* per process: the content it has proven it has seen there
    service,   \* the desktop's [project, history, persisted, revision]
    watcher,   \* [canonical, timer, flush]: the desktop's view of file events
    reading,   \* per other handler of the desktop: the content it is parsing
    op,        \* the write that holds the project's commit lane
    run,       \* the revision the AI run commits against, once it has begun
    asked,     \* requests of the renderer the main process has not taken up
    answer,    \* messages to the renderer whose handlers still have awaits ahead
    inbox,     \* messages on their way to the renderer
    renderer,  \* the window's document and its persistence state
    agent,     \* the MCP session: its document, its reads and saves under way, and
               \* whether the baseline is its document's (for the properties only)
    made       \* the edits somebody has made

vars == <<file, observed, service, watcher, reading, op, run, asked, answer,
          inbox, renderer, agent, made>>

desktop == <<service, watcher, reading, op, run, answer>>

-----------------------------------------------------------------------------
Idle == [kind |-> "none"]
Nothing == [saves |-> <<>>, patch |-> None, run |-> None]

(* recordPersisted: the revision advances when the persisted bytes change. *)
RecordPersisted(doc, entries) ==
    [project   |-> doc,
     history   |-> (service.history \cup entries) \cap doc,
     persisted |-> doc,
     revision  |-> IF doc = service.persisted THEN service.revision
                                              ELSE service.revision + 1]

Changed(doc, revision) == [kind |-> "changed", doc |-> doc, revision |-> revision]
Accepted(kind, doc, revision, how) ==
    [kind |-> kind, ok |-> TRUE, doc |-> doc, revision |-> revision, how |-> how]
Refused(kind) == [kind |-> kind, ok |-> FALSE]

Answer(message) == answer' = Append(answer, message)

(* A write that did not go through: the window is told; a run's patch is   *)
(* stale and its run is failed, without a word to the window.              *)
Refuse(kind) ==
    IF kind = "run" THEN run' = None /\ UNCHANGED answer
                    ELSE Answer(Refused(kind)) /\ UNCHANGED run

Init ==
    /\ file = {}
    /\ observed = [desktop |-> {}, agent |-> None]
    /\ service = [project |-> {}, history |-> {}, persisted |-> {}, revision |-> 1]
    /\ watcher = [canonical |-> {}, timer |-> FALSE, flush |-> None]
    /\ reading = [reader \in Readers |-> None]
    /\ op = Idle
    /\ run = None
    /\ asked = Nothing
    /\ answer = <<>>
    /\ inbox = <<>>
    /\ renderer = [doc |-> {}, revision |-> 1, owed |-> FALSE, saving |-> 0,
                   diverged |-> FALSE, lane |-> <<>>, authority |-> None]
    /\ agent = [open |-> FALSE, doc |-> {}, reading |-> <<>>, saves |-> <<>>,
                based |-> FALSE]
    /\ made = {}

-----------------------------------------------------------------------------
(* The renderer (App.tsx)                                                  *)

(* The head of the manual commit lane is the patch in flight.              *)
PatchRequest(lane, revision) ==
    IF lane = <<>> THEN None ELSE [edit |-> Head(lane), expected |-> revision]

(* handleEditorProjectChange, when the change is expressible as patches    *)
(* and the patch lane is open.                                             *)
EditAsPatch(e) ==
    /\ e \notin made
    /\ ~renderer.diverged
    /\ made' = made \cup {e}
    /\ renderer' = [renderer EXCEPT !.doc = @ \cup {e}, !.lane = Append(@, e)]
    /\ asked' = IF renderer.lane = <<>>
                THEN [asked EXCEPT !.patch = PatchRequest(<<e>>, renderer.revision)]
                ELSE asked
    /\ UNCHANGED <<file, observed, desktop, inbox, agent>>

(* A rename, a memory write, or any change while the lane is closed: a     *)
(* whole-document save is owed.                                            *)
EditAsDocument(e) ==
    /\ e \notin made
    /\ made' = made \cup {e}
    /\ renderer' = [renderer EXCEPT !.doc = @ \cup {e}, !.owed = TRUE]
    /\ UNCHANGED <<file, observed, desktop, asked, inbox, agent>>

Shown == [doc |-> renderer.doc, expected |-> renderer.revision]

\* Mutant: the save is not counted as in flight.
PersistUncounted ==
    /\ renderer.saving < MaxSaves
    /\ asked' = [asked EXCEPT !.saves = Append(@, Shown)]
    /\ renderer' = [renderer EXCEPT !.owed = FALSE]
    /\ UNCHANGED <<file, observed, desktop, inbox, agent, made>>

(* persist, when the autosave timer fires or the user saves: nothing keeps *)
(* a second one from starting while the first is awaited.                  *)
Persist ==
    /\ renderer.saving < MaxSaves
    /\ asked' = [asked EXCEPT !.saves = Append(@, Shown)]
    /\ renderer' = [renderer EXCEPT !.owed = FALSE, !.saving = @ + 1]
    /\ UNCHANGED <<file, observed, desktop, inbox, agent, made>>

(* The user starts an AI run: the request carries the live document.       *)
AskRun ==
    /\ RunEdits # {} /\ run = None /\ asked.run = None
    /\ asked' = [asked EXCEPT !.run = Shown]
    /\ UNCHANGED <<file, observed, desktop, inbox, renderer, agent, made>>

Delivered(kind) ==
    /\ inbox # <<>>
    /\ Head(inbox).kind = kind
    /\ inbox' = Tail(inbox)
    /\ UNCHANGED <<file, observed, desktop, agent, made>>

(* onProjectChanged: the window's document is replaced.                    *)
AdoptChange ==
    /\ Delivered("changed")
    /\ renderer' = [renderer EXCEPT !.doc = Head(inbox).doc,
                                    !.revision = Head(inbox).revision,
                                    !.owed = FALSE,
                                    !.diverged = FALSE]
    /\ UNCHANGED asked

(* persist, after its await.                                               *)
SaveAnswered ==
    /\ Delivered("save")
    /\ renderer' = IF Head(inbox).ok
                   THEN [renderer EXCEPT !.saving = @ - 1, !.diverged = FALSE,
                                         !.revision = Head(inbox).revision]
                   ELSE [renderer EXCEPT !.saving = @ - 1, !.owed = TRUE]
    /\ UNCHANGED asked

(* The commit lane, after the await of commitProjectPatch succeeded: the   *)
(* next patch goes out with the revision just learned, and a rebased       *)
(* document is adopted once the lane has drained.                          *)
PatchAccepted ==
    /\ Delivered("patch")
    /\ Head(inbox).ok
    /\ LET outcome == Head(inbox)
           rest == Tail(renderer.lane)
           authority == IF outcome.how = "rebased" \/ renderer.authority # None
                        THEN outcome.doc ELSE None
           adopt == rest = <<>> /\ authority # None
       IN /\ renderer' =
               [renderer EXCEPT !.revision = outcome.revision,
                                !.lane = rest,
                                !.authority = IF rest = <<>> THEN None ELSE authority,
                                !.doc = IF adopt THEN authority ELSE @,
                                !.owed = @ /\ ~adopt]
          /\ asked' = [asked EXCEPT !.patch = PatchRequest(rest, outcome.revision)]

(* reconcileDivergedLane: the lane is emptied and closed, and the whole    *)
(* document is pushed instead.                                             *)
PatchRejected ==
    /\ Delivered("patch")
    /\ ~Head(inbox).ok
    /\ renderer' = [renderer EXCEPT !.lane = <<>>, !.authority = None,
                                    !.diverged = TRUE,
                                    !.owed = FALSE, !.saving = @ + 1]
    /\ asked' = [asked EXCEPT !.saves = Append(@, Shown)]

-----------------------------------------------------------------------------
(* The desktop's commit lane (ProjectCommandService, projectSave and       *)
(* projectCommitPatch)                                                     *)

(* The request at the head of the lane is taken up.                        *)
Granted(queue, request) ==
    /\ op = Idle
    /\ asked' = [asked EXCEPT ![queue] = request]
    /\ UNCHANGED <<file, observed, service, reading, run, inbox, renderer, agent, made>>

(* markSelfWrite, then writeProjectFile: the document is declared to the   *)
(* watcher before it lands.                                                *)
BeginWrite(kind, doc, entries, expected) ==
    /\ service.revision < MaxRevision
    /\ op' = [kind |-> kind, doc |-> doc, entries |-> entries, step |-> "writing",
              how |-> IF expected = service.revision THEN "applied" ELSE "rebased"]
    /\ watcher' = [watcher EXCEPT !.canonical = doc]
    /\ UNCHANGED answer

Decline(message) ==
    /\ Answer(message)
    /\ UNCHANGED <<op, watcher>>

(* write: refused when the renderer saves against an older revision.       *)
StartSave ==
    /\ asked.saves # <<>>
    /\ Granted("saves", Tail(asked.saves))
    /\ LET save == Head(asked.saves) IN
         IF save.expected = service.revision
         THEN BeginWrite("save", save.doc, save.doc, save.expected)
         ELSE Decline(Refused("save"))

(* The patch is in the project's history and its effect is still there.    *)
Repeated(edit) == edit \in service.history \cap service.project

(* commitPatch on the document this process holds, whatever revision the   *)
(* patch was computed against.                                             *)
StartPatch ==
    /\ asked.patch # None
    /\ ~Repeated(asked.patch.edit)
    /\ Granted("patch", None)
    /\ BeginWrite("patch", service.project \cup {asked.patch.edit},
                  {asked.patch.edit}, asked.patch.expected)

(* A repeat whose effect is still in the project is a no-op.               *)
ReplayPatch ==
    /\ asked.patch # None
    /\ Repeated(asked.patch.edit)
    /\ Granted("patch", None)
    /\ Decline(Accepted("patch", service.project, service.revision, "replayed"))

(* The patch no longer validates: it overlaps edits it was not computed    *)
(* against, or a refreshed project has its effect already.                 *)
InvalidPatch ==
    /\ asked.patch # None
    /\ ~Repeated(asked.patch.edit)
    /\ \/ asked.patch.expected # service.revision
       \/ asked.patch.edit \in service.project
    /\ Granted("patch", None)
    /\ Decline(Refused("patch"))

(* aiStreamStart: refused on another revision; else the document the       *)
(* window showed, with the host's history, becomes the one patches are     *)
(* committed on.                                                           *)
BeginRun ==
    /\ asked.run # None
    /\ asked' = [asked EXCEPT !.run = None]
    /\ IF asked.run.expected = service.revision
       THEN /\ service' = [service EXCEPT !.project = asked.run.doc]
            /\ run' = service.revision
       ELSE UNCHANGED <<service, run>>
    /\ UNCHANGED <<file, observed, watcher, reading, op, answer, inbox,
                   renderer, agent, made>>

(* beforePublish: a patch of the run is committed as it arrives.           *)
StartRunPatch(e) ==
    /\ op = Idle
    /\ run # None
    /\ e \notin made
    /\ made' = made \cup {e}
    /\ BeginWrite("run", service.project \cup {e}, {e}, run)
    /\ UNCHANGED <<file, observed, service, reading, run, asked, inbox,
                   renderer, agent>>

(* assertPublishableOver and rename.  The one read plus one rename between *)
(* them, which the code leaves unguarded and says so, are one step here.   *)
Writing(step) == op # Idle /\ op.step = step

Publish ==
    /\ Writing("writing")
    /\ file = observed.desktop
    /\ file' = op.doc
    /\ op' = [op EXCEPT !.step = "landed"]
    /\ watcher' = [watcher EXCEPT !.timer = TRUE]
    /\ UNCHANGED <<observed, service, reading, run, asked, answer, inbox,
                   renderer, agent, made>>

(* ProjectFileConflictError, or a write that failed before its rename.     *)
PublishFails ==
    /\ Writing("writing")
    /\ file # observed.desktop \/ "write" \in Failures
    /\ Refuse(op.kind)
    /\ op' = Idle
    /\ UNCHANGED <<file, observed, service, watcher, reading, asked, inbox,
                   renderer, agent, made>>

(* The published content becomes this process's baseline.                  *)
RecordBaseline ==
    /\ Writing("landed")
    /\ observed' = [observed EXCEPT !.desktop = op.doc]
    /\ op' = [op EXCEPT !.step = "recorded"]
    /\ UNCHANGED <<file, service, watcher, reading, run, asked, answer, inbox,
                   renderer, agent, made>>

\* Mutant: the answer carries the revision from before the record.
CommitNumberedEarly ==
    /\ Writing("recorded")
    /\ service' = RecordPersisted(op.doc, op.entries)
    /\ Answer(Accepted(op.kind, op.doc, service.revision, op.how))
    /\ op' = Idle
    /\ UNCHANGED <<file, observed, watcher, reading, run, asked, inbox, renderer,
                   agent, made>>

(* recordPersisted and checkpoint.  The run's next patch is committed      *)
(* against the revision of this one, and the window learns of it by        *)
(* projectChanged.                                                         *)
Commit ==
    /\ Writing("recorded")
    /\ service' = RecordPersisted(op.doc, op.entries)
    /\ Answer(IF op.kind = "run"
              THEN Changed(op.doc, service'.revision)
              ELSE Accepted(op.kind, op.doc, service'.revision, op.how))
    /\ run' = IF op.kind = "run" THEN service'.revision ELSE run
    /\ op' = Idle
    /\ UNCHANGED <<file, observed, watcher, reading, asked, inbox, renderer,
                   agent, made>>

(* The recovery snapshot or the active-project record cannot be written,   *)
(* and recordPersisted is not reached; or the revision registry cannot be, *)
(* after it.  The request fails although its document has landed.          *)
CommitFails ==
    /\ Writing("recorded")
    /\ "records" \in Failures
    /\ service' \in {service, RecordPersisted(op.doc, op.entries)}
    /\ Refuse(op.kind)
    /\ op' = Idle
    /\ UNCHANGED <<file, observed, watcher, reading, asked, inbox, renderer,
                   agent, made>>

(* A handler's remaining awaits end and its message is sent.               *)
Send(i) ==
    /\ inbox' = Append(inbox, answer[i])
    /\ answer' = RemoveAt(answer, i)
    /\ UNCHANGED <<file, observed, service, watcher, reading, op, run, asked,
                   renderer, agent, made>>

-----------------------------------------------------------------------------
(* The desktop's reads (ProjectFileWatcher and readProjectFile)            *)

(* flush reads the file once the event burst has settled.  A read takes    *)
(* less than the debounce: two flushes do not overlap.                     *)
FlushReads ==
    /\ watcher.timer /\ watcher.flush = None
    /\ watcher' = [watcher EXCEPT !.timer = FALSE, !.flush = file]
    /\ UNCHANGED <<file, observed, service, reading, op, run, asked, answer, inbox,
                   renderer, agent, made>>

(* The read is parsed and becomes the baseline; content the watcher does   *)
(* not know is observed and pushed to the window.                          *)
FlushEnds ==
    /\ watcher.flush # None
    /\ service.revision < MaxRevision
    /\ LET text == watcher.flush IN
         /\ observed' = [observed EXCEPT !.desktop = text]
         /\ watcher' = [watcher EXCEPT !.flush = None, !.canonical = text]
         /\ IF text = watcher.canonical
            THEN UNCHANGED <<service, inbox>>
            ELSE /\ service' = RecordPersisted(text, {})
                 /\ inbox' = Append(inbox, Changed(text, service'.revision))
    /\ UNCHANGED <<file, reading, op, run, asked, answer, renderer, agent, made>>

(* Any other handler that re-reads the open project: tracking, capability  *)
(* packs, transcription.                                                   *)
ReadFile(reader) ==
    /\ reading[reader] = None
    /\ reading' = [reading EXCEPT ![reader] = file]
    /\ UNCHANGED <<file, observed, service, watcher, op, run, asked, answer, inbox,
                   renderer, agent, made>>

ReadEnds(reader) ==
    /\ reading[reader] # None
    /\ observed' = [observed EXCEPT !.desktop = reading[reader]]
    /\ reading' = [reading EXCEPT ![reader] = None]
    /\ UNCHANGED <<file, service, watcher, op, run, asked, answer, inbox, renderer,
                   agent, made>>

-----------------------------------------------------------------------------
(* The MCP server (EditorSession), whose only open document is the agent's *)
(* Calls of tools overlap: nothing but the lane of publishes to one path   *)
(* keeps them apart.                                                       *)

AgentSteps == UNCHANGED <<service, reading, op, run, asked, answer, inbox, renderer>>

(* openProject reads the file; also how the agent reloads after a refused  *)
(* save.                                                                   *)
AgentReads ==
    /\ Len(agent.reading) < MaxAgentReads
    /\ agent' = [agent EXCEPT !.reading = Append(@, file)]
    /\ AgentSteps /\ UNCHANGED <<file, observed, watcher, made>>

Orphaned(saves) == [i \in DOMAIN saves |-> [saves[i] EXCEPT !.current = FALSE]]

(* The read is parsed: it becomes the process's baseline and a new open    *)
(* document, which the saves under way are no longer saves of.             *)
AgentOpens(i) ==
    /\ agent' = [open |-> TRUE, doc |-> agent.reading[i], based |-> TRUE,
                 reading |-> RemoveAt(agent.reading, i),
                 saves |-> Orphaned(agent.saves)]
    /\ observed' = [observed EXCEPT !.agent = agent.reading[i]]
    /\ AgentSteps /\ UNCHANGED <<file, watcher, made>>

(* runTool with a mutating tool.                                           *)
AgentTool(e) ==
    /\ agent.open
    /\ e \notin made
    /\ made' = made \cup {e}
    /\ agent' = [agent EXCEPT !.doc = @ \cup {e}]
    /\ AgentSteps /\ UNCHANGED <<file, observed, watcher>>

(* saveProject captures the document it will write and enters the lane.    *)
AgentSaves ==
    /\ agent.open /\ Len(agent.saves) < MaxAgentSaves
    /\ agent' = [agent EXCEPT !.saves =
         Append(@, [doc |-> agent.doc, step |-> "writing", current |-> TRUE])]
    /\ AgentSteps /\ UNCHANGED <<file, observed, watcher, made>>

(* The save that holds the lane is at this step.                           *)
AgentWriting(step) == agent.saves # <<>> /\ Head(agent.saves).step = step

Landed ==
    [agent EXCEPT !.saves = <<[Head(@) EXCEPT !.step = "landed"]>> \o Tail(@)]

\* Mutant: the session's save does not compare before it renames.
AgentPublishesBlind ==
    /\ AgentWriting("writing")
    /\ file' = Head(agent.saves).doc
    /\ agent' = Landed
    /\ watcher' = [watcher EXCEPT !.timer = TRUE]
    /\ AgentSteps /\ UNCHANGED <<observed, made>>

(* assertPublishableOver and rename.                                       *)
AgentPublishes ==
    /\ AgentWriting("writing")
    /\ file = observed.agent
    /\ file' = Head(agent.saves).doc
    /\ agent' = Landed
    /\ watcher' = [watcher EXCEPT !.timer = TRUE]
    /\ AgentSteps /\ UNCHANGED <<observed, made>>

(* The published content becomes the baseline: that of the open document,  *)
(* unless another one was opened since.                                    *)
AgentRecords ==
    /\ AgentWriting("landed")
    /\ LET save == Head(agent.saves) IN
         /\ observed' = [observed EXCEPT !.agent = save.doc]
         /\ agent' = [agent EXCEPT !.based = save.current,
                        !.saves = <<[save EXCEPT !.step = "recorded"]>> \o Tail(@)]
    /\ AgentSteps /\ UNCHANGED <<file, watcher, made>>

(* The open document becomes the one that was written, whatever tools did  *)
(* to it meanwhile.                                                        *)
AgentSaved ==
    /\ AgentWriting("recorded")
    /\ LET save == Head(agent.saves) IN
         agent' = [agent EXCEPT !.doc = IF save.current THEN save.doc ELSE @,
                                !.saves = Tail(@)]
    /\ AgentSteps /\ UNCHANGED <<file, observed, watcher, made>>

AgentRefused ==
    /\ AgentWriting("writing")
    /\ file # observed.agent \/ "write" \in Failures
    /\ agent' = [agent EXCEPT !.saves = Tail(@)]
    /\ AgentSteps /\ UNCHANGED <<file, observed, watcher, made>>

-----------------------------------------------------------------------------
Window ==
    \/ \E e \in UserEdits : EditAsPatch(e) \/ EditAsDocument(e)
    \/ Persist \/ AskRun \/ AdoptChange \/ SaveAnswered \/ PatchAccepted \/ PatchRejected

Lane ==
    \/ StartSave \/ StartPatch \/ ReplayPatch \/ InvalidPatch
    \/ BeginRun \/ \E e \in RunEdits : StartRunPatch(e)
    \/ Publish \/ PublishFails \/ RecordBaseline \/ Commit \/ CommitFails
    \/ \E i \in DOMAIN answer : Send(i)

Reads ==
    \/ FlushReads \/ FlushEnds
    \/ \E reader \in Readers : ReadFile(reader) \/ ReadEnds(reader)

Session ==
    \/ AgentReads \/ AgentSaves \/ AgentPublishes \/ AgentRecords \/ AgentSaved
    \/ AgentRefused
    \/ \E i \in DOMAIN agent.reading : AgentOpens(i)
    \/ \E e \in AgentEdits : AgentTool(e)

Next == Window \/ Lane \/ Reads \/ Session

Spec == Init /\ [][Next]_vars

-----------------------------------------------------------------------------
Kinds == {"save", "patch"}
Messages ==
    [kind : {"changed"}, doc : Docs, revision : Nat] \cup
    [kind : Kinds, ok : {TRUE}, doc : Docs, revision : Nat,
     how : {"applied", "rebased", "replayed"}] \cup
    [kind : Kinds, ok : {FALSE}]
Views == [doc : Docs, expected : Nat]
Saves == [doc : Docs, step : {"writing", "landed", "recorded"}, current : BOOLEAN]

TypeOK ==
    /\ file \in Docs
    /\ observed \in [desktop : Docs, agent : {None} \cup Docs]
    /\ service \in [project : Docs, history : Docs, persisted : Docs, revision : Nat]
    /\ watcher \in [canonical : Docs, timer : BOOLEAN, flush : {None} \cup Docs]
    /\ reading \in [Readers -> {None} \cup Docs]
    /\ op \in {Idle} \cup [kind : Kinds \cup {"run"}, doc : Docs, entries : Docs,
                           step : {"writing", "landed", "recorded"},
                           how : {"applied", "rebased"}]
    /\ run \in {None} \cup Nat
    /\ asked \in [saves : Seq(Views),
                 patch : {None} \cup [edit : UserEdits, expected : Nat],
                 run : {None} \cup Views]
    /\ answer \in Seq(Messages)
    /\ inbox \in Seq(Messages)
    /\ renderer \in [doc : Docs, revision : Nat, owed : BOOLEAN, saving : Nat,
                    diverged : BOOLEAN, lane : Seq(UserEdits),
                    authority : {None} \cup Docs]
    /\ agent \in [open : BOOLEAN, doc : Docs, reading : Seq(Docs), saves : Seq(Saves),
                 based : BOOLEAN]
    /\ made \in Docs

(* The desktop's edits that are on disk survive a save of the external     *)
(* agent, however its calls overlap and whatever the desktop published     *)
(* meanwhile, if the save is one of the document that is still open and    *)
(* this process's baseline is that document's: the compare-and-swap sees   *)
(* every change but one that the session has crossed itself, by ending an  *)
(* open_project while a save was under way.                                *)
AgentErasesOnlyCrossed ==
    [][AgentPublishes /\ Head(agent.saves).current /\ agent.based
         => file \ AgentEdits \subseteq file']_vars

(* What session.ts says of every save: one that would overwrite someone    *)
(* else's newer edit is refused.  The code does not keep it, see the       *)
(* README.                                                                 *)
AgentNeverErases == [][AgentPublishes => file \ AgentEdits \subseteq file']_vars

(* The documents the host has told the window, or is about to tell it, it  *)
(* has on disk.  A replayed patch wrote none.                              *)
Told ==
    {m \in Range(inbox) \cup Range(answer) :
        m.kind = "changed" \/ (m.ok /\ m.how # "replayed")}

(* A revision names one document: whatever the order in which saves,       *)
(* patches, an agent's writes and failures reach the host, two messages    *)
(* under one revision carry the same document, and the newest revision     *)
(* names the one the host holds as persisted (recordPersisted).            *)
RevisionNamesDocument ==
    \A m \in Told :
        /\ m.revision <= service.revision
        /\ m.revision = service.revision => m.doc = service.persisted
        /\ \A n \in Told : m.revision = n.revision => m.doc = n.doc

(* A desktop save never erases an external agent's edit that is on disk    *)
(* (project-file.ts: it "publishes only over content this process has      *)
(* proven it has seen").                                                   *)
AgentEditsSurvive == [][file \cap AgentEdits \subseteq file']_vars

=============================================================================
