-------------------------- MODULE ReaderAnnotations --------------------------
(***************************************************************************)
(* The annotation editor of the reader page                                *)
(* (apps/omnia-reader/src/app/features/reader/reader-page.component.ts).   *)
(*                                                                         *)
(* The page holds the annotations it read from the library (shown), the    *)
(* engine holds the ones it draws, and every change goes through           *)
(* repository.saveAnnotation and syncJournal.append.  One flag             *)
(* (annotationBusy) admits one writer at a time; handlers that find it set *)
(* poll in waitForAnnotationIdle and give up when the editor was reset     *)
(* meanwhile (annotationEditorRevision).  A revision number is only ever   *)
(* compared with an earlier reading of itself, so the model keeps with each*)
(* waiter and with the writer whether the revision is still theirs.        *)
(*                                                                         *)
(* An await on the library or on the journal ends a step.  setAnnotations  *)
(* of both engines does its work before it returns, so it is part of the   *)
(* step that calls it.  Colours are left out: a style stands for a         *)
(* decoration with its colour.                                             *)
(*                                                                         *)
(* Two fields of the page are history: born, the identifiers created under *)
(* the current revision, and outrun, whether the editor was ever reset     *)
(* while a save of it was waiting or in progress.                          *)
(***************************************************************************)
EXTENDS Naturals, Sequences, SequencesExt, FiniteSets

CONSTANTS
    Existing,      \* annotations of the book when the page opens
    Fresh,         \* identifiers createOpaqueId may return
    Places,        \* locators of text that can be selected
    Styles,        \* decorations
    Texts,         \* notes a reader may type
    Stamps,        \* updatedAt of the annotations read at the start
    MaxNow,        \* bound on the clock
    MaxEvents,     \* bound on what the reader does
    MaxWaiters,    \* bound on handlers polling at one time
    None

Ids == Existing \cup Fresh

Records == [id : Ids, place : Places, styles : SUBSET Styles,
            note : Texts \cup {None}, at : Nat, deleted : BOOLEAN]

Outcomes == {"style", "colour", "autosave", "flush", "close", "cancel"}

Waiter(outcome, style) == [outcome |-> outcome, style |-> style, current |-> TRUE]

VARIABLES
    stored,    \* the annotations store of the library: [Ids -> record or None]
    journal,   \* the last version of each annotation given to the journal
    page,      \* the fields of ReaderPageComponent
    drawn,     \* PdfReaderEngine / EpubReaderEngine.annotations
    now,       \* Date.now()
    events,    \* what the reader has done so far
    unsynced   \* history: annotations whose journal append failed

vars == <<stored, journal, page, drawn, now, events, unsynced>>

Idle == [op |-> "idle", rec |-> None, current |-> FALSE, close |-> FALSE,
         styled |-> FALSE, stage |-> "store", then |-> "none"]

busy(p) == p.writer # Idle
CanSaveAnnotation(p) == p.styles # {} \/ p.note # None
Live(records) == {r \in records : ~r.deleted}
With(records, rec) == {r \in records : r.id # rec.id} \cup {rec}

(* Math.max(Date.now(), previous + 1) *)
timestampAfter(previous) == IF now > previous THEN now ELSE previous + 1

(***************************************************************************)
(* The editor.  Every operator below is a handler as a function of the     *)
(* page's fields; the writer it may start is one of those fields.          *)
(***************************************************************************)
(* annotationEditorRevision++ *)
Revised(p) ==
    [p EXCEPT !.waiters = [i \in DOMAIN p.waiters |->
                             [p.waiters[i] EXCEPT !.current = FALSE]],
              !.writer.current = FALSE, !.born = {},
              !.outrun = @ \/ p.waiters # <<>> \/ p.writer.op = "save"]

resetAnnotationDraft(p) == [Revised(p) EXCEPT !.styles = {}]

cancelAnnotationEditor(p) ==
    [resetAnnotationDraft(p) EXCEPT !.timer = FALSE, !.selection = None,
                                    !.editing = None, !.open = FALSE,
                                    !.note = None, !.error = FALSE]

openPendingSelectionEditor(p) ==
    IF p.panel THEN p
    ELSE [Revised(p) EXCEPT !.editing = None, !.open = TRUE,
                            !.error = FALSE]

beginEditAnnotation(p, rec) ==
    [Revised(p) EXCEPT !.timer = FALSE, !.editing = rec, !.open = TRUE,
                       !.selection = rec.place, !.styles = rec.styles,
                       !.note = rec.note, !.error = FALSE,
                       !.panel = FALSE]

closeAnnotationGroup(p) == [p EXCEPT !.group = {}, !.groupOpen = FALSE]

openAnnotationGroup(p, ids) ==
    LET found == {r \in p.shown : r.id \in ids}
    IN  CASE found = {} -> p
          [] Cardinality(found) = 1 ->
               beginEditAnnotation(p, CHOOSE r \in found : TRUE)
          [] OTHER -> [p EXCEPT !.group = found, !.groupOpen = TRUE,
                                !.panel = FALSE]

refreshOpenAnnotationGroup(p) ==
    LET left == {r \in p.shown : \E g \in p.group : g.id = r.id}
    IN  CASE ~p.groupOpen -> p
          [] left = {} -> closeAnnotationGroup(p)
          [] OTHER -> [p EXCEPT !.group = left]

(***************************************************************************)
(* Starting a write: the record is read from the draft before the first    *)
(* await.                                                                  *)
(***************************************************************************)
Starts(p, op, rec, close, then) ==
    [p EXCEPT !.writer = [op |-> op, rec |-> rec, current |-> TRUE,
                          close |-> close, styled |-> FALSE,
                          stage |-> "store", then |-> then],
              !.error = FALSE]

removeAnnotation(p, rec, then) ==
    IF busy(p) THEN p
    ELSE Starts(p, "remove", [rec EXCEPT !.deleted = TRUE, !.at = now],
                FALSE, then)

NewId == CHOOSE i \in Fresh : stored[i] = None

Draft(p) ==
    [id      |-> IF p.editing = None THEN NewId ELSE p.editing.id,
     place   |-> p.selection,
     styles  |-> p.styles,
     note    |-> p.note,
     at      |-> now,
     deleted |-> FALSE]

saveAnnotation(p, close) ==
    CASE busy(p) \/ p.selection = None -> p
      [] ~CanSaveAnnotation(p) /\ p.editing = None -> p
      [] ~CanSaveAnnotation(p) /\ p.editing # None ->
           removeAnnotation(p, p.editing, "closeEditor")
      [] OTHER -> Starts(p, "save", Draft(p), close, "none")

removeEditingAnnotation(p) ==
    IF p.editing = None THEN p
    ELSE removeAnnotation(p, p.editing, "closeIfRemoved")

removeAnnotationDecoration(p, rec, style) ==
    LET left == rec.styles \ {style}
    IN  CASE style \notin rec.styles -> p
          [] style \in rec.styles /\ left = {} /\ rec.note = None ->
               removeAnnotation(p, rec, "refreshGroup")
          [] OTHER ->
               IF busy(p) THEN p
               ELSE Starts(p, "strip", [rec EXCEPT !.styles = left,
                                                   !.at = timestampAfter(rec.at)],
                           FALSE, "refreshGroup")

(* clearAnnotationStatusTimeout: only the timer whose handle the page still holds *)
ClearStatus(p) ==
    [p EXCEPT !.dismissals = IF p.handle THEN @ - 1 ELSE @, !.handle = FALSE]

ScheduleStatus(p) == [p EXCEPT !.dismissals = @ + 1, !.handle = TRUE]

undoAnnotationRemoval(p) ==
    IF p.deleted = None \/ busy(p) THEN p
    ELSE Starts(ClearStatus(p), "undo",
                [p.deleted EXCEPT !.deleted = FALSE,
                                  !.at = timestampAfter(p.deleted.at)],
                FALSE, "none")

(***************************************************************************)
(* Handlers that wait for the editor to be idle, and what they do then.    *)
(***************************************************************************)
(* a style change keeps its flag until the write it starts has ended *)
Styled(p) ==
    IF busy(p) THEN [p EXCEPT !.writer.styled = TRUE]
    ELSE [p EXCEPT !.stylePending = FALSE]

ApplyStyle(p, style) ==
    LET selected == IF style \in p.styles THEN p.styles \ {style}
                    ELSE p.styles \cup {style}
        q == [p EXCEPT !.styles = selected]
    IN  Styled(IF selected = {} /\ q.note = None THEN removeEditingAnnotation(q)
               ELSE saveAnnotation(q, FALSE))

Proceed(p, w) ==
    CASE w.outcome = "style"    -> ApplyStyle(p, w.style)
      [] w.outcome = "colour"   -> saveAnnotation(p, FALSE)
      [] w.outcome = "flush"    -> saveAnnotation(p, FALSE)
      [] w.outcome = "autosave" -> IF CanSaveAnnotation(p)
                                   THEN saveAnnotation(p, FALSE) ELSE p
      [] w.outcome = "close"    -> saveAnnotation(p, TRUE)
      [] w.outcome = "cancel"   -> cancelAnnotationEditor(p)

(* if (!(await this.waitForAnnotationIdle())) return; *)
waitForAnnotationIdle(p, w) ==
    IF busy(p) THEN [p EXCEPT !.waiters = Append(@, w)] ELSE Proceed(p, w)

applyAnnotationStyle(p, style) ==
    IF p.stylePending THEN p
    ELSE waitForAnnotationIdle([p EXCEPT !.timer = FALSE, !.stylePending = TRUE],
                               Waiter("style", style))

chooseAnnotationColor(p, style) ==
    IF style \in p.styles /\ p.editing # None
    THEN waitForAnnotationIdle(p, Waiter("colour", style)) ELSE p

onAnnotationColorInput(p, style) ==
    IF style \in p.styles /\ p.editing # None
    THEN [p EXCEPT !.timer = TRUE] ELSE p

onAnnotationNoteChange(p, note) == [p EXCEPT !.note = note, !.timer = TRUE]

autosaveAnnotationAndClose(p) ==
    IF p.timer /\ CanSaveAnnotation(p)
    THEN waitForAnnotationIdle([p EXCEPT !.timer = FALSE], Waiter("close", None))
    ELSE waitForAnnotationIdle(p, Waiter("cancel", None))

flushAnnotationAutosave(p) ==
    CASE ~p.timer -> p
      [] p.timer /\ ~CanSaveAnnotation(p) -> [p EXCEPT !.timer = FALSE]
      [] OTHER -> waitForAnnotationIdle([p EXCEPT !.timer = FALSE],
                                        Waiter("flush", None))

autosaveAnnotation(p) ==
    IF CanSaveAnnotation(p)
    THEN waitForAnnotationIdle([p EXCEPT !.timer = FALSE], Waiter("autosave", None))
    ELSE [p EXCEPT !.timer = FALSE]

(* the onSelection listener of ngAfterViewInit *)
OnSelection(p, place) ==
    [resetAnnotationDraft(p) EXCEPT !.selection = place, !.open = FALSE,
                                    !.editing = None, !.note = None,
                                    !.error = FALSE]

OnSelectionCleared(p) ==
    CASE p.open /\ p.editing # None -> p
      [] p.open /\ p.editing = None -> autosaveAnnotationAndClose(p)
      [] OTHER -> [resetAnnotationDraft(p) EXCEPT !.selection = None,
                                                  !.editing = None, !.note = None,
                                                  !.error = FALSE]

(* closeTransientReaderUi *)
Dismiss(p) ==
    CASE p.selection # None -> cancelAnnotationEditor(p)
      [] p.selection = None /\ p.groupOpen -> closeAnnotationGroup(p)
      [] OTHER -> [p EXCEPT !.panel = FALSE]

(***************************************************************************)
(* The specification.                                                      *)
(***************************************************************************)
OpenedPage(records) ==
    [shown |-> records, open |-> FALSE, editing |-> None, selection |-> None,
     note |-> None, styles |-> {}, timer |-> FALSE, waiters |-> <<>>,
     writer |-> Idle, stylePending |-> FALSE, group |-> {}, groupOpen |-> FALSE,
     panel |-> FALSE, deleted |-> None, dismissals |-> 0, handle |-> FALSE,
     destroyed |-> FALSE, error |-> FALSE, born |-> {},
     outrun |-> FALSE]

Init ==
    /\ \E place \in [Existing -> Places], at \in [Existing -> Stamps] :
         stored = [i \in Ids |->
                     IF i \in Existing
                     THEN [id |-> i, place |-> place[i], styles |-> Styles,
                           note |-> None, at |-> at[i], deleted |-> FALSE]
                     ELSE None]
    /\ page = OpenedPage({stored[i] : i \in Existing})
    /\ drawn = page.shown
    /\ journal = stored
    /\ now = 0 /\ events = 0 /\ unsynced = {}

(* The reader acts on the page while it is shown. *)
Event(p) ==
    /\ ~page.destroyed
    /\ events < MaxEvents
    /\ events' = events + 1
    /\ Len(p.waiters) <= MaxWaiters
    /\ page' = p
    /\ UNCHANGED <<stored, journal, drawn, now, unsynced>>

(* The dashboard is rendered for an open editor with a selection; while it *)
(* is, the buttons that open the panels are not.                           *)
DashboardShown == page.open /\ page.selection # None

(* A context menu on selected text: the engine tells of the selection,     *)
(* then asks for the editor.                                               *)
RequestEditor(place) ==
    Event(openPendingSelectionEditor(OnSelection(page, place)))

(* A context menu on the page around the publication. *)
OnPublicationContextMenu ==
    /\ page.selection # None
    /\ Event(openPendingSelectionEditor(page))

(* A click in the publication away from any annotation. *)
ClickAway == Event(OnSelectionCleared(page))

(* A click on the annotations drawn at one place. *)
Activate(place) ==
    Event(openAnnotationGroup(page, {r.id : r \in {d \in drawn : d.place = place}}))

(* The dialog of a group keeps the focus. *)
TogglePanel ==
    /\ ~DashboardShown /\ ~page.groupOpen
    /\ Event([page EXCEPT !.panel = ~@])

EditFromPanel(rec) ==
    /\ page.panel
    /\ rec \in page.shown
    /\ Event(beginEditAnnotation(page, rec))

RemoveFromPanel(rec) ==
    /\ page.panel /\ ~busy(page)
    /\ rec \in page.shown
    /\ Event(removeAnnotation(page, rec, "none"))

StripFromPanel(rec, style) ==
    /\ page.panel /\ ~busy(page)
    /\ rec \in page.shown
    /\ Event(removeAnnotationDecoration(page, rec, style))

EditFromGroup(rec) ==
    /\ page.groupOpen /\ ~busy(page)
    /\ rec \in page.group
    /\ Event(beginEditAnnotation(closeAnnotationGroup(page), rec))

RemoveFromGroup(rec) ==
    /\ page.groupOpen /\ ~busy(page)
    /\ rec \in page.group
    /\ Event(removeAnnotation(page, rec, "refreshGroup"))

StripFromGroup(rec, style) ==
    /\ page.groupOpen /\ ~busy(page)
    /\ rec \in page.group
    /\ Event(removeAnnotationDecoration(page, rec, style))

TypeNote(note) ==
    /\ DashboardShown
    /\ note # page.note
    /\ Event(onAnnotationNoteChange(page, note))

PickStyle(style) ==
    /\ DashboardShown
    /\ Event(applyAnnotationStyle(page, style))

PickColour(style) ==
    /\ DashboardShown
    /\ Event(chooseAnnotationColor(page, style))

DragColour(style) ==
    /\ DashboardShown
    /\ Event(onAnnotationColorInput(page, style))

(* The note loses the focus or is folded away. *)
LeaveNote ==
    /\ DashboardShown
    /\ Event(flushAnnotationAutosave(page))

Done ==
    /\ DashboardShown
    /\ Event(autosaveAnnotationAndClose(page))

(* Ctrl+Enter in the dashboard *)
OnAnnotationDashboardKeydown ==
    /\ DashboardShown
    /\ CanSaveAnnotation(page) /\ ~busy(page)
    /\ Event(saveAnnotation(page, TRUE))

DeleteEdited ==
    /\ DashboardShown
    /\ page.editing # None /\ ~busy(page)
    /\ Event(removeEditingAnnotation(page))

Undo ==
    /\ page.deleted # None /\ ~busy(page)
    /\ Event(undoAnnotationRemoval(page))

DismissStatus ==
    /\ ~busy(page)
    /\ Event([ClearStatus(page) EXCEPT !.deleted = None])

Escape == Event(Dismiss(page))

(* ngOnDestroy *)
Destroy ==
    /\ ~page.destroyed
    /\ page' = [ClearStatus(page) EXCEPT !.destroyed = TRUE, !.timer = FALSE]
    /\ UNCHANGED <<stored, journal, drawn, now, events, unsynced>>

(* The callback of the 400 ms autosave timer. *)
AutosaveTimer ==
    /\ page.timer
    /\ Len(autosaveAnnotation(page).waiters) <= MaxWaiters
    /\ page' = autosaveAnnotation(page)
    /\ UNCHANGED <<stored, journal, drawn, now, events, unsynced>>

(* scheduleAnnotationStatusDismissal: a status timer runs out; it forgets  *)
(* the handle the page holds, whichever timer that handle is of.           *)
StatusTimer ==
    /\ page.dismissals > 0
    /\ page' = [page EXCEPT !.dismissals = @ - 1, !.handle = FALSE,
                            !.deleted = None]
    /\ UNCHANGED <<stored, journal, drawn, now, events, unsynced>>

(* One polling handler finds the editor idle, or the page gone. *)
Resume(i) ==
    /\ i \in DOMAIN page.waiters
    /\ ~busy(page) \/ page.destroyed
    /\ LET w == page.waiters[i]
           p == [page EXCEPT !.waiters = RemoveAt(@, i)]
       IN  page' = IF ~page.destroyed /\ w.current THEN Proceed(p, w)
                   ELSE IF w.outcome = "style"
                   THEN [p EXCEPT !.stylePending = FALSE] ELSE p
    /\ UNCHANGED <<stored, journal, drawn, now, events, unsynced>>

(* the finally blocks: annotationBusy = false and, for a style change, its flag *)
Finished(p) ==
    [p EXCEPT !.writer = Idle,
              !.stylePending = IF p.writer.styled THEN FALSE ELSE @]

(* What follows a removal once removeAnnotation has returned. *)
AfterRemoval(p, removed) ==
    LET mine == p.writer.current /\ ~p.destroyed
        q    == Finished(p)
    IN  CASE p.writer.then = "closeEditor" /\ mine -> cancelAnnotationEditor(q)
          [] p.writer.then = "closeIfRemoved" /\ mine /\ removed ->
               cancelAnnotationEditor(q)
          [] p.writer.then = "refreshGroup" /\ removed ->
               refreshOpenAnnotationGroup(q)
          [] OTHER -> q

(* await this.repository.saveAnnotation(...) has stored the record. *)
Store ==
    /\ busy(page) /\ page.writer.stage = "store"
    /\ LET rec == page.writer.rec
           shown == IF rec.deleted THEN {r \in page.shown : r.id # rec.id}
                    ELSE With(page.shown, rec)
           created == stored[rec.id] = None /\ page.writer.current
       IN  /\ stored' = [stored EXCEPT ![rec.id] = rec]
           /\ page' = [page EXCEPT !.shown = shown, !.writer.stage = "journal",
                                   !.born = IF created THEN @ \cup {rec.id} ELSE @]
           /\ drawn' = IF rec.deleted THEN shown ELSE drawn
    /\ UNCHANGED <<journal, now, events, unsynced>>

(* ... or has failed: the error is shown and nothing else happens. *)
StoreFails ==
    /\ busy(page) /\ page.writer.stage = "store"
    /\ LET w    == page.writer
           mine == w.current /\ ~page.destroyed
           told == [page EXCEPT !.error = (w.op = "save" => mine)]
       IN  page' = IF w.op = "remove" THEN AfterRemoval(told, FALSE)
                   ELSE Finished(told)
    /\ UNCHANGED <<stored, journal, drawn, now, events, unsynced>>

\* Mutant: the first save does not give the editor its identifier.
CompletedAnew(p) ==
    LET w == p.writer
        q == Finished(p)
    IN  IF w.op = "save" /\ w.current /\ ~w.close THEN q
        ELSE IF w.op = "save" THEN cancelAnnotationEditor(q)
        ELSE q

(* What each writer does after journalAnnotation: setAnnotations and its end. *)
Completed(p) ==
    LET w == p.writer
        q == Finished(p)
    IN  CASE w.op = "save" ->
               IF p.destroyed \/ ~w.current THEN q
               ELSE IF w.close THEN cancelAnnotationEditor(q)
               ELSE [q EXCEPT !.editing = w.rec]
          [] w.op = "remove" ->
               AfterRemoval(ScheduleStatus([ClearStatus(p) EXCEPT !.deleted = w.rec]),
                            TRUE)
          [] w.op = "strip" -> ScheduleStatus(refreshOpenAnnotationGroup(q))
          [] w.op = "undo" -> ScheduleStatus([q EXCEPT !.deleted = None])

(* await this.journalAnnotation(...): a failed append is swallowed. *)
Journal(appended) ==
    /\ busy(page) /\ page.writer.stage = "journal"
    /\ LET rec == page.writer.rec
       IN  /\ journal' = IF appended THEN [journal EXCEPT ![rec.id] = rec]
                         ELSE journal
           /\ unsynced' = IF appended THEN unsynced \ {rec.id}
                          ELSE unsynced \cup {rec.id}
    /\ drawn' = page.shown
    /\ page' = Completed(page)
    /\ UNCHANGED <<stored, now, events>>

Tick ==
    /\ now < MaxNow
    /\ now' = now + 1
    /\ UNCHANGED <<stored, journal, page, drawn, events, unsynced>>

Writes == Store \/ (\E appended \in BOOLEAN : Journal(appended))

ReaderActs ==
    \/ \E place \in Places : RequestEditor(place) \/ Activate(place)
    \/ OnPublicationContextMenu \/ ClickAway \/ TogglePanel
    \/ \E rec \in page.shown : EditFromPanel(rec) \/ RemoveFromPanel(rec)
    \/ \E rec \in page.shown, s \in Styles : StripFromPanel(rec, s)
    \/ \E rec \in page.group : EditFromGroup(rec) \/ RemoveFromGroup(rec)
    \/ \E rec \in page.group, s \in Styles : StripFromGroup(rec, s)
    \/ \E note \in Texts \cup {None} : TypeNote(note)
    \/ \E s \in Styles : PickStyle(s) \/ PickColour(s) \/ DragColour(s)
    \/ LeaveNote \/ Done \/ OnAnnotationDashboardKeydown \/ DeleteEdited
    \/ Undo \/ DismissStatus \/ Escape

Next ==
    \/ ReaderActs \/ Destroy \/ AutosaveTimer \/ StatusTimer
    \/ \E i \in DOMAIN page.waiters : Resume(i)
    \/ Writes \/ StoreFails \/ Tick

Spec == Init /\ [][Next]_vars

(* Promises of the library and the journal settle, timers run out, and a   *)
(* poll that finds the editor idle resumes.                                *)
FairSpec ==
    /\ Spec
    /\ WF_vars(Writes \/ StoreFails)
    /\ WF_vars(AutosaveTimer)
    /\ SF_vars(\E i \in DOMAIN page.waiters : Resume(i))

(***************************************************************************)
(* Properties                                                              *)
(***************************************************************************)
TypeOK ==
    /\ stored \in [Ids -> Records \cup {None}]
    /\ journal \in [Ids -> Records \cup {None}]
    /\ drawn \subseteq Records /\ page.shown \subseteq Records
    /\ page.group \subseteq Records
    /\ page.editing \in Records \cup {None} /\ page.deleted \in Records \cup {None}
    /\ page.selection \in Places \cup {None}
    /\ page.writer.rec \in Records \cup {None}
    /\ page.dismissals \in Nat /\ page.handle \in BOOLEAN
    /\ \A i \in DOMAIN page.waiters : page.waiters[i].outcome \in Outcomes

(* Autosave, style and colour changes and the closing save of one editing  *)
(* session write one annotation: the first save that succeeds gives the    *)
(* editor its identifier before any other save of the session can start    *)
(* (saveAnnotation, editingAnnotation = annotation).                       *)
OneAnnotationPerSession == Cardinality(page.born) <= 1

IdKeepsPlaceStep ==
    \A i \in Ids : stored[i] # None => stored'[i].place = stored[i].place

(* An identifier stays with the text it was created for: no save that      *)
(* finishes after the editor has moved on gives its identifier to the next *)
(* selection (the annotationEditorRevision test after the awaits).         *)
IdKeepsPlace == [][IdKeepsPlaceStep]_stored

(* What is drawn or given to the journal is already in the library, so a   *)
(* failed write never leaves a mark or a journal entry behind              *)
(* (repository.saveAnnotation is awaited first in all four writers).       *)
PersistedFirst ==
    /\ \A r \in drawn : stored[r.id] = r \/ busy(page)
    /\ \A r \in drawn : stored[r.id] # None
    /\ \A i \in Ids : journal[i] # None =>
         /\ stored[i] # None
         /\ journal[i] = stored[i] \/ i \in unsynced \/ page.writer.rec.id = i

(* When no write is in progress the page, the engine and the journal agree *)
(* with the library: the live annotations are listed and drawn, and the    *)
(* journal has the last version unless its append failed.                  *)
AgreeAtRest ==
    ~busy(page) =>
      /\ page.shown = Live({stored[i] : i \in {j \in Ids : stored[j] # None}})
      /\ drawn = page.shown
      /\ \A i \in Ids \ unsynced : journal[i] = stored[i]

UndoOutranksDeletionStep ==
    \A i \in Ids :
      stored[i] # None /\ stored'[i] # stored[i] /\ page.writer.op = "undo"
        => stored'[i].at > stored[i].at

(* Undo restores the deleted annotation with a revision newer than its     *)
(* tombstone, so the deletion cannot win a later merge                     *)
(* (undoAnnotationRemoval, timestampAfter).                                *)
UndoOutranksDeletion == [][UndoOutranksDeletionStep]_stored

(* Removing one decoration of an annotation leaves the rest of it as the   *)
(* library has it (removeAnnotationDecoration).                            *)
LayerRemovalKeepsTheRest ==
    [][\A i \in Ids :
         stored'[i] # stored[i] /\ page.writer.op = "strip"
           => stored'[i].note = stored[i].note]_stored

(* A note the reader typed is saved: once its autosave is armed the        *)
(* library holds it or the reader is told that a save failed, unless they  *)
(* change the note again, end the editing session, start another before    *)
(* the save of this one is through, or leave the page                      *)
(* (scheduleAnnotationAutosave, waitForAnnotationIdle).                    *)
NoteIsSaved(note) ==
    (page.timer /\ page.note = note)
      ~> \/ \E i \in Ids : stored[i] # None /\ stored[i].note = note
         \/ page.error \/ page.outrun \/ page.note # note \/ page.destroyed

\* Overlapping saves of the annotation editor write one annotation, write it
\* before it is drawn, and leave page, engine, journal and library in
\* agreement.
EditorIsSound ==
    /\ OneAnnotationPerSession
    /\ PersistedFirst
    /\ AgreeAtRest
=============================================================================
