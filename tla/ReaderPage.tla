------------------------------ MODULE ReaderPage ------------------------------
(***************************************************************************)
(* Opening, moving in, and leaving a book on the reader page               *)
(* (apps/omnia-reader/src/app/features/reader/reader-page.component.ts).   *)
(*                                                                         *)
(* The page opens a book in steps (ngAfterViewInit), moves the engine      *)
(* through four kinds of handlers (the page-turning loop, the progress     *)
(* slider with its queue of one, chapter milestones and table of contents, *)
(* and the unguarded jumps to bookmarks, search results and pages), saves  *)
(* the reading position behind a chain of promises, and keeps bookmarks.   *)
(* Nothing in ngAfterViewInit looks at destroyed, so opening goes on after *)
(* the reader has left.                                                    *)
(*                                                                         *)
(* A place in the book is a number 0..LastPlace; chapters start at         *)
(* Milestones.  The renderer of an EPUB works through its calls in order;  *)
(* a PDF has moved when the call returns.                                  *)
(***************************************************************************)
EXTENDS Naturals, Sequences, FiniteSets

CONSTANTS
    Formats,       \* formats to open: subset of {"epub", "pdf"}
    LastPlace,
    Milestones,    \* places where a chapter starts
    Progresses,    \* reading progress the library may hold, None or a record
    BookmarkIds,
    MaxEvents,     \* bound on what the reader and the platform do
    MaxFailures,   \* bound on failing calls
    Forward, Backward,  \* ReaderNavigationDirection: next, previous
    None

Places == 0..LastPlace

VARIABLES
    format,     \* book.format
    phase,      \* how far ngAfterViewInit has come
    page,       \* the fields of ReaderPageComponent
    engine,     \* the engine: its state and the place it shows
    moves,      \* calls of the engine that have not returned, in order
    progressStore,  \* the reading progress of the library
    bookmarkStore,  \* the bookmarks of the library
    budget,     \* events and failures left
    wish        \* history: the place the reader asked for last, if still due

vars == <<format, phase, page, engine, moves, progressStore, bookmarkStore,
          budget, wish>>

(***************************************************************************)
(* Saving the position.                                                    *)
(***************************************************************************)
(* engine.currentLocator(): closing a PDF keeps the document until the     *)
(* loading task is destroyed.                                              *)
Locator(e) ==
    IF e.state \in (IF format = "pdf" THEN {"open", "mounted", "closing"}
                    ELSE {"mounted"})
    THEN e.at ELSE None

Greater(a, b) == IF a > b THEN a ELSE b

(* saveProgress up to its first await. *)
saveProgress(p, e, relocated) ==
    LET at       == IF relocated = None THEN Locator(e) ELSE relocated
        furthest == IF p.progress = None THEN 0 ELSE p.progress.furthest
        record   == [at |-> at, furthest |-> Greater(furthest, at)]
    IN  IF ~p.book \/ e.state = "none" \/ at = None \/ at = p.persisted THEN p
        ELSE [p EXCEPT !.progress = record, !.saving = record]

(* this.progressWrite.catch(...).then(() => this.saveProgress(locator)) *)
queueProgressSave(p, e, locator) ==
    IF p.saving = None /\ p.saves = <<>> THEN saveProgress(p, e, locator)
    ELSE [p EXCEPT !.saves = Append(@, locator)]

(***************************************************************************)
(* The displayed percentage.                                               *)
(***************************************************************************)
clearProgressMilestonePin(p) == [p EXCEPT !.pin = None, !.manual = None]

alignManualProgressPercent(p) ==
    IF p.manual = None \/ p.pin # None \/ p.seeking \/ p.shown = None
       \/ p.shown = p.manual
    THEN p ELSE [p EXCEPT !.manual = None]

(* The onRelocated listener, attached when the book is open. *)
OnRelocated(p, e) ==
    IF phase # "ready" \/ p.destroyed THEN p
    ELSE queueProgressSave(alignManualProgressPercent([p EXCEPT !.shown = e.at]),
                           e, e.at)

(***************************************************************************)
(* Moves.  A handler issues a call; its continuation runs when the call    *)
(* returns.                                                                *)
(***************************************************************************)
Call(by, to) == [by |-> by, to |-> to]

Target(to) ==
    CASE to = Forward     -> IF engine.at < LastPlace THEN engine.at + 1 ELSE engine.at
      [] to = Backward -> IF engine.at > 0 THEN engine.at - 1 ELSE 0
      [] OTHER           -> to

(* drainProgressSeekQueue: the next seek, or the end of the queue. *)
Drain(p) ==
    IF ~p.destroyed /\ p.pendingSeek # None
    THEN [page  |-> [p EXCEPT !.pendingSeek = None, !.busy = TRUE],
          calls |-> <<Call("seek", p.pendingSeek)>>]
    ELSE [page  |-> alignManualProgressPercent([p EXCEPT !.seeking = FALSE]),
          calls |-> <<>>]

(* seekToChapterMilestone after it has waited for the seeks to end *)
AfterSeeks(d) ==
    LET p == d.page
        m == p.waiting
    IN  IF p.seeking \/ m = None THEN d
        ELSE IF p.destroyed \/ p.busy \/ p.pin # m
        THEN [d EXCEPT !.page.waiting = None]
        ELSE [page  |-> [p EXCEPT !.waiting = None, !.busy = TRUE],
              calls |-> <<Call("milestone", m)>>]

(* What the handler does once its call has returned. *)
Continue(p, call, ok) ==
    CASE call.by = "loop" ->
           IF ok /\ p.pending # None
           THEN [page  |-> [p EXCEPT !.pending = None],
                 calls |-> <<Call("loop", p.pending)>>]
           ELSE [page  |-> [p EXCEPT !.pending = None, !.loop = FALSE, !.busy = FALSE],
                 calls |-> <<>>]
      [] call.by = "seek" -> AfterSeeks(Drain([p EXCEPT !.busy = FALSE]))
      [] call.by = "milestone" ->
           [page |-> [p EXCEPT !.busy = FALSE], calls |-> <<>>]
      [] call.by = "toc" ->
           [page  |-> [p EXCEPT !.busy = FALSE, !.panel = IF ok THEN FALSE ELSE @],
            calls |-> <<>>]
      [] call.by = "jump" ->
           [page |-> [p EXCEPT !.panel = IF ok THEN FALSE ELSE @], calls |-> <<>>]

\* Mutant: a slider position is dropped while a seek is in progress.
DroppedSeek(p, at) ==
    IF p.seeking THEN [page |-> p, calls |-> <<>>]
    ELSE Drain([p EXCEPT !.pendingSeek = at, !.seeking = TRUE])

(* The first seek is called at once; later ones wait in pendingSeek. *)
queueProgressSeek(p, at) ==
    IF p.seeking THEN [page |-> [p EXCEPT !.pendingSeek = at], calls |-> <<>>]
    ELSE Drain([p EXCEPT !.pendingSeek = at, !.seeking = TRUE])

navigate(p, direction) ==
    LET q == clearProgressMilestonePin(p)
    IN  IF engine.state = "none" \/ phase # "ready" \/ p.panel
           \/ (p.busy /\ ~p.loop)
        THEN [page |-> q, calls |-> <<>>]
        ELSE IF p.busy
        THEN [page |-> [q EXCEPT !.pending = direction], calls |-> <<>>]
        ELSE [page  |-> [q EXCEPT !.loop = TRUE, !.busy = TRUE, !.pending = None],
              calls |-> <<Call("loop", direction)>>]

seekToChapterMilestone(p, m) ==
    LET q == [p EXCEPT !.manual = m, !.pin = m]
    IN  CASE m = 0 -> queueProgressSeek(q, 0)
          [] m # 0 /\ p.seeking ->
               [page |-> [q EXCEPT !.pendingSeek = None, !.waiting = m], calls |-> <<>>]
          [] OTHER -> [page  |-> [q EXCEPT !.busy = TRUE],
                       calls |-> <<Call("milestone", m)>>]

(* goTo of a table of contents entry *)
goTo(p, at) ==
    LET q == IF at \in Milestones THEN [p EXCEPT !.manual = at, !.pin = at]
             ELSE clearProgressMilestonePin(p)
    IN  IF p.busy THEN [page |-> q, calls |-> <<>>]
        ELSE [page |-> [q EXCEPT !.busy = TRUE], calls |-> <<Call("toc", at)>>]

(***************************************************************************)
(* The specification.                                                      *)
(***************************************************************************)
NewPage ==
    [book |-> FALSE, found |-> None, progress |-> None, persisted |-> None,
     shown |-> None, saving |-> None, saves |-> <<>>, missed |-> FALSE,
     busy |-> FALSE, loop |-> FALSE, pending |-> None,
     seeking |-> FALSE, pendingSeek |-> None, waiting |-> None, drag |-> FALSE,
     pin |-> None, manual |-> None, panel |-> FALSE, consent |-> FALSE,
     challenge |-> FALSE, bookmarks |-> {}, bookmarkWrite |-> None,
     destroyed |-> FALSE]

Init ==
    /\ format \in Formats
    /\ phase = "reading"
    /\ page = NewPage
    /\ engine = [state |-> "none", at |-> 0]
    /\ moves = <<>>
    /\ progressStore \in Progresses
    /\ bookmarkStore = [b \in BookmarkIds |-> None]
    /\ budget = [events |-> MaxEvents, failures |-> MaxFailures]
    /\ wish = None

Spend == budget.events > 0 /\ budget' = [budget EXCEPT !.events = @ - 1]
Fail == budget.failures > 0 /\ budget' = [budget EXCEPT !.failures = @ - 1]

(***************************************************************************)
(* ngAfterViewInit.                                                        *)
(***************************************************************************)
Keeps == UNCHANGED <<format, moves, bookmarkStore, wish>>

ReadBook ==
    /\ phase = "reading"
    /\ phase' = "preparing"
    /\ page' = [page EXCEPT !.found = progressStore]
    /\ UNCHANGED <<engine, progressStore, budget>> /\ Keeps

(* openHealthyVariant, getReaderPreferences and the fields they are for *)
PrepareBook ==
    /\ phase = "preparing"
    /\ phase' = "creating"
    /\ page' = [page EXCEPT !.book = TRUE, !.progress = page.found,
                            !.persisted = IF page.found = None THEN None
                                          ELSE page.found.at]
    /\ UNCHANGED <<engine, progressStore, budget>> /\ Keeps

CreateEngine ==
    /\ phase = "creating"
    /\ phase' = "opening"
    /\ engine' = [state |-> "created", at |-> 0]
    /\ UNCHANGED <<page, progressStore, budget>> /\ Keeps

(* The engine asks for the password of a PDF, and again when it is wrong. *)
RequestPassword ==
    /\ phase = "opening" /\ format = "pdf"
    /\ engine.state = "created" /\ ~page.challenge /\ ~page.destroyed
    /\ Spend
    /\ page' = [page EXCEPT !.challenge = TRUE]
    /\ UNCHANGED <<phase, engine, progressStore>> /\ Keeps

SubmitPdfPassword ==
    /\ page.challenge
    /\ page' = [page EXCEPT !.challenge = FALSE]
    /\ UNCHANGED <<phase, engine, progressStore, budget>> /\ Keeps

CancelPdfPassword ==
    /\ page.challenge
    /\ page' = [page EXCEPT !.challenge = FALSE]
    /\ phase' = "failed"
    /\ UNCHANGED <<engine, progressStore, budget>> /\ Keeps

(* engine.open: a close in between may come before anything was opened, so *)
(* that opening goes on, or after, so that it fails.                       *)
OpenEngine ==
    /\ phase = "opening" /\ ~page.challenge
    /\ engine.state \in {"created", "closed"}
    /\ phase' = "opened"
    /\ engine' = [state |-> "open", at |-> 0]
    /\ UNCHANGED <<page, progressStore, budget>> /\ Keeps

(* saveLogicalBookFormatPreference, updateMetadata, applyPreferences *)
UpdateMetadata ==
    /\ phase = "opened" /\ engine.state = "open"
    /\ phase' = "mounting"
    /\ UNCHANGED <<page, engine, progressStore, budget>> /\ Keeps

(* engine.mount shows the beginning of the book before it returns. *)
Display ==
    /\ phase = "mounting" /\ engine.state = "open"
    /\ phase' = "displayed"
    /\ engine' = [engine EXCEPT !.state = "mounted"]
    /\ UNCHANGED <<page, progressStore, budget>> /\ Keeps

Mounted ==
    /\ phase = "displayed" /\ engine.state = "mounted"
    /\ phase' = "restoring"
    /\ UNCHANGED <<page, engine, progressStore, budget>> /\ Keeps

(* engine.goTo(progress.locator), then the listener and the first locator *)
Restore ==
    /\ phase = "restoring" /\ engine.state = "mounted"
    /\ phase' = "ready"
    /\ engine' = [engine EXCEPT !.at = IF page.found = None THEN @ ELSE page.found.at]
    /\ page' = [page EXCEPT !.shown = engine'.at]
    /\ UNCHANGED <<progressStore, budget>> /\ Keeps

Opening == {"reading", "preparing", "creating", "opening", "opened", "mounting",
            "displayed", "restoring"}

(* Any of the awaits rejects; the error is shown. *)
OpeningFails ==
    /\ phase \in Opening
    /\ \/ Fail
       \/ engine.state \in {"closing", "closed"} /\ UNCHANGED budget
    /\ phase' = "failed"
    /\ UNCHANGED <<page, engine, progressStore>> /\ Keeps

(***************************************************************************)
(* The reader and the platform.                                            *)
(***************************************************************************)
(* A PDF has moved before anything else can happen. *)
Attending == ~page.destroyed /\ (format = "pdf" => moves = <<>>)

(* A page turn that is under way may still be followed by another one. *)
Request(d, due) ==
    /\ Attending /\ Spend
    /\ page' = d.page
    /\ moves' = moves \o d.calls
    /\ wish' = IF page.loop THEN None ELSE due
    /\ UNCHANGED <<format, phase, engine, progressStore, bookmarkStore>>

Isolated == page.challenge \/ page.consent

Turn(direction) ==
    /\ ~Isolated
    /\ Request(navigate(page, direction), None)

SliderDisabled == phase # "ready" \/ (page.busy /\ ~page.seeking)

seekToProgressPointerPosition(p, at) ==
    queueProgressSeek([p EXCEPT !.manual = at, !.pin = None], at)

(* onProgressSliderInput, seekToProgress, onProgressSliderClick *)
Slide(at) ==
    /\ ~SliderDisabled
    /\ Request(seekToProgressPointerPosition(page, at), at)

OnProgressMilestonePointerDown ==
    /\ ~SliderDisabled /\ ~page.drag
    /\ Request([page |-> [page EXCEPT !.drag = TRUE], calls |-> <<>>], wish)

(* The pointer moves or is lifted: no look at busy. *)
DragMilestone(at, up) ==
    /\ page.drag
    /\ Request(seekToProgressPointerPosition([page EXCEPT !.drag = ~up], at), at)

(* The pointer is taken away, or lifted where it was put down. *)
OnProgressMilestonePointerCancel ==
    /\ page.drag
    /\ Request([page |-> [page EXCEPT !.drag = FALSE], calls |-> <<>>], wish)

ClickMilestone(m) ==
    /\ ~SliderDisabled /\ ~page.drag
    /\ Request(seekToChapterMilestone(page, m), m)

ClickTocItem(at) ==
    /\ phase = "ready" /\ page.panel
    /\ Request(goTo(page, at), IF page.busy THEN None ELSE at)

JumpFrom(p, at) ==
    /\ phase = "ready" /\ page.panel
    /\ Request([page |-> p, calls |-> <<Call("jump", at)>>], IF page.busy THEN None ELSE at)

(* goToBookmark, goToAnnotation, goToPdfPage: a move in progress is not    *)
(* waited for, and its handler may call for another.                       *)
Jump(at) == JumpFrom(clearProgressMilestonePin(page), at)

(* The same, and the pin of the slider stays. *)
goToSearchResult(at) == JumpFrom(page, at)

(* An internal link, a scroll: the engine moves on its own. *)
MoveInEngine(at) ==
    /\ phase = "ready" /\ engine.state = "mounted" /\ moves = <<>>
    /\ at # engine.at
    /\ Attending /\ Spend
    /\ engine' = [engine EXCEPT !.at = at]
    /\ page' = OnRelocated(page, engine')
    /\ wish' = None
    /\ UNCHANGED <<format, phase, moves, progressStore, bookmarkStore>>

ToggleReaderPanel ==
    /\ phase = "ready" /\ ~Isolated
    /\ Request([page |-> [page EXCEPT !.panel = ~@], calls |-> <<>>], wish)

RequestExternalLink ==
    /\ phase = "ready" /\ ~page.consent
    /\ Request([page |-> [page EXCEPT !.consent = TRUE], calls |-> <<>>], wish)

DecideExternalLink ==
    /\ page.consent
    /\ Request([page |-> [page EXCEPT !.consent = FALSE], calls |-> <<>>], wish)

(* platform.onBackground *)
Background ==
    /\ Attending /\ Spend
    /\ page' = queueProgressSave(page, engine, None)
    /\ UNCHANGED <<phase, engine, progressStore>> /\ Keeps

(* ngOnDestroy: closing an EPUB is done when close returns. *)
Destroy ==
    /\ Attending
    /\ engine' = IF engine.state = "none" THEN engine
                 ELSE [engine EXCEPT !.state = IF format = "pdf" /\ @ \in {"open", "mounted"}
                                               THEN "closing" ELSE "closed"]
    /\ page' = queueProgressSave([page EXCEPT !.destroyed = TRUE, !.pendingSeek = None,
                                              !.drag = FALSE, !.challenge = FALSE],
                                 engine', page.shown)
    /\ phase' = IF page.challenge THEN "failed" ELSE phase
    /\ UNCHANGED <<progressStore, budget>> /\ Keeps

(* loadingTask.destroy() has returned. *)
EngineReleased ==
    /\ engine.state = "closing"
    /\ engine' = [engine EXCEPT !.state = "closed"]
    /\ UNCHANGED <<phase, page, progressStore, budget>> /\ Keeps

(***************************************************************************)
(* What has been started goes on.                                          *)
(***************************************************************************)
(* The first call in progress returns, and its handler goes on. *)
Return(ok) ==
    /\ moves # <<>>
    /\ LET call == Head(moves)
           to   == Target(call.to)
           e    == IF ok THEN [engine EXCEPT !.at = to] ELSE engine
           d    == Continue(IF ok /\ to # engine.at THEN OnRelocated(page, e) ELSE page,
                            call, ok)
       IN  /\ ok => engine.state = "mounted"
           /\ IF ok \/ engine.state # "mounted" THEN UNCHANGED budget ELSE Fail
           /\ engine' = e
           /\ page' = d.page
           /\ moves' = Tail(moves) \o d.calls
           /\ wish' = IF ok THEN wish ELSE None
    /\ UNCHANGED <<format, phase, progressStore, bookmarkStore>>

(* await this.repository.saveProgress(...), then the journal *)
StoreProgress ==
    /\ page.saving # None
    /\ progressStore' = page.saving
    /\ page' = [page EXCEPT !.saving = None, !.persisted = page.saving.at,
                            !.missed = FALSE]
    /\ UNCHANGED <<phase, engine, budget>> /\ Keeps

StoreProgressFails ==
    /\ page.saving # None
    /\ Fail
    /\ page' = [page EXCEPT !.saving = None, !.missed = TRUE]
    /\ UNCHANGED <<phase, engine, progressStore>> /\ Keeps

NextSave ==
    /\ page.saving = None /\ page.saves # <<>>
    /\ page' = saveProgress([page EXCEPT !.saves = Tail(@)], engine, Head(page.saves))
    /\ UNCHANGED <<phase, engine, progressStore, budget>> /\ Keeps

(***************************************************************************)
(* Bookmarks.                                                              *)
(***************************************************************************)
toggleCurrentBookmark ==
    /\ phase = "ready" /\ Attending /\ Spend
    /\ page.bookmarkWrite = None /\ page.shown # None
    /\ LET known == {b \in page.bookmarks : b.at = page.shown}
           fresh == {i \in BookmarkIds : bookmarkStore[i] = None}
       IN  /\ known # {} \/ fresh # {}
           /\ page' = [page EXCEPT !.bookmarkWrite =
                         IF known # {}
                         THEN [(CHOOSE b \in known : TRUE) EXCEPT !.live = FALSE]
                         ELSE [id |-> CHOOSE i \in fresh : TRUE, at |-> page.shown,
                               live |-> TRUE]]
    /\ UNCHANGED <<phase, engine, progressStore>> /\ Keeps

removeBookmark(b) ==
    /\ page.panel /\ b \in page.bookmarks
    /\ page.bookmarkWrite = None /\ Attending /\ Spend
    /\ page' = [page EXCEPT !.bookmarkWrite = [b EXCEPT !.live = FALSE]]
    /\ UNCHANGED <<phase, engine, progressStore>> /\ Keeps

(* repository.saveBookmark, then the list of the page *)
StoreBookmark ==
    /\ page.bookmarkWrite # None
    /\ LET b == page.bookmarkWrite
       IN  /\ bookmarkStore' = [bookmarkStore EXCEPT ![b.id] = b]
           /\ page' = [page EXCEPT !.bookmarkWrite = None,
                         !.bookmarks = {c \in @ : c.id # b.id}
                                       \cup (IF b.live THEN {b} ELSE {})]
    /\ UNCHANGED <<format, phase, engine, moves, progressStore, budget, wish>>

StoreBookmarkFails ==
    /\ page.bookmarkWrite # None
    /\ Fail
    /\ page' = [page EXCEPT !.bookmarkWrite = None]
    /\ UNCHANGED <<phase, engine, progressStore>> /\ Keeps

(***************************************************************************)
Opens ==
    \/ ReadBook \/ PrepareBook \/ CreateEngine \/ OpenEngine \/ UpdateMetadata
    \/ Display \/ Mounted \/ Restore

Acts ==
    \/ \E direction \in {Forward, Backward} : Turn(direction)
    \/ \E at \in Places : Slide(at) \/ Jump(at) \/ goToSearchResult(at) \/ ClickTocItem(at) \/ MoveInEngine(at)
    \/ \E at \in Places, up \in BOOLEAN : DragMilestone(at, up)
    \/ \E m \in Milestones : ClickMilestone(m)
    \/ OnProgressMilestonePointerDown \/ OnProgressMilestonePointerCancel \/ ToggleReaderPanel
    \/ RequestExternalLink \/ DecideExternalLink
    \/ toggleCurrentBookmark \/ \E b \in page.bookmarks : removeBookmark(b)
    \/ Background \/ RequestPassword

Goes ==
    \/ \E ok \in BOOLEAN : Return(ok)
    \/ StoreProgress \/ StoreProgressFails \/ NextSave
    \/ StoreBookmark \/ StoreBookmarkFails \/ EngineReleased

Next == Opens \/ OpeningFails \/ SubmitPdfPassword \/ CancelPdfPassword
        \/ Acts \/ Destroy \/ Goes

Spec == Init /\ [][Next]_vars

(***************************************************************************)
(* Properties                                                              *)
(***************************************************************************)
TypeOK ==
    /\ engine.at \in Places
    /\ engine.state \in {"none", "created", "open", "mounted", "closing", "closed"}
    /\ page.shown \in Places \cup {None} /\ page.persisted \in Places \cup {None}
    /\ page.pendingSeek \in Places \cup {None}
    /\ page.pending \in {Forward, Backward, None}
    /\ \A i \in DOMAIN moves : moves[i].to \in Places \cup {Forward, Backward}
    /\ phase \in Opening \cup {"ready", "failed"}

FurthestIsMonotoneStep ==
    progressStore # None => progressStore'.furthest >= progressStore.furthest

(* The furthest place of a book never goes back, whatever order positions  *)
(* are saved in and whichever saves fail (saveProgress,                    *)
(* furthestTotalProgression).                                              *)
FurthestIsMonotone == [][FurthestIsMonotoneStep]_progressStore

(* Once the saves that were queued are through, the library holds the      *)
(* place the reader left at, unless the last save failed (onRelocated,     *)
(* queueProgressSave and ngOnDestroy together).  An engine that is still   *)
(* mounted then is one that was opened after they had left.                *)
LeftWhereRead ==
    page.destroyed /\ engine.state # "mounted" /\ page.shown # None
      /\ page.saving = None /\ page.saves = <<>>
      => page.missed \/ (progressStore # None /\ progressStore.at = page.shown)

(* When nothing is moving any more the book is at the place the reader     *)
(* asked for last with the slider, a milestone, the contents or a          *)
(* bookmark, although requests overlap and replace each other.  Left out   *)
(* are requests made while a page is turned and jumps made while another   *)
(* move is in progress (queueProgressSeek, seekToChapterMilestone, goTo).  *)
SettlesAtLastWish ==
    moves = <<>> /\ ~page.destroyed /\ wish # None => engine.at = wish

(* A manual percentage is shown only while it is sought or pinned, or when *)
(* it is where the book is (alignManualProgressPercent).                   *)
ShownPercentIsTrue ==
    page.manual # None /\ phase = "ready" /\ ~page.destroyed
      => page.seeking \/ page.pin # None \/ page.manual = page.shown

(* No two bookmarks of a book that are not deleted are at one place        *)
(* (toggleCurrentBookmark, bookmarkBusy).                                  *)
OneBookmarkPerPlace ==
    \A a, b \in BookmarkIds :
      LET x == bookmarkStore[a]
          y == bookmarkStore[b]
      IN  x # None /\ y # None /\ a # b => ~(x.live /\ y.live /\ x.at = y.at)

(* navigationBusy is set only while a call of the engine is in progress,   *)
(* so that a failed or abandoned move never locks the page (the finally    *)
(* blocks of navigate, goTo, seekToLocator, seekToProgressPercent).        *)
BusyIsBacked == page.busy => moves # <<>>

(* Opening a book does not change its reading progress: the place to       *)
(* resume at is replaced only once it was resumed.                         *)
ResumeKept == [][phase = "ready"]_progressStore

\* However moves, saves and bookmarks of an open book overlap and fail, the
\* page ends where the reader wished, shows it, stores it and stays usable.
PageIsSound ==
    /\ LeftWhereRead
    /\ SettlesAtLastWish
    /\ ShownPercentIsTrue
    /\ OneBookmarkPerPlace
    /\ BusyIsBacked
===============================================================================
