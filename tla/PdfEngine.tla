------------------------------- MODULE PdfEngine -------------------------------
(***************************************************************************)
(* PdfReaderEngine (libs/reader/pdf/src/lib/pdf-reader-engine.ts) between  *)
(* its caller and PDF.js: opening with a password, mounting the viewer,    *)
(* moving, the layers of annotations and the release of everything in      *)
(* resetDocument.                                                          *)
(*                                                                         *)
(* The reader page opens and mounts an engine and moves in it; the import  *)
(* of a book opens one without listening for passwords.  Either closes it  *)
(* at any moment.  An action is what the engine does from one await to the *)
(* next.  One engine after another is used; the style sheet is shared.     *)
(***************************************************************************)
EXTENDS Naturals, FiniteSets

CONSTANTS
    Pages,          \* number of pages of the document
    Annotations,    \* annotations of the book
    PageOf,         \* the page of an annotation
    Geometric,      \* annotations that have rectangles, not only offsets
    MaxCalls,       \* bound on moves, preferences and annotations set
    MaxEngines,     \* bound on the engines used one after another
    MaxChallenges,  \* bound on the passwords asked for
    None

VARIABLES
    caller,     \* listens: a password listener is there; locked: the document is
    engine,     \* the fields of PdfReaderEngine
    pdf,        \* PDF.js: the loading task, the viewer and what it has rendered
    open,       \* how far open() is
    mount,      \* how far mount() is
    resets,     \* calls of resetDocument() that wait for destroy()
    challenges, \* passwords asked for: answered, and answers given to PDF.js
    styles,     \* the style sheet: stylesheetPromise and the fetches that failed
    told,       \* the page last reported to the relocation listeners
    used        \* calls, engines, and what the history needs

vars == <<caller, engine, pdf, open, mount, resets, challenges, styles, told, used>>

PageSet == 1 .. Pages

NewEngine == [runtime |-> FALSE, task |-> FALSE, document |-> FALSE, viewer |-> FALSE,
              listening |-> FALSE, pageNumber |-> 1, annotations |-> {},
              unasked |-> FALSE]

NewPdf == [task |-> "none", page |-> 1, scale |-> 0, text |-> {}, filled |-> FALSE,
           layers |-> [p \in PageSet |-> {}]]

Init ==
    /\ caller \in [listens : BOOLEAN, locked : BOOLEAN]
    /\ engine = NewEngine /\ pdf = NewPdf
    /\ open = "no" /\ mount = "no" /\ resets = {}
    /\ challenges = <<>>
    /\ styles = [promise |-> "none", failures |-> 0, waitedSince |-> 0]
    /\ told = None
    /\ used = [calls |-> 0, engines |-> 1, closed |-> FALSE, overtaken |-> FALSE]

(***************************************************************************)
(* What the viewer draws                                                   *)
(***************************************************************************)
(* The marks of a page: rectangles at the scale of the page, offsets only  *)
(* where the text is there.                                                *)
Marks(e, p, page) ==
    {<<a, p.scale>> : a \in {b \in e.annotations :
                               PageOf[b] = page /\ (b \in Geometric \/ page \in p.text)}}

renderPageAnnotations(e, p, page) ==
    IF ~e.viewer THEN p ELSE [p EXCEPT !.layers[page] = Marks(e, p, page)]

(* Pages with annotations are drawn anew, the layers of others removed. *)
renderVisibleAnnotations(e, p) ==
    IF ~e.viewer THEN p
    ELSE [p EXCEPT !.layers = [page \in PageSet |-> Marks(e, p, page)]]

(* PDF.js resets the pages: what was rendered, and the layers in it, goes. *)
applyPdfPreferences(e, p, scale) ==
    IF ~e.viewer THEN p
    ELSE [p EXCEPT !.scale = scale, !.text = {}, !.layers = [page \in PageSet |-> {}]]

(***************************************************************************)
(* resetDocument: what happens before destroy() and after it               *)
(***************************************************************************)
\* Mutant: the listeners on the page's document are left.
ReleaseKeepingListeners(e) == [e EXCEPT !.viewer = FALSE]

ReleaseViewer(e) == [e EXCEPT !.viewer = FALSE, !.listening = FALSE]

(* The task PDF.js destroys rejects its promise if it was still loading. *)
Destroy(p) == [NewPdf EXCEPT !.task = IF engine.task THEN "destroyed" ELSE p.task]

StartReset(who) ==
    /\ engine' = ReleaseViewer(engine)
    /\ pdf' = Destroy(pdf)
    /\ resets' = resets \cup {who}

EndReset(who) ==
    /\ who \in resets
    /\ resets' = resets \ {who}
    /\ engine' = [NewEngine EXCEPT !.viewer = engine.viewer, !.listening = engine.listening]

(***************************************************************************)
(* open                                                                    *)
(***************************************************************************)
(* The reset with which open() begins finds a new engine. *)
Open ==
    /\ open = "no" /\ ~used.closed
    /\ open' = "source"
    /\ UNCHANGED <<caller, engine, pdf, mount, resets, challenges, styles, told, used>>

(* The bytes and PDF.js are loaded, or are not. *)
SourceFails ==
    /\ open = "source" /\ open' = "failed"
    /\ UNCHANGED <<caller, engine, pdf, mount, resets, challenges, styles, told, used>>

GetDocument ==
    /\ open = "source" /\ open' = "loading"
    /\ engine' = [engine EXCEPT !.runtime = TRUE, !.task = TRUE, !.unasked = FALSE]
    /\ pdf' = [pdf EXCEPT !.task = "loading"]
    /\ UNCHANGED <<caller, mount, resets, challenges, styles, told, used>>

(* PDF.js asks for the password. *)
RequestPassword ==
    /\ pdf.task = "loading" /\ caller.locked
    /\ IF ~caller.listens
       THEN /\ engine' = [engine EXCEPT !.unasked = TRUE]
            /\ pdf' = [pdf EXCEPT !.task = "refused"]
            /\ UNCHANGED challenges
       ELSE /\ Cardinality(DOMAIN challenges) < MaxChallenges
            /\ challenges' = [k \in DOMAIN challenges \cup {Cardinality(DOMAIN challenges) + 1} |->
                 IF k \in DOMAIN challenges THEN challenges[k]
                 ELSE [answered |-> FALSE, answers |-> 0]]
            /\ pdf' = [pdf EXCEPT !.task = "asking"]
            /\ UNCHANGED engine
    /\ UNCHANGED <<caller, open, mount, resets, styles, told, used>>

Answer(k) ==
    IF challenges[k].answered THEN challenges[k]
    ELSE [answered |-> TRUE, answers |-> challenges[k].answers + 1]

(* submit and cancel of any challenge the page was given *)
AnswerChallenge(k, outcome) ==
    /\ k \in DOMAIN challenges
    /\ used.calls < MaxCalls /\ used' = [used EXCEPT !.calls = @ + 1]
    /\ challenges' = [challenges EXCEPT ![k] = Answer(k)]
    /\ pdf' = IF challenges[k].answered \/ pdf.task # "asking" THEN pdf
              ELSE [pdf EXCEPT !.task = CASE outcome = "right"  -> "unlocked"
                                          [] outcome = "wrong"  -> "loading"
                                          [] outcome = "cancel" -> "refused"]
    /\ UNCHANGED <<caller, engine, open, mount, resets, styles, told>>

(* The task ends: PDF.js has parsed the document or refuses it. *)
Load ==
    /\ pdf.task = "unlocked" \/ (pdf.task = "loading" /\ ~caller.locked)
    /\ \E t \in {"loaded", "refused"} : pdf' = [pdf EXCEPT !.task = t]
    /\ UNCHANGED <<caller, engine, open, mount, resets, challenges, styles, told, used>>

Opened ==
    /\ open = "loading" /\ pdf.task = "loaded"
    /\ open' = "outline"
    /\ engine' = [engine EXCEPT !.document = TRUE]
    /\ UNCHANGED <<caller, pdf, mount, resets, challenges, styles, told, used>>

(* getMetadata, getOutline and mapOutline; they fail on what is closed. *)
Outlined ==
    /\ open = "outline"
    /\ open' = IF engine.document /\ pdf.task = "loaded" THEN "done" ELSE "failed"
    /\ UNCHANGED <<caller, engine, pdf, mount, resets, challenges, styles, told, used>>

OpenFails ==
    /\ open = "loading" /\ pdf.task \in {"refused", "destroyed"}
    /\ open' = IF engine.unasked THEN "needs password" ELSE "resetting"
    /\ StartReset("open")
    /\ UNCHANGED <<caller, mount, challenges, styles, told, used>>

OpenFailed ==
    /\ EndReset("open")
    /\ open' = IF open = "resetting" THEN "failed" ELSE open
    /\ UNCHANGED <<caller, pdf, mount, challenges, styles, told, used>>

(***************************************************************************)
(* mount                                                                   *)
(***************************************************************************)
ensurePdfViewerStyles ==
    IF styles.promise \in {"none", "rejected"} THEN "pending" ELSE styles.promise

Mount ==
    /\ open = "done" /\ mount = "no" /\ caller.listens /\ ~used.closed
    /\ engine.document
    /\ mount' = "styles"
    /\ styles' = [styles EXCEPT !.promise = ensurePdfViewerStyles, !.waitedSince = styles.failures]
    /\ UNCHANGED <<caller, engine, pdf, open, resets, challenges, told, used>>

FetchStyles ==
    /\ styles.promise = "pending"
    /\ \/ styles' = [styles EXCEPT !.promise = "loaded"]
       \/ styles.failures = 0 /\ styles' = [styles EXCEPT !.promise = "rejected", !.failures = @ + 1]
    /\ UNCHANGED <<caller, engine, pdf, open, mount, resets, challenges, told, used>>

StylesFail ==
    /\ mount = "styles" /\ styles.promise = "rejected"
    /\ mount' = "failed"
    /\ UNCHANGED <<caller, engine, pdf, open, resets, challenges, styles, told, used>>

(* The viewer is made for the document that was there when mount() began. *)
MakeViewer ==
    /\ mount = "styles" /\ styles.promise = "loaded"
    /\ mount' = "pagesinit"
    /\ engine' = [engine EXCEPT !.viewer = TRUE, !.listening = TRUE]
    /\ pdf' = [pdf EXCEPT !.page = 1, !.text = {}, !.filled = FALSE]
    /\ UNCHANGED <<caller, open, resets, challenges, styles, told, used>>

(* pagesinit never comes for a document that is gone. *)
PagesInit ==
    /\ mount = "pagesinit" /\ pdf.task = "loaded"
    /\ mount' = "first page"
    /\ pdf' = [applyPdfPreferences(engine, pdf, 0) EXCEPT !.filled = TRUE]
    /\ UNCHANGED <<caller, engine, open, resets, challenges, styles, told, used>>

FirstPage ==
    /\ mount = "first page" /\ mount' = "done"
    /\ pdf' = renderVisibleAnnotations(engine, pdf)
    /\ UNCHANGED <<caller, engine, open, resets, challenges, styles, told, used>>

(***************************************************************************)
(* Calls of the page, and what PDF.js reports                              *)
(***************************************************************************)
Call ==
    /\ open = "done" /\ mount = "done" /\ ~used.closed
    /\ used.calls < MaxCalls /\ used' = [used EXCEPT !.calls = @ + 1]
    /\ UNCHANGED <<caller, open, mount, resets, challenges, styles>>

handlePageChanging(e, page) ==
    IF e.document THEN engine' = [e EXCEPT !.pageNumber = page] /\ told' = page
    ELSE engine' = e /\ UNCHANGED told

(* The setter of the viewer's currentPageNumber: PDF.js dispatches         *)
(* pagechanging for another page only.                                     *)
SetPage(e, page) ==
    /\ pdf' = [pdf EXCEPT !.page = page]
    /\ IF page # pdf.page THEN handlePageChanging(e, page)
       ELSE engine' = e /\ UNCHANGED told

(* The page asked for may be one of another edition of the book. *)
goTo(page) ==
    /\ Call
    /\ LET shown == IF page < 1 THEN 1 ELSE IF page > Pages THEN Pages ELSE page
       IN  SetPage([engine EXCEPT !.pageNumber = shown], shown)

(* A share of the book in quarters. *)
goToProgression(quarter) ==
    goTo(IF Pages <= 1 THEN 1 ELSE ((2 * quarter * (Pages - 1) + 4) \div 8) + 1)

next ==
    /\ Call
    /\ SetPage(engine, IF pdf.page < Pages THEN pdf.page + 1 ELSE pdf.page)

previous ==
    /\ Call
    /\ SetPage(engine, IF pdf.page > 1 THEN pdf.page - 1 ELSE pdf.page)

setAnnotations(S) ==
    /\ Call
    /\ engine' = [engine EXCEPT !.annotations = S]
    /\ pdf' = renderVisibleAnnotations(engine', pdf)
    /\ UNCHANGED told

applyPreferences ==
    /\ Call
    /\ pdf' = applyPdfPreferences(engine, pdf, 1 - pdf.scale)
    /\ UNCHANGED <<engine, told>>

(* The reader scrolls. *)
Scroll(page) ==
    /\ engine.viewer /\ pdf.filled /\ pdf.task = "loaded" /\ page # pdf.page
    /\ SetPage(engine, page)
    /\ UNCHANGED <<caller, open, mount, resets, challenges, styles, used>>

handleTextLayerRendered(page) ==
    /\ engine.viewer /\ pdf.filled /\ pdf.task = "loaded" /\ page \notin pdf.text
    /\ pdf' = renderPageAnnotations(engine, [pdf EXCEPT !.text = @ \cup {page}], page)
    /\ UNCHANGED <<caller, engine, open, mount, resets, challenges, styles, told, used>>

(* PDF.js drops a page that is out of sight. *)
Evict(page) ==
    /\ engine.viewer /\ page \in pdf.text /\ page # pdf.page
    /\ pdf' = [pdf EXCEPT !.text = @ \ {page}, !.layers[page] = {}]
    /\ UNCHANGED <<caller, engine, open, mount, resets, challenges, styles, told, used>>

(***************************************************************************)
(* close                                                                   *)
(***************************************************************************)
Close ==
    /\ open # "no" /\ ~used.closed
    /\ used' = [used EXCEPT !.closed = TRUE,
                            !.overtaken = open = "source" \/ mount = "styles"]
    /\ StartReset("close")
    /\ UNCHANGED <<caller, open, mount, challenges, styles, told>>

Closed ==
    /\ EndReset("close")
    /\ UNCHANGED <<caller, pdf, open, mount, challenges, styles, told, used>>

(* The next book, with an engine of its own. *)
NextEngine ==
    /\ used.closed /\ resets = {} /\ ~used.overtaken /\ used.engines < MaxEngines
    /\ open \in {"done", "failed", "needs password"}
    /\ caller' \in [listens : BOOLEAN, locked : BOOLEAN]
    /\ engine' = NewEngine /\ pdf' = NewPdf
    /\ open' = "no" /\ mount' = "no" /\ challenges' = <<>> /\ told' = None
    /\ used' = [calls |-> 0, engines |-> used.engines + 1, closed |-> FALSE, overtaken |-> FALSE]
    /\ UNCHANGED <<resets, styles>>

Next ==
    \/ Open \/ SourceFails \/ GetDocument \/ RequestPassword \/ Load
    \/ \E k \in 1 .. MaxChallenges, outcome \in {"right", "wrong", "cancel"} :
         AnswerChallenge(k, outcome)
    \/ Opened \/ Outlined \/ OpenFails \/ OpenFailed
    \/ Mount \/ FetchStyles \/ StylesFail \/ MakeViewer \/ PagesInit \/ FirstPage
    \/ \E page \in 0 .. Pages + 1 : goTo(page)
    \/ \E quarter \in 0 .. 4 : goToProgression(quarter)
    \/ next \/ previous \/ applyPreferences
    \/ \E S \in SUBSET Annotations : setAnnotations(S)
    \/ \E page \in PageSet : Scroll(page) \/ handleTextLayerRendered(page) \/ Evict(page)
    \/ Close \/ Closed \/ NextEngine

Spec == Init /\ [][Next]_vars

(***************************************************************************)
(* Properties                                                              *)
(***************************************************************************)
(* PDF.js is given one answer to each password it asks for, however often  *)
(* the buttons are pressed and the page is left (answered in               *)
(* requestPassword).                                                       *)
AnsweredOnce == \A k \in DOMAIN challenges : challenges[k].answers <= 1

(* A closed engine has left the page: no listener on its document, no      *)
(* viewer and no task of PDF.js (resetDocument).  A close that overtakes   *)
(* the reading of the file or of the style sheet is excepted: what open()  *)
(* or mount() create after it stays.                                       *)
ClosedHoldsNothing ==
    used.closed /\ resets = {} /\ ~used.overtaken
        /\ open \in {"done", "failed", "needs password"} =>
      engine = NewEngine /\ pdf.task \in {"none", "destroyed"}

(* The page reported last is the page shown, and it is a page of the       *)
(* document (goTo, handlePageChanging).                                    *)
ReportsShownPage ==
    /\ pdf.page \in PageSet
    /\ engine.viewer /\ told # None => told = pdf.page /\ engine.pageNumber = pdf.page

(* A page whose text is rendered shows the annotations of the book on it   *)
(* as they are now, at the scale of now (handleTextLayerRendered,          *)
(* renderVisibleAnnotations).                                              *)
LayersFollow ==
    mount = "done" /\ engine.viewer =>
      \A page \in pdf.text :
        pdf.layers[page] = {<<a, pdf.scale>> : a \in {b \in engine.annotations : PageOf[b] = page}}

(* A style sheet that failed to load is fetched again by the next mount    *)
(* (stylesheetPromise): a mount fails by a failure of its own time only.   *)
StylesRetried == mount = "failed" => styles.failures > styles.waitedSince

\* However closing, passwords, rendering and annotations overlap, the engine
\* answers once, holds nothing after close, and shows and reports the page it
\* is at.
PdfIsSound ==
    /\ AnsweredOnce
    /\ ClosedHoldsNothing
    /\ ReportsShownPage
    /\ LayersFollow
    /\ StylesRetried
===============================================================================
