------------------------------ MODULE EpubEngine ------------------------------
(***************************************************************************)
(* The EPUB engine (libs/reader/epub/src/lib/epub-reader-engine.ts).       *)
(*                                                                         *)
(* The engine drives a renderer (epub.ts) that works through its calls in  *)
(* order and says where it is later than it shows it: what the engine      *)
(* reports is a place it read, corrected by the section it expects.  Page  *)
(* turns across the border of two sections are the engine's own work.      *)
(*                                                                         *)
(* A place is a section of the book and a page of it.  A call of the       *)
(* engine is a record whose pc names the await it is at: "display" for the *)
(* renderer, "frame" for refreshRenditionLocation, "generate" for the      *)
(* locations of the book.                                                  *)
(***************************************************************************)
EXTENDS Naturals, Sequences, FiniteSets

CONSTANTS
    Pages,        \* the number of pages of each section
    Fixed,        \* sections with a fixed layout
    Renderers,    \* subset of {"prompt", "late"}
    MaxCalls,     \* bound on calls and clicks
    MaxFailures,  \* bound on calls the renderer refuses
    Forward, Backward,  \* next() and prev() of the renderer
    None

Sections == DOMAIN Pages
Place(s, p) == [section |-> s, page |-> p]
AllPlaces == UNION {{Place(s, p) : p \in 1..Pages[s]} : s \in Sections}
First == Place(1, 1)
Succ(x) == IF x.page < Pages[x.section] THEN Place(x.section, x.page + 1)
           ELSE IF x.section < Len(Pages) THEN Place(x.section + 1, 1) ELSE x
Pred(x) == IF x.page > 1 THEN Place(x.section, x.page - 1)
           ELSE IF x.section > 1 THEN Place(x.section - 1, Pages[x.section - 1]) ELSE x

VARIABLES
    renderer,  \* whether the renderer says where it is within a frame
    epub,      \* the fields of EpubReaderEngine
    screen,    \* the renderer: the place shown and the place it reports
    calls,     \* calls in progress, in the order of the renderer's queue
    allowance, \* calls and failures left
    story      \* history: what the properties compare with

vars == <<renderer, epub, screen, calls, allowance, story>>

Layout(s) == IF s \in Fixed THEN "fixed" ELSE "flow"

(***************************************************************************)
(* Where the book is.                                                      *)
(***************************************************************************)
(* updateLocator: until a place in the expected section was read, the      *)
(* locator names that section and no page of it.  status stands for the    *)
(* page and the number of pages of currentPageStatus.                      *)
updateLocator(e, location, notify, section) ==
    LET expected == IF section = None THEN e.expected ELSE section
        seen     == expected = None \/ expected = location.section
        locator  == IF seen THEN location ELSE Place(expected, None)
    IN  IF location = None THEN e
        ELSE [e EXCEPT !.expected = IF seen THEN None ELSE expected,
                       !.locator = locator, !.status = location,
                       !.notified = IF notify THEN locator ELSE @]

(* currentLocation() of a renderer that was destroyed is empty. *)
CurrentLocation == IF epub.rendition THEN screen.reported ELSE None

(* currentSection(): by the place of the renderer, or by the locator *)
currentSection(e) ==
    IF CurrentLocation # None THEN CurrentLocation.section
    ELSE IF e.locator # None THEN e.locator.section ELSE None

(***************************************************************************)
(* Presentation and content handlers.                                      *)
(***************************************************************************)
(* A theme of the reader is put on, or taken off, every document. *)
prepareSectionTheme(e, s) ==
    IF ~e.rendition \/ s = None \/ Layout(s) = e.layout THEN e
    ELSE [e EXCEPT !.themed = Layout(s) = "flow"]

(* A frame that the renderer fills again for another flow is taken to be   *)
(* reported as new Contents, whose hook puts the listeners back.           *)
applySectionPresentation(e, s) ==
    IF s = None THEN e ELSE [e EXCEPT !.layout = Layout(s)]

(* handleRenderedContent, attachContentDocument with refresh: the document *)
(* shown gets the theme of the current layout and a new set of handlers,   *)
(* with the annotations drawn.                                             *)
handleRenderedContent(e, s) ==
    [e EXCEPT !.themed = e.layout = "flow", !.documents = @ \cup {s},
              !.listening = TRUE, !.drawn = e.annotations]

attachRenditionContentHandlers(e, s) ==
    IF e.rendition THEN handleRenderedContent(e, s) ELSE e

(* handleRelocated *)
handleRelocated(e, location) ==
    updateLocator([prepareSectionTheme(e, location.section) EXCEPT
                     !.frame = location.section],
                  location, TRUE, None)

(***************************************************************************)
(* Calls.                                                                  *)
(***************************************************************************)
(* to: what the renderer is asked for; section: the section expected;      *)
(* back: the place one forward turn returns to.                            *)
Call(op, pc, to, section, back) ==
    [op |-> op, pc |-> pc, to |-> to, section |-> section, back |-> back]

StartNext(e0) ==
    LET e      == updateLocator(e0, CurrentLocation, FALSE, None)
        back   == e.returnTo
        target == IF back # None THEN back.section
                  ELSE IF e.status # None /\ e.status.page >= Pages[e.status.section]
                          /\ currentSection(e) < Len(Pages)
                  THEN currentSection(e) + 1 ELSE None
        to     == IF back # None THEN back
                  ELSE IF target # None THEN Place(target, 1) ELSE Forward
    IN  [epub |-> prepareSectionTheme([e EXCEPT !.returnTo = None], target),
         call |-> Call("next", "display", to, target, None)]

\* Mutant: the place to return to is not remembered.
StartPreviousForgetting(e0) ==
    LET e      == updateLocator([e0 EXCEPT !.returnTo = None], CurrentLocation, FALSE, None)
    IN  [epub |-> e, call |-> Call("previous", "display", Backward, None, None)]

StartPrevious(e0) ==
    LET e      == updateLocator([e0 EXCEPT !.returnTo = None], CurrentLocation, FALSE, None)
        s      == currentSection(e)
        target == IF e.status # None /\ e.status.page <= 1 /\ s > 1 THEN s - 1 ELSE None
        back   == IF target = None THEN None
                  ELSE IF e.locator.page # None THEN e.locator ELSE Place(s, 1)
        known  == target # None /\ target \in e.ends
        e2     == prepareSectionTheme(e, target)
    IN  [epub |-> IF known THEN applySectionPresentation(e2, target) ELSE e2,
         call |-> Call(IF known THEN "previousKnown" ELSE "previous", "display",
                       IF known THEN Place(target, Pages[target]) ELSE Backward, target, back)]

(* goTo, goToProgression, navigateInternalLink, routePublicationLink *)
StartDisplay(e0, op, to) ==
    LET e == IF op = "link" THEN e0 ELSE [e0 EXCEPT !.returnTo = None]
    IN  [epub |-> prepareSectionTheme(e, to.section),
         call |-> Call(op, "display", to, to.section, None)]

(***************************************************************************)
NewEngine ==
    [book |-> FALSE, rendition |-> FALSE, closed |-> FALSE,
     locator |-> None, notified |-> None, status |-> None, expected |-> None,
     returnTo |-> None, ends |-> {}, layout |-> "flow", themed |-> FALSE,
     documents |-> {}, listening |-> FALSE, frame |-> None, monitor |-> FALSE,
     annotations |-> 0, drawn |-> 0]

Init ==
    /\ renderer \in Renderers
    /\ epub = NewEngine
    /\ screen = [at |-> None, reported |-> None]
    /\ calls = <<Call("open", "load", None, None, None)>>
    /\ allowance = [calls |-> MaxCalls, failures |-> MaxFailures]
    /\ story = [from |-> None, crossed |-> FALSE, linked |-> FALSE, done |-> None]

(* A call is over; done names it and the place it should have led to. *)
Over(i, done) ==
    /\ calls' = [j \in 1..(Len(calls) - 1) |-> IF j < i THEN calls[j] ELSE calls[j + 1]]
    /\ story' = [story EXCEPT !.done = done, !.crossed = @ \/ done = "refused"]

GoesOn(i, call) ==
    /\ calls' = [calls EXCEPT ![i] = call]
    /\ UNCHANGED story

Queued == {i \in DOMAIN calls : calls[i].pc = "display"}
Turning == \E i \in DOMAIN calls : calls[i].op \in {"next", "previous", "previousKnown"}

(***************************************************************************)
(* Opening.                                                                *)
(***************************************************************************)
(* open: the book is kept also when the engine was closed meanwhile. *)
Open ==
    /\ calls # <<>> /\ calls[1].op = "open"
    /\ epub' = [epub EXCEPT !.book = TRUE]
    /\ Over(1, None)
    /\ UNCHANGED <<renderer, screen, allowance>>

(* The book is damaged: open closes the engine and fails. *)
OpenFails ==
    /\ calls # <<>> /\ calls[1].op = "open"
    /\ allowance.failures > 0
    /\ allowance' = [allowance EXCEPT !.failures = @ - 1]
    /\ epub' = [NewEngine EXCEPT !.closed = TRUE]
    /\ Over(1, None)
    /\ UNCHANGED <<renderer, screen>>

Mount ==
    /\ epub.book /\ ~epub.rendition /\ ~epub.closed /\ calls = <<>>
    /\ epub' = [epub EXCEPT !.rendition = TRUE, !.layout = Layout(1),
                            !.themed = Layout(1) = "flow"]
    /\ calls' = <<Call("mount", "display", First, None, None)>>
    /\ UNCHANGED <<renderer, screen, allowance, story>>

(* locations.generate has passed over every section, or has failed. *)
Generate(ok) ==
    /\ \E i \in DOMAIN calls :
         /\ calls[i].pc = "generate"
         /\ IF ok THEN UNCHANGED allowance
            ELSE /\ allowance.failures > 0
                 /\ allowance' = [allowance EXCEPT !.failures = @ - 1]
         /\ epub' = [epub EXCEPT !.ends = IF ok THEN Sections ELSE @]
         /\ IF ok /\ epub.rendition
            THEN GoesOn(i, [calls[i] EXCEPT !.pc = "frame", !.op = "located"])
            ELSE Over(i, None)
    /\ UNCHANGED <<renderer, screen>>

(***************************************************************************)
(* The renderer.                                                           *)
(***************************************************************************)
(* A step back over a border may stop one page short. *)
Landings(to) ==
    LET back == Pred(screen.at)
    IN  CASE to = Forward -> {Succ(screen.at)}
          [] to = Backward -> {back} \cup
                            {x \in AllPlaces : /\ x.section = back.section
                                               /\ x.section # screen.at.section
                                               /\ x.page = back.page - 1}
          [] OTHER -> {to}

(* The renderer has shown the place: its content hook runs, then what the  *)
(* call does before refreshRenditionLocation.                              *)
Show ==
    /\ Queued # {} /\ epub.rendition
    /\ LET i    == CHOOSE j \in Queued : \A k \in Queued : j <= k
           call == calls[i]
       IN  \E at \in Landings(call.to) :
             LET section == IF call.section # None THEN call.section ELSE at.section
                 e       == attachRenditionContentHandlers(
                              applySectionPresentation(
                                handleRenderedContent(epub, at.section), section),
                              at.section)
             IN  /\ screen' = [at |-> at,
                               reported |-> IF screen.reported = None THEN at
                                            ELSE screen.reported]
                 /\ epub' = IF call.op = "mount" THEN [e EXCEPT !.monitor = TRUE] ELSE e
                 /\ IF call.op = "route" THEN Over(i, None)
                    ELSE GoesOn(i, [call EXCEPT !.pc = "frame",
                                      !.section = IF call.op \in {"mount", "link"} THEN None
                                                  ELSE section])
    /\ UNCHANGED <<renderer, allowance>>

(* The renderer refuses: the call rejects.  A book whose first display was *)
(* refused stays unmounted until the page closes it.                       *)
Refuse ==
    /\ Queued # {} /\ epub.rendition
    /\ allowance.failures > 0
    /\ allowance' = [allowance EXCEPT !.failures = @ - 1]
    /\ LET i == CHOOSE j \in Queued : \A k \in Queued : j <= k
       IN  Over(i, "refused")
    /\ UNCHANGED <<renderer, epub, screen>>

(* The renderer finds out where it is, and the relocated event is handled. *)
Relocate ==
    /\ epub.rendition /\ screen.at # screen.reported
    /\ screen' = [screen EXCEPT !.reported = screen.at]
    /\ epub' = handleRelocated(epub, screen.at)
    /\ UNCHANGED <<renderer, calls, allowance, story>>

(* The animation frame of scheduleSectionPresentation *)
PresentationFrame ==
    /\ epub.frame # None
    /\ epub' = applySectionPresentation([epub EXCEPT !.frame = None], epub.frame)
    /\ UNCHANGED <<renderer, screen, calls, allowance, story>>

(* refreshRenditionLocation has waited for a frame. *)
Settled == renderer = "prompt" => (screen.at = screen.reported \/ ~epub.rendition)

Read(call, notify) ==
    IF epub.rendition THEN updateLocator(epub, CurrentLocation, notify, call.section)
    ELSE epub

Frame ==
    /\ Settled
    /\ \E i \in DOMAIN calls :
         LET call == calls[i]
         IN  /\ call.pc = "frame"
             /\ \/ /\ call.op \in {"goTo", "link", "located"}
                   /\ epub' = Read(call, TRUE)
                   /\ Over(i, None)
                \/ /\ call.op = "preferences"
                   /\ epub' = IF epub.rendition
                              THEN attachRenditionContentHandlers(Read(call, FALSE),
                                                                  screen.at.section)
                              ELSE epub
                   /\ Over(i, None)
                \/ /\ call.op = "next"
                   /\ epub' = Read(call, TRUE)
                   /\ Over(i, "next")
                \/ /\ call.op \in {"previousKnown", "overshot"}
                   /\ epub' = [Read(call, TRUE) EXCEPT !.returnTo = call.back]
                   /\ Over(i, "previous")
                \/ /\ call.op = "mount"
                   /\ epub' = Read(call, FALSE)
                   /\ IF epub.book THEN GoesOn(i, [call EXCEPT !.pc = "generate"])
                      ELSE Over(i, None)
    /\ UNCHANGED <<renderer, screen, allowance>>

(* previous() without a known end: a step short of the end is corrected. *)
FramePrevious ==
    /\ Settled
    /\ \E i \in DOMAIN calls :
         LET call  == calls[i]
             e     == Read(call, call.back = None)
             short == CurrentLocation # None
                      /\ CurrentLocation.page # Pages[CurrentLocation.section]
         IN  /\ call.pc = "frame" /\ call.op = "previous"
             /\ IF call.back # None /\ short
                THEN /\ epub' = e
                     /\ calls' = [calls EXCEPT ![i].pc = "display", ![i].op = "overshot",
                                               ![i].to = Forward]
                     /\ story' = [story EXCEPT !.crossed = @ \/ screen.at # screen.reported]
                ELSE /\ epub' = [(IF call.back = None THEN e
                                  ELSE updateLocator(e, CurrentLocation, TRUE, call.section))
                                 EXCEPT !.returnTo = call.back]
                     /\ Over(i, "previous")
    /\ UNCHANGED <<renderer, screen, allowance>>

(***************************************************************************)
(* The reader page and the reader.                                         *)
(***************************************************************************)
Mounted ==
    epub.rendition /\ screen.at # None
      /\ \A i \in DOMAIN calls : calls[i].op \notin {"mount", "located"}

Spend ==
    /\ allowance.calls > 0
    /\ allowance' = [allowance EXCEPT !.calls = @ - 1]

Starts(d, linked) ==
    /\ Spend
    /\ epub' = d.epub
    /\ calls' = Append(calls, d.call)
    /\ LET overlaps == calls # <<>> \/ screen.at # screen.reported
       IN  story' = [story EXCEPT !.from = screen.at, !.done = None,
                                  !.crossed = overlaps \/ (@ /\ linked),
                                  !.linked = linked \/ overlaps]
    /\ UNCHANGED <<renderer, screen>>

(* The page turns one page at a time. *)
next == Mounted /\ calls = <<>> /\ Starts(StartNext(epub), story.linked)
previous == Mounted /\ calls = <<>> /\ Starts(StartPrevious(epub), FALSE)

(* goTo also while another call is in progress (a jump); goToProgression   *)
(* needs the generated locations.                                          *)
goTo(at) == Mounted /\ Starts(StartDisplay(epub, "goTo", at), FALSE)

navigateInternalLink(at) ==
    /\ epub.rendition /\ screen.at # None /\ epub.listening
    /\ Starts(StartDisplay(epub, "link", at), TRUE)

(* The frame has followed a rewritten link because its listeners were      *)
(* lost: the link is shown, or the section again that the reader was in.   *)
routePublicationLink(at) ==
    /\ epub.rendition /\ screen.at # None /\ ~epub.listening
    /\ Starts(StartDisplay(epub, "route", at), FALSE)

(* A new flow or theme makes the renderer fill the frame again, which      *)
(* takes the listeners away.                                               *)
applyPreferences ==
    /\ Mounted /\ Spend
    /\ epub' = [epub EXCEPT !.listening = FALSE,
                            !.themed = IF epub.layout = "flow" THEN TRUE ELSE @]
    /\ calls' = Append(calls, Call("preferences", "frame", None, None, None))
    /\ story' = [story EXCEPT !.done = None,
                              !.crossed = @ \/ calls # <<>> \/ epub.frame # None
                                          \/ screen.at # screen.reported]
    /\ UNCHANGED <<renderer, screen>>

setAnnotations ==
    /\ Mounted /\ Spend
    /\ epub' = [epub EXCEPT !.annotations = 1 - @,
                            !.drawn = IF epub.documents # {} THEN 1 - epub.annotations ELSE @]
    /\ UNCHANGED <<renderer, screen, calls, story>>

(* close: what the renderer has queued is never answered. *)
close ==
    /\ ~epub.closed
    /\ epub' = [NewEngine EXCEPT !.closed = TRUE]
    /\ calls' = SelectSeq(calls, LAMBDA c : c.pc # "display")
    /\ story' = [story EXCEPT !.done = None]
    /\ UNCHANGED <<renderer, screen, allowance>>

(***************************************************************************)
Next ==
    \/ Open \/ OpenFails \/ Mount \/ \E ok \in BOOLEAN : Generate(ok)
    \/ Show \/ Refuse \/ Relocate \/ PresentationFrame \/ Frame \/ FramePrevious
    \/ next \/ previous \/ applyPreferences \/ setAnnotations \/ close
    \/ \E at \in AllPlaces : goTo(at)
    \/ \E at \in AllPlaces : navigateInternalLink(at) \/ routePublicationLink(at)

Spec == Init /\ [][Next]_vars

(***************************************************************************)
(* Properties                                                              *)
(***************************************************************************)
AtRest ==
    calls = <<>> /\ epub.rendition /\ screen.at # None /\ screen.at = screen.reported

TypeOK ==
    /\ screen.at \in AllPlaces \cup {None}
    /\ epub.locator \in AllPlaces \cup {Place(s, None) : s \in Sections} \cup {None}
    /\ epub.returnTo \in AllPlaces \cup {None}
    /\ epub.expected \in Sections \cup {None}
    /\ epub.documents \subseteq Sections

(* When nothing is in progress the engine reports the place that is shown, *)
(* however late the renderer knows it, and has told its listeners so.      *)
(* Left out are calls that overlap, and a step back whose correction was   *)
(* decided on a place the renderer had left (updateLocator,                *)
(* pendingExpectedSection, lastNotifiedLocator).                           *)
ReportsPlace ==
    AtRest /\ ~story.crossed =>
      /\ epub.locator = screen.at
      /\ epub.notified \in {None, screen.at}

(* One step forward, or back, moves by one page, over the borders of       *)
(* sections and right after a step in the other direction, when the        *)
(* renderer reports in time (next, previous, previousBoundaryReturnTarget).*)
(* Left out are calls that overlap and a step forward after a link.        *)
TurnsOnePage ==
    renderer = "prompt" /\ calls = <<>> /\ epub.rendition
      /\ ~story.linked /\ ~story.crossed =>
      /\ story.done = "next" => screen.at = Succ(story.from)
      /\ story.done = "previous" => screen.at = Pred(story.from)

(* One step forward moves by one page also after a link was followed. *)
ForwardGoesOn ==
    renderer = "prompt" /\ calls = <<>> /\ epub.rendition /\ ~story.crossed
      /\ story.done = "next" => screen.at = Succ(story.from)

(* The document that is shown has the handlers and the annotations of the  *)
(* reader, also after it was filled again; once the engine is closed no    *)
(* document, timer or frame of it is left, whatever was in progress        *)
(* (attachContentDocument, applyPreferences, close).                       *)
HandlersFollow ==
    /\ calls = <<>> /\ epub.rendition /\ screen.at # None =>
         /\ epub.listening
         /\ epub.drawn = epub.annotations
         /\ screen.at.section \in epub.documents
    /\ epub.closed => epub.documents = {} /\ ~epub.monitor /\ epub.frame = None

(* The layout and the theme are those of the section that is shown         *)
(* (prepareSectionTheme, applySectionPresentation,                         *)
(* scheduleSectionPresentation).  Left out are calls that overlap and one  *)
(* that the renderer has refused.                                          *)
PresentationFits ==
    AtRest /\ epub.frame = None /\ ~story.crossed =>
      /\ epub.layout = Layout(screen.at.section)
      /\ epub.themed = (epub.layout = "flow")

\* Whatever order the renderer resolves, relocates and refills frames in, the
\* engine is where it says, turns one page at a time, and keeps its handlers
\* and presentation on what is shown.
EngineIsSound ==
    /\ ReportsPlace
    /\ TurnsOnePage
    /\ HandlersFollow
    /\ PresentationFits
===============================================================================
