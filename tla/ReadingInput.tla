----------------------------- MODULE ReadingInput -----------------------------
(***************************************************************************)
(* Fingers, wheel and keys that turn pages: the handlers that              *)
(* EpubReaderEngine puts on the documents of a book                        *)
(* (libs/reader/epub/src/lib/epub-reader-engine.ts), the ones of the       *)
(* reader page for a PDF (reader-page.component.ts), and the gestures they *)
(* share (libs/reader/domain/src/lib/reader-navigation.ts).                *)
(*                                                                         *)
(* A browser reports one finger as pointer events, as touch events or as   *)
(* both, and hands each event of a book to the handler once for the        *)
(* document, once for its root and once for its body.                      *)
(***************************************************************************)
EXTENDS Naturals, Sequences, FiniteSets

CONSTANTS
    Fingers,
    Interval,   \* WHEEL_NAVIGATION_INTERVAL_MS
    Longest,    \* MAXIMUM_SWIPE_DURATION_MS
    MaxTime,    \* bound on the clock
    None

VARIABLES
    surface,    \* "epub" or "pdf"
    delivers,   \* the kinds of events the browser has for a finger
    reading,    \* readingDirection
    down,       \* the fingers on the screen
    gesture,    \* the pointer and the touch gesture that have started
    blocked,    \* loading, an error, a selection made or a panel open
    busy,       \* navigationBusy: a turn asked of the page goes on
    clock,
    lastWheel,  \* lastWheelNavigationAt
    contact,    \* history: fingers met, and the turns asked for
    turns       \* history: the times at which the wheel turned a page

vars == <<surface, delivers, reading, down, gesture, blocked, busy, clock,
          lastWheel, contact, turns>>

(* How often an event reaches its handler: selectionActionTargets *)
Targets == IF surface = "epub" THEN 3 ELSE 1

(***************************************************************************)
(* reader-navigation.ts                                                    *)
(***************************************************************************)
Opposite(d) == IF d = "next" THEN "previous" ELSE "next"

(* Gesture of the finger, or None: only the primary one, and only away     *)
(* from links and buttons.                                                 *)
startTouchNavigationGesture(f, isPrimary, onControl) ==
    IF isPrimary /\ ~onControl THEN [finger |-> f, at |-> clock] ELSE None

(* event.touches holds every finger that is down. *)
startTouchEventNavigationGesture(f, onControl) ==
    IF Cardinality(down') # 1 THEN None
    ELSE startTouchNavigationGesture(f, TRUE, onControl)

(* way: "left", "right", or "short" for what is no swipe sideways *)
touchNavigationDirection(g, f, way) ==
    IF g.finger # f \/ clock - g.at > Longest \/ way = "short" THEN None
    ELSE LET physical == IF way = "left" THEN "next" ELSE "previous"
         IN  IF reading = "ltr" THEN physical ELSE Opposite(physical)

keyboardNavigationDirection(key) ==
    CASE key = "ArrowLeft"  -> IF reading = "rtl" THEN "next" ELSE "previous"
      [] key = "ArrowRight" -> IF reading = "rtl" THEN "previous" ELSE "next"
      [] key = "ArrowUp"    -> "previous"
      [] key = "ArrowDown"  -> "next"

(***************************************************************************)
(* The handlers.  g holds both gestures and what was asked for.            *)
(***************************************************************************)
(* The page takes no finger while it is blocked or turns a page; the       *)
(* engine takes all of them and leaves it to navigate().                   *)
Refused == surface = "pdf" /\ (blocked \/ busy)

(* pointerDownHandler; onPublicationPointerDown *)
PointerDown(g, f, isPrimary, onControl) ==
    [g EXCEPT !.pointer = IF Refused THEN None
                          ELSE startTouchNavigationGesture(f, isPrimary, onControl)]

(* touchStartHandler; onPublicationTouchStart *)
TouchStart(g, f, onControl) ==
    [g EXCEPT !.touch = IF Refused THEN None
                        ELSE startTouchEventNavigationGesture(f, onControl)]

\* Mutant: the gesture of the other kind of events is kept.
PointerUpKeepingTouch(g, f, way, selected) ==
    LET direction == touchNavigationDirection(g.pointer, f, way)
    IN  IF g.pointer = None \/ Refused \/ selected \/ direction = None
        THEN [g EXCEPT !.pointer = None]
        ELSE [g EXCEPT !.pointer = None, !.asked = Append(@, direction)]

(* pointerUpHandler; onPublicationPointerUp *)
PointerUp(g, f, way, selected) ==
    LET direction == touchNavigationDirection(g.pointer, f, way)
    IN  IF g.pointer = None \/ Refused \/ selected \/ direction = None
        THEN [g EXCEPT !.pointer = None]
        ELSE [g EXCEPT !.pointer = None, !.touch = None, !.asked = Append(@, direction)]

(* touchEndHandler; onPublicationTouchEnd *)
TouchEnd(g, f, way, selected) ==
    LET direction == touchNavigationDirection(g.touch, f, way)
    IN  IF g.touch = None \/ Refused \/ selected \/ direction = None
        THEN [g EXCEPT !.touch = None]
        ELSE [g EXCEPT !.pointer = None, !.touch = None, !.asked = Append(@, direction)]

(* The handler runs for each target of the event. *)
Each(Handler(_), g) ==
    IF Targets = 1 THEN Handler(g) ELSE Handler(Handler(Handler(g)))

(* What follows a request: the page starts to turn. *)
Asked(g) ==
    /\ gesture' = g
    /\ busy' = (busy \/ (surface = "pdf" /\ g.asked # <<>>))

(***************************************************************************)
Init ==
    /\ surface \in {"epub", "pdf"}
    /\ delivers \in SUBSET {"pointer", "touch"} \ {{}}
    /\ reading \in {"ltr", "rtl"}
    /\ down = {}
    /\ gesture = [pointer |-> None, touch |-> None, asked |-> <<>>]
    /\ blocked = FALSE /\ busy = FALSE
    /\ clock = Interval /\ lastWheel = 0
    /\ contact = [met |-> FALSE, lifted |-> None, key |-> None]
    /\ turns = <<>>

Idle == [gesture EXCEPT !.asked = <<>>]

(* A finger is put down: pointerdown, then touchstart.  The first one to   *)
(* be down is the primary pointer.                                         *)
Down(f, onControl) ==
    /\ f \notin down
    /\ down' = down \cup {f}
    /\ LET D(g) == PointerDown(g, f, down = {}, onControl)
           T(g) == TouchStart(g, f, onControl)
           g1   == IF "pointer" \in delivers THEN Each(D, Idle) ELSE Idle
       IN  Asked(IF "touch" \in delivers THEN Each(T, g1) ELSE g1)
    /\ contact' = [met |-> down # {}, lifted |-> None, key |-> None]
    /\ UNCHANGED <<surface, delivers, reading, blocked, clock, lastWheel, turns>>

(* A finger is lifted: pointerup, then touchend.  A turn the first of them *)
(* has asked for is under way when the second one comes.                   *)
Up(f, way, selected) ==
    /\ f \in down
    /\ down' = down \ {f}
    /\ LET P(g) == PointerUp(g, f, way, selected)
           T(g) == TouchEnd(g, f, way, selected)
           g1   == IF "pointer" \in delivers THEN Each(P, Idle) ELSE Idle
           late == surface = "pdf" /\ g1.asked # <<>>
       IN  Asked(IF "touch" \notin delivers THEN g1
                 ELSE IF late THEN [g1 EXCEPT !.touch = None] ELSE Each(T, g1))
    /\ contact' = [contact EXCEPT !.lifted = way, !.key = None]
    /\ UNCHANGED <<surface, delivers, reading, blocked, clock, lastWheel, turns>>

(* The browser pans or zooms itself: pointercancel, touchcancel.  The page *)
(* looks which pointer it is, the engine does not.                         *)
Cancel(f) ==
    /\ f \in down
    /\ down' = down \ {f}
    /\ LET other == surface = "pdf" /\ gesture.pointer # None
                    /\ gesture.pointer.finger # f
       IN  gesture' = [pointer |-> IF other \/ "pointer" \notin delivers
                                   THEN gesture.pointer ELSE None,
                       touch   |-> IF "touch" \in delivers THEN None ELSE gesture.touch,
                       asked   |-> <<>>]
    /\ contact' = [contact EXCEPT !.lifted = None, !.key = None]
    /\ UNCHANGED <<surface, delivers, reading, blocked, busy, clock, lastWheel, turns>>

(* handleContentKeydown: an event is handled once, though the listener is  *)
(* on the document and on its window (handledKeyboardEvents).              *)
handleContentKeydown(event, key) ==
    IF event.handled THEN event
    ELSE [handled |-> TRUE, asked |-> Append(event.asked, keyboardNavigationDirection(key))]

onDocumentKeydown(key) ==
    IF blocked THEN <<>> ELSE <<keyboardNavigationDirection(key)>>

(* A key is typed into the book, or beside it. *)
Key(key, inBook) ==
    /\ inBook => surface = "epub"
    /\ contact' = [contact EXCEPT !.key = key]
    /\ LET fresh      == [handled |-> FALSE, asked |-> <<>>]
           atDocument == handleContentKeydown(fresh, key)
       IN  Asked([Idle EXCEPT !.asked = IF inBook
                                        THEN handleContentKeydown(atDocument, key).asked
                                        ELSE onDocumentKeydown(key)])
    /\ UNCHANGED <<surface, delivers, reading, down, blocked, clock, lastWheel, turns>>

(* What a notch of the wheel leaves alone. *)
WheelFrame ==
    /\ gesture' = Idle
    /\ contact' = [contact EXCEPT !.key = None]
    /\ busy' = (busy \/ surface = "pdf")
    /\ UNCHANGED <<surface, delivers, reading, down, blocked, clock>>

(* handleContentWheel, onPublicationWheel: a notch that comes too early is *)
(* swallowed, as is one that reaches another target (handledWheelEvents).  *)
Wheel ==
    /\ Len(turns) < 2
    /\ ~(surface = "pdf" /\ blocked)
    /\ clock - lastWheel >= Interval
    /\ turns' = Append(turns, clock)
    /\ lastWheel' = clock
    /\ WheelFrame

(* A panel, a selection or an error comes or goes; a turn is over. *)
Block ==
    /\ blocked' = ~blocked
    /\ gesture' = Idle
    /\ contact' = [contact EXCEPT !.key = None, !.lifted = None]
    /\ UNCHANGED <<surface, delivers, reading, down, busy, clock, lastWheel, turns>>

Turned ==
    /\ busy /\ busy' = FALSE
    /\ gesture' = Idle
    /\ contact' = [contact EXCEPT !.key = None, !.lifted = None]
    /\ UNCHANGED <<surface, delivers, reading, down, blocked, clock, lastWheel, turns>>

Tick ==
    /\ clock < MaxTime
    /\ clock' = clock + 1
    /\ gesture' = Idle
    /\ contact' = [contact EXCEPT !.key = None, !.lifted = None]
    /\ UNCHANGED <<surface, delivers, reading, down, blocked, busy, lastWheel, turns>>

Next ==
    \/ \E f \in Fingers, onControl \in BOOLEAN : Down(f, onControl)
    \/ \E f \in Fingers, way \in {"left", "right", "short"}, selected \in BOOLEAN :
         Up(f, way, selected)
    \/ \E f \in Fingers : Cancel(f)
    \/ \E key \in {"ArrowLeft", "ArrowRight", "ArrowUp", "ArrowDown"}, inBook \in BOOLEAN :
         Key(key, inBook)
    \/ Wheel \/ Block \/ Turned \/ Tick

Spec == Init /\ [][Next]_vars

(***************************************************************************)
(* Properties                                                              *)
(***************************************************************************)
(* One swipe, or one key, asks for at most one turn, although it arrives   *)
(* as two kinds of events and at three targets (the gestures that          *)
(* pointerUpHandler and touchEndHandler delete, handledKeyboardEvents).    *)
OneTurnPerInput == Len(gesture.asked) <= 1

(* Two fingers that were down together never turn a page, in whatever      *)
(* order they are lifted (startTouchEventNavigationGesture, isPrimary).    *)
PinchNeverTurns == contact.met /\ contact.key = None => gesture.asked = <<>>

(* The wheel turns at most one page in an interval.                        *)
OneTurnPerInterval ==
    \A i, j \in DOMAIN turns : i < j => turns[j] - turns[i] >= Interval

(* A swipe that pulls the text to the left, and the right arrow key, turn  *)
(* the same way in books of either direction (touchNavigationDirection,    *)
(* keyboardNavigationDirection).                                           *)
SwipeAgreesWithArrow ==
    gesture.asked # <<>> /\ contact.key = None /\ contact.lifted # None =>
      gesture.asked[1] = keyboardNavigationDirection(
                           IF contact.lifted = "left" THEN "ArrowRight" ELSE "ArrowLeft")

\* However a gesture is split into events, it turns a page exactly as the
\* reader meant it.
TurnsAreMeant ==
    /\ OneTurnPerInput
    /\ PinchNeverTurns
    /\ OneTurnPerInterval
    /\ SwipeAgreesWithArrow
===============================================================================
