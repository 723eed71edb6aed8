------------------------------ MODULE MCReader -------------------------------
(*****************************************************************************)
(* Small instances of the components of the reader and the library: the      *)
(* reading progress on two devices, the annotations and the page of an open  *)
(* book, the two engines, the input that turns pages, the preferences that   *)
(* devices share, and the library page.  They meet in the calls that each of *)
(* them models as its environment; one of them is there in a behaviour.      *)
(*****************************************************************************)
EXTENDS ProgressSync, Sequences, TLC

CONSTANTS Null, Forward, Backward, a1, a2, f1, f2, p1, p2, b1, b2, underline,
          text, plain, large, k1, k2

VARIABLES
    part,  \* the component that is there
    s1, s2, s3, s4, s5, s6, s7, s8, s9, s10, s11  \* its variables

parts == <<part, s1, s2, s3, s4, s5, s6, s7, s8, s9, s10, s11, vars>>

\* Each device reads, and they synchronize once each, or device 2 reads and
\* synchronizes again around the run of device 1, which may then push the document
\* of device 2 from what it listed before; or a call fails or its answer is lost,
\* and device 2 removes the publication.
SmallBudgets ==
    {[saves |-> <<n, 2 - n>>, runs |-> <<1, 1>>, pushes |-> <<0, 1>>, failures |-> 0, removers |-> {}] :
         n \in 0..1} \cup
    {[saves |-> <<1, 1>>, runs |-> <<1, 0>>, pushes |-> <<0, 1>>, failures |-> 1, removers |-> {2}]}

Notes == INSTANCE ReaderAnnotations WITH
    Existing <- {a1}, Fresh <- {f1, f2}, Places <- {p1, p2},
    Styles <- {underline}, Texts <- {text}, Stamps <- {0, 2}, MaxNow <- 1,
    MaxEvents <- 4, MaxWaiters <- 2, None <- Null, stored <- s1,
    journal <- s2, page <- s3, drawn <- s4, now <- s5, events <- s6,
    unsynced <- s7

Page == INSTANCE ReaderPage WITH
    Formats <- {"epub", "pdf"}, LastPlace <- 2, Milestones <- {0, 2},
    Progresses <- {Null, [at |-> 1, furthest |-> 2]}, BookmarkIds <- {b1, b2},
    MaxEvents <- 4, MaxFailures <- 1, None <- Null, format <- s1, phase <- s2,
    page <- s3, engine <- s4, moves <- s5, progressStore <- s6,
    bookmarkStore <- s7, budget <- s8, wish <- s9

Epub == INSTANCE EpubEngine WITH
    Pages <- <<2, 1>>, Fixed <- {2}, Renderers <- {"prompt", "late"},
    MaxCalls <- 3, MaxFailures <- 1, None <- Null, renderer <- s1, epub <- s2,
    screen <- s3, calls <- s4, allowance <- s5, story <- s6

Input == INSTANCE ReadingInput WITH
    Fingers <- {f1, f2}, Interval <- 2, Longest <- 1, MaxTime <- 5,
    None <- Null, surface <- s1, delivers <- s2, reading <- s3, down <- s4,
    gesture <- s5, blocked <- s6, busy <- s7, clock <- s8, lastWheel <- s9,
    contact <- s10, turns <- s11

Pdf == INSTANCE PdfEngine WITH
    Pages <- 3, Annotations <- {a1, a2},
    PageOf <- [a \in {a1, a2} |-> IF a = a1 THEN 1 ELSE 2], Geometric <- {a1},
    MaxCalls <- 5, MaxEngines <- 2, MaxChallenges <- 2, None <- Null,
    caller <- s1, engine <- s2, pdf <- s3, open <- s4, mount <- s5,
    resets <- s6, challenges <- s7, styles <- s8, told <- s9, used <- s10

Preferences == INSTANCE PreferenceSync WITH
    Devices <- {1, 2}, Fields <- {"size", "theme"}, Values <- {plain, large},
    Before <- [d \in {1, 2} |-> [f \in {"size", "theme"} |-> IF d = 2 THEN large ELSE plain]],
    Default <- plain, ChangeIds <- {1, 2}, MaxConflictRetries <- 1,
    MaxEdits <- 1, MaxFaults <- 1, MaxEvents <- 3, None <- Null, page <- s1,
    appending <- s2, stored <- s3, outbox <- s4, metadata <- s5,
    journal <- s6, sync <- s7, remote <- s8, made <- s9, used <- s10

Library == INSTANCE LibraryPage WITH
    Slots <- {k1, k2}, MaxEvents <- 2, repo <- s1, view <- s2, reloads <- s3,
    verdicts <- s4, acts <- s5, events <- s6, story <- s7

\* The reading progress while another component is there.
Rest == Init /\ budget.failures = 1

PartsInit ==
    \/ part = "progress" /\ Init
       /\ s1 = "absent" /\ s2 = "absent" /\ s3 = "absent" /\ s4 = "absent"
       /\ s5 = "absent" /\ s6 = "absent" /\ s7 = "absent" /\ s8 = "absent"
       /\ s9 = "absent" /\ s10 = "absent" /\ s11 = "absent"
    \/ part = "annotations" /\ Notes!Init /\ Rest
       /\ s8 = "absent" /\ s9 = "absent" /\ s10 = "absent" /\ s11 = "absent"
    \/ part = "page" /\ Page!Init /\ Rest
       /\ s10 = "absent" /\ s11 = "absent"
    \/ part = "epub" /\ Epub!Init /\ Rest
       /\ s7 = "absent" /\ s8 = "absent" /\ s9 = "absent" /\ s10 = "absent"
       /\ s11 = "absent"
    \/ part = "input" /\ Input!Init /\ Rest
    \/ part = "pdf" /\ Pdf!Init /\ Rest
       /\ s11 = "absent"
    \/ part = "preferences" /\ Preferences!Init /\ Rest
       /\ s11 = "absent"
    \/ part = "library" /\ Library!Init /\ Rest
       /\ s8 = "absent" /\ s9 = "absent" /\ s10 = "absent" /\ s11 = "absent"

PartsNext ==
    \/ part = "progress" /\ Next /\ UNCHANGED <<part, s1, s2, s3, s4, s5, s6, s7, s8, s9, s10, s11>>
    \/ part = "annotations" /\ Notes!Next /\ UNCHANGED <<part, s8, s9, s10,
                    s11, vars>>
    \/ part = "page" /\ Page!Next /\ UNCHANGED <<part, s10, s11, vars>>
    \/ part = "epub" /\ Epub!Next /\ UNCHANGED <<part, s7, s8, s9, s10, s11,
                    vars>>
    \/ part = "input" /\ Input!Next /\ UNCHANGED <<part, vars>>
    \/ part = "pdf" /\ Pdf!Next /\ UNCHANGED <<part, s11, vars>>
    \/ part = "preferences" /\ Preferences!Next /\ UNCHANGED <<part, s11, vars>>
    \/ part = "library" /\ Library!Next /\ UNCHANGED <<part, s8, s9, s10, s11,
                    vars>>

PartsSpec == PartsInit /\ [][PartsNext]_parts

------------------------------------------------------------------------------
\* Overlapping saves of the annotation editor write one annotation, write it
\* before it is drawn, and leave page, engine, journal and library in
\* agreement.
EditorIsSound == part = "annotations" => Notes!EditorIsSound

\* However moves, saves and bookmarks of an open book overlap and fail, the
\* page ends where the reader wished, shows it, stores it and stays usable.
PageIsSound == part = "page" => Page!PageIsSound

\* Whatever order the renderer resolves, relocates and refills frames in, the
\* engine is where it says, turns one page at a time, and keeps its handlers
\* and presentation on what is shown.
EngineIsSound == part = "epub" => Epub!EngineIsSound

\* However a gesture is split into events, it turns a page exactly as the
\* reader meant it.
TurnsAreMeant == part = "input" => Input!TurnsAreMeant

\* However closing, passwords, rendering and annotations overlap, the engine
\* answers once, holds nothing after close, and shows and reports the page it
\* is at.
PdfIsSound == part = "pdf" => Pdf!PdfIsSound

\* No change of a preference is lost between library, outbox, journal and
\* remote document, and devices that have synchronized agree.
PreferencesKept == part = "preferences" => Preferences!PreferencesKept

\* When reloads, verifications and actions have ended, every check is finished,
\* the cards are those of the library and a restored copy is shown as healthy;
\* an answer that was read earlier and applied later is the only thing that can
\* prevent the last two (reload, verifyCheckingVariant, readFormat).
PageAgrees == part = "library" => Library!PageAgrees

==============================================================================
