---------------------------- MODULE LibraryPage ----------------------------
(***************************************************************************)
(* The library page and one card of it: a logical book with an EPUB and a  *)
(* PDF.  The page keeps a list and a verdict per variant; reloads, the     *)
(* verification queue, recovery, removal and imports run as asynchronous   *)
(* calls that read the repository at one time and change the page at       *)
(* another.                                                                *)
(***************************************************************************)
EXTENDS Naturals, FiniteSets

CONSTANTS
    Slots,      \* reloads that may be in progress at once
    MaxEvents   \* what the user, imports and synchronisation do

Formats == {"epub", "pdf"}
None == "none"

VARIABLES
    repo,       \* [present, health]: the variants of the book and their bytes
    view,       \* the fields of the component
    reloads,    \* the calls of reload in progress
    verdicts,   \* what openHealthyVariant found for the variants being verified
    acts,       \* the calls that read, remove, detach, replace and add in progress
    events, story

vars == <<repo, view, reloads, verdicts, acts, events, story>>

(* A call of reload forgets the verdicts of force, and on its end the      *)
(* calls of ends clear their flags.  before: the reloads that had their    *)
(* lists when it read its own; late: one that read later has ended.        *)
NoReload == [pc |-> "idle"]
Reload(force, ends) == [pc |-> "lists", force |-> force, ends |-> ends, before |-> {}, late |-> FALSE]

(* Both variants with their bytes, one evicted, one missing, and a book    *)
(* with the EPUB alone.                                                    *)
Starts ==
    {[present |-> Formats, health |-> [epub |-> "good", pdf |-> h]] : h \in {"good", "evicted", "missing"}}
      \cup {[present |-> {"epub"}, health |-> [epub |-> "good", pdf |-> "good"]]}

Init ==
    /\ repo \in Starts
    /\ view = [shown |-> {}, availability |-> [f \in Formats |-> None], queue |-> {},
               timer |-> FALSE, destroyed |-> FALSE]
    /\ \E s \in Slots :
         reloads = [r \in Slots |-> IF r = s THEN Reload({}, {}) ELSE NoReload]
    /\ verdicts = [f \in Formats |-> None]
    /\ acts = {}
    /\ events = 0
    /\ story = [recovered |-> {}, outdated |-> {}, unseen |-> FALSE, disordered |-> FALSE]

Act(kind, f) == [kind |-> kind, format |-> f]
Bad == {"unavailable", "quarantined"}

(* A verdict taken before the bytes came back is shown after it. *)
Outdated(f, verdict) == story.outdated \cup {g \in {f} \cap story.recovered : verdict \in Bad}

Reloading == {s \in Slots : reloads[s] # NoReload}
Verifying == {f \in Formats : verdicts[f] # None}

(***************************************************************************)
(* The verification queue                                                  *)
(***************************************************************************)
scheduleNextAvailabilityVerification(v) ==
    [v EXCEPT !.timer = @ \/ (~v.destroyed /\ v.queue # {})]

enqueueCheckingAvailabilityVerification(v, busy) ==
    scheduleNextAvailabilityVerification(
        [v EXCEPT !.queue = {f \in Formats : v.availability[f] = "checking"} \ busy])

(* updateDisplayedBooks rebuilds the cards and queues what is unchecked. *)
updateDisplayedBooks(v, busy) == enqueueCheckingAvailabilityVerification(v, busy)

Verdict(r, f) ==
    IF f \notin r.present THEN "quarantined"
    ELSE IF r.health[f] = "good" THEN "healthy" ELSE "unavailable"

(* The timer of the queue: verifyCheckingVariant for the next variant. *)
FireTimer ==
    /\ view.timer
    /\ \E f \in view.queue :
         LET v == [view EXCEPT !.timer = FALSE, !.queue = @ \ {f}]
             skip == view.destroyed \/ view.availability[f] # "checking" \/ f \in Verifying
         IN  /\ view' = IF skip THEN scheduleNextAvailabilityVerification(v) ELSE v
             /\ verdicts' = IF skip THEN verdicts ELSE [verdicts EXCEPT ![f] = "reading"]
    /\ UNCHANGED <<repo, reloads, acts, events, story>>

FireTimerIdle ==
    /\ view.timer /\ view.queue = {}
    /\ view' = [view EXCEPT !.timer = FALSE]
    /\ UNCHANGED <<repo, reloads, verdicts, acts, events, story>>

(* openHealthyVariant reads the bytes, or fails. *)
VerifyReads(f) ==
    /\ verdicts[f] = "reading"
    /\ verdicts' = [verdicts EXCEPT ![f] = Verdict(repo, f)]
    /\ UNCHANGED <<repo, view, reloads, acts, events, story>>

VerifyEnds(f) ==
    /\ verdicts[f] \notin {None, "reading"}
    /\ view' = IF view.destroyed THEN view
               ELSE scheduleNextAvailabilityVerification(
                      updateDisplayedBooks([view EXCEPT !.availability[f] = verdicts[f]], Verifying))
    /\ verdicts' = [verdicts EXCEPT ![f] = None]
    /\ story' = [story EXCEPT !.outdated = Outdated(f, verdicts[f])]
    /\ UNCHANGED <<repo, reloads, acts, events>>

(***************************************************************************)
(* reload                                                                  *)
(***************************************************************************)
Reloads(force, ends) ==
    \E s \in Slots \ Reloading : reloads' = [reloads EXCEPT ![s] = Reload(force, ends)]

HasLists == {s \in Slots : reloads[s].pc \in {"resolves", "rest"}}

WithLists(s, retained) ==
    [pc |-> "resolves", present |-> repo.present, ends |-> reloads[s].ends, retained |-> retained,
     before |-> HasLists, late |-> FALSE]

\* Mutant: a forced verdict is kept.
ListsRetainAll(s) ==
    /\ reloads[s].pc = "lists"
    /\ reloads' = [reloads EXCEPT ![s] =
                     WithLists(s, [f \in Formats |-> IF f \in repo.present THEN view.availability[f] ELSE None])]
    /\ UNCHANGED <<repo, view, verdicts, acts, events, story>>

ReloadLists(s) ==
    /\ reloads[s].pc = "lists"
    /\ reloads' = [reloads EXCEPT ![s] =
                     WithLists(s, [f \in Formats |->
                        IF f \in repo.present \ reloads[s].force THEN view.availability[f] ELSE None])]
    /\ UNCHANGED <<repo, view, verdicts, acts, events, story>>

(* resolveVariantAvailability reads references, not bytes. *)
resolveVariantAvailability(r, f) ==
    IF f \notin r.present THEN "quarantined"
    ELSE IF r.health[f] = "missing" THEN "unavailable" ELSE "checking"

ReloadResolves(s) ==
    /\ reloads[s].pc = "resolves"
    /\ reloads' = [reloads EXCEPT ![s].pc = "rest", ![s].retained = [f \in Formats |->
                     IF f \in reloads[s].present /\ @[f] = None THEN resolveVariantAvailability(repo, f) ELSE @[f]]]
    /\ UNCHANGED <<repo, view, verdicts, acts, events, story>>

(* The slot is free; reloads that read before this one are late from now   *)
(* on, if it showed its lists.                                             *)
Ends(s, showed) ==
    reloads' = [t \in Slots |->
                  IF t = s THEN NoReload
                  ELSE IF t \notin Reloading THEN reloads[t]
                  ELSE [reloads[t] EXCEPT !.before = @ \ {s}, !.late = @ \/ (showed /\ t \in reloads[s].before)]]

ReloadRest(s) ==
    /\ reloads[s].pc = "rest"
    /\ LET r == reloads[s]
           loaded == [view EXCEPT !.shown = r.present, !.availability = r.retained]
           own == {f \in Formats : Act("replace", f) \in r.ends}
       IN  /\ view' = IF view.destroyed THEN view ELSE updateDisplayedBooks(loaded, Verifying)
           /\ acts' = acts \ r.ends
           /\ story' = [story EXCEPT !.disordered = r.late,
                         !.outdated = (@ \ own) \cup {f \in story.recovered \ own : r.retained[f] \in Bad}]
    /\ Ends(s, TRUE)
    /\ UNCHANGED <<repo, verdicts, events>>

(* A failed reload leaves the page as it is. *)
ReloadFails(s) ==
    /\ events < MaxEvents /\ events' = events + 1
    /\ reloads[s] # NoReload
    /\ view' = enqueueCheckingAvailabilityVerification(view, Verifying)
    /\ acts' = acts \ reloads[s].ends
    /\ Ends(s, FALSE)
    /\ story' = [story EXCEPT !.unseen = TRUE, !.recovered = {}]
    /\ UNCHANGED <<repo, verdicts>>

(***************************************************************************)
(* The user                                                                *)
(***************************************************************************)
Event == events < MaxEvents /\ events' = events + 1

Doing(kind) == \E f \in Formats : Act(kind, f) \in acts

isFormatActionDisabled == Doing("remove") \/ Doing("detach") \/ Doing("replace")

Reads(f) ==
    /\ Event /\ ~view.destroyed /\ ~Doing("read")
    /\ acts' = acts \cup {Act("read", f)}
    /\ UNCHANGED <<repo, view, reloads, verdicts, story>>

ActivateFormatBadge(f) == f \in view.shown /\ view.availability[f] = "healthy" /\ Reads(f)

preferredFormat(preference) ==
    IF preference \in view.shown THEN preference
    ELSE IF "epub" \in view.shown THEN "epub" ELSE IF "pdf" \in view.shown THEN "pdf" ELSE None

(* The cover also opens a variant that is still being checked. *)
healthyOpenFormat(preference) ==
    LET openable == {f \in view.shown : view.availability[f] \in {"healthy", "checking"}}
    IN  IF preferredFormat(preference) \in openable THEN preferredFormat(preference)
        ELSE IF "epub" \in openable THEN "epub" ELSE IF "pdf" \in openable THEN "pdf" ELSE None

OpenPreferredFormat(preference) ==
    healthyOpenFormat(preference) # None /\ Reads(healthyOpenFormat(preference))

(* readFormat asks openHealthyVariant; the reader opens what is healthy,   *)
(* another verdict is shown.                                               *)
OpenHealthy(f) ==
    /\ Act("read", f) \in acts
    /\ acts' = (acts \ {Act("read", f)}) \cup {Act(Verdict(repo, f), f)}
    /\ UNCHANGED <<repo, view, reloads, verdicts, events, story>>

ReadFormat(f) ==
    \E verdict \in {"healthy", "unavailable", "quarantined"} :
      /\ Act(verdict, f) \in acts
      /\ acts' = acts \ {Act(verdict, f)}
      /\ view' = IF view.destroyed THEN view
                 ELSE IF verdict = "healthy" THEN [view EXCEPT !.destroyed = TRUE, !.timer = FALSE]
                 ELSE updateDisplayedBooks([view EXCEPT !.availability[f] = verdict], Verifying)
      /\ story' = [story EXCEPT !.outdated = Outdated(f, verdict)]
      /\ UNCHANGED <<repo, reloads, verdicts, events>>

RequestVariantDetach(f) ==
    /\ Event /\ ~view.destroyed /\ view.shown = Formats /\ ~isFormatActionDisabled
    /\ acts' = acts \cup {Act("detach", f)}
    /\ UNCHANGED <<repo, view, reloads, verdicts, story>>

RequestBookRemoval(f) ==
    /\ Event /\ ~view.destroyed /\ f \in view.shown /\ ~isFormatActionDisabled
    /\ acts' = acts \cup {Act("remove", f)}
    /\ UNCHANGED <<repo, view, reloads, verdicts, story>>

(* removeBook: a variant without a logical book is an error and nothing is *)
(* reloaded.                                                               *)
RemoveBook(f) ==
    /\ Act("remove", f) \in acts /\ \A s \in Reloading : Act("remove", f) \notin reloads[s].ends
    /\ IF f \in repo.present
       THEN /\ repo' = [repo EXCEPT !.present = @ \ {f}]
            /\ Reloads({}, {Act("remove", f)})
            /\ story' = [story EXCEPT !.recovered = @ \ {f}]
            /\ UNCHANGED acts
       ELSE acts' = acts \ {Act("remove", f)} /\ UNCHANGED <<repo, reloads, story>>
    /\ UNCHANGED <<view, verdicts, events>>

(* associations.detach gives the variant a card of its own. *)
DetachVariant(f) ==
    /\ Act("detach", f) \in acts /\ \A s \in Reloading : Act("detach", f) \notin reloads[s].ends
    /\ IF repo.present = Formats
       THEN /\ repo' = [repo EXCEPT !.present = @ \ {f}]
            /\ Reloads({}, {Act("detach", f)})
            /\ story' = [story EXCEPT !.recovered = @ \ {f}]
            /\ UNCHANGED acts
       ELSE acts' = acts \ {Act("detach", f)} /\ UNCHANGED <<repo, reloads, story>>
    /\ UNCHANGED <<view, verdicts, events>>

(* replaceVariantLocally and recoverVariantFromSynchronization; the offers *)
(* of synchronized copies, which a failed download probes again, are left  *)
(* out.                                                                    *)
ReplaceVariant(f) ==
    /\ Event /\ ~view.destroyed /\ f \in view.shown /\ ~isFormatActionDisabled
    /\ view.availability[f] # "healthy"
    /\ acts' = acts \cup {Act("replace", f)}
    /\ UNCHANGED <<repo, view, reloads, verdicts, story>>

(* The bytes are exact, or the choice is cancelled or refused. *)
ReplaceEnds(f) ==
    /\ Act("replace", f) \in acts /\ \A s \in Reloading : Act("replace", f) \notin reloads[s].ends
    /\ \/ /\ f \in repo.present
          /\ repo' = [repo EXCEPT !.health[f] = "good"]
          /\ Reloads({f}, {Act("replace", f)})
          /\ story' = [story EXCEPT !.recovered = @ \cup {f}, !.outdated = @ \ {f}]
          /\ UNCHANGED acts
       \/ /\ acts' = acts \ {Act("replace", f)} /\ UNCHANGED <<repo, reloads, story>>
    /\ UNCHANGED <<view, verdicts, events>>

(* addFormat: pickPublications and addVariant *)
AddFormat(f) ==
    /\ Event /\ ~view.destroyed /\ f \notin view.shown /\ view.shown # {} /\ ~Doing("add")
    /\ acts' = acts \cup {Act("add", f)}
    /\ UNCHANGED <<repo, view, reloads, verdicts, story>>

AddEnds(f) ==
    /\ Act("add", f) \in acts /\ \A s \in Reloading : Act("add", f) \notin reloads[s].ends
    /\ \/ /\ f \notin repo.present
          /\ repo' = [present |-> repo.present \cup {f}, health |-> [repo.health EXCEPT ![f] = "good"]]
          /\ Reloads({}, {Act("add", f)})
          /\ UNCHANGED acts
       \/ /\ acts' = acts \ {Act("add", f)} /\ UNCHANGED <<repo, reloads>>
    /\ UNCHANGED <<view, verdicts, events, story>>

(* importPublications calls the listener of the page, which reloads. *)
Import(f) ==
    /\ Event /\ ~view.destroyed
    /\ repo' = [present |-> repo.present \cup {f}, health |-> [repo.health EXCEPT ![f] = "good"]]
    /\ Reloads({}, {})
    /\ UNCHANGED <<view, verdicts, acts, story>>

(* importBooks: the listener's reload and the page's own. *)
ImportBooks(f) ==
    /\ Event /\ ~view.destroyed /\ Reloading = {}
    /\ repo' = [present |-> repo.present \cup {f}, health |-> [repo.health EXCEPT ![f] = "good"]]
    /\ reloads' = [s \in Slots |-> Reload({}, {})]
    /\ UNCHANGED <<view, verdicts, acts, story>>

(* A synchronisation stores or removes the variant, or the browser evicts  *)
(* its bytes; the page is not told.                                        *)
Elsewhere(f) ==
    /\ Event
    /\ \/ repo' = [present |-> repo.present \cup {f}, health |-> [repo.health EXCEPT ![f] = "good"]]
       \/ f \in repo.present /\ repo' = [repo EXCEPT !.present = @ \ {f}]
       \/ f \in repo.present /\ repo.health[f] = "good" /\ repo' = [repo EXCEPT !.health[f] = "evicted"]
    /\ story' = [story EXCEPT !.unseen = @ \/ repo'.present # repo.present,
                              !.recovered = @ \ {f}]
    /\ UNCHANGED <<view, reloads, verdicts, acts>>

Leave ==
    /\ Event /\ ~view.destroyed
    /\ view' = [view EXCEPT !.destroyed = TRUE, !.timer = FALSE]
    /\ UNCHANGED <<repo, reloads, verdicts, acts, story>>

Next ==
    \/ \E preference \in Formats \cup {None} : OpenPreferredFormat(preference)
    \/ FireTimer \/ FireTimerIdle \/ Leave
    \/ \E s \in Slots : ReloadLists(s) \/ ReloadResolves(s) \/ ReloadRest(s) \/ ReloadFails(s)
    \/ \E f \in Formats :
         \/ VerifyReads(f) \/ VerifyEnds(f) \/ ActivateFormatBadge(f) \/ OpenHealthy(f) \/ ReadFormat(f)
         \/ RequestVariantDetach(f) \/ DetachVariant(f)
         \/ RequestBookRemoval(f) \/ RemoveBook(f) \/ ReplaceVariant(f) \/ ReplaceEnds(f)
         \/ AddFormat(f) \/ AddEnds(f) \/ Import(f) \/ ImportBooks(f) \/ Elsewhere(f)

Spec == Init /\ [][Next]_vars

(***************************************************************************)
(* Properties                                                              *)
(***************************************************************************)
Quiet == Reloading = {} /\ Verifying = {} /\ ~view.timer /\ acts = {} /\ ~view.destroyed

(* However reloads, verifications and actions overlap, a page at rest      *)
(* shows no variant as still being checked: whatever puts a verdict back   *)
(* to checking also queues it, and the queue runs empty.                   *)
ChecksFinish == Quiet => \A f \in view.shown : view.availability[f] # "checking"

(* A page at rest shows the variants the repository has when nothing but   *)
(* the page and imports changed them and no reload failed, unless the last *)
(* reload to end had read its lists before another one that ended earlier: *)
(* reload has no generation, so its older list is then the last word.      *)
SettledShowsLibrary == Quiet /\ ~story.unseen /\ ~story.disordered => view.shown = repo.present

(* A variant whose bytes were restored is shown as healthy once the page   *)
(* is at rest, unless a verdict taken before that was applied after it: by *)
(* a verification or an opening then in flight, or by a reload other than  *)
(* the one that follows the recovery.                                      *)
RecoveryShown ==
    Quiet => \A f \in (story.recovered \ story.outdated) \cap view.shown : view.availability[f] = "healthy"

(* The same two without the exception. *)
LibraryAlwaysShown == Quiet /\ ~story.unseen => view.shown = repo.present

RecoveryAlwaysShown ==
    Quiet => \A f \in story.recovered \cap view.shown : view.availability[f] = "healthy"

\* When reloads, verifications and actions have ended, every check is finished,
\* the cards are those of the library and a restored copy is shown as healthy;
\* an answer that was read earlier and applied later is the only thing that can
\* prevent the last two (reload, verifyCheckingVariant, readFormat).
PageAgrees ==
    /\ ChecksFinish
    /\ SettledShowsLibrary
    /\ RecoveryShown
=============================================================================
