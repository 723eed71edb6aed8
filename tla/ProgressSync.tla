---------------------------- MODULE ProgressSync ----------------------------
(***************************************************************************)
(* The reading progress of one book on several devices                     *)
(* (ProgressSyncService, progress-merge.ts, the reader page that saves it, *)
(* the repository and the operation journal).                              *)
(*                                                                         *)
(* Every device has a document of its own in the destination.  A pull      *)
(* merges all documents into the progress the reader sees, which then      *)
(* carries the id of the device that read last, so that a push may write   *)
(* the document of another device.  Each action runs from one await to the *)
(* next.                                                                   *)
(***************************************************************************)
EXTENDS Naturals

CONSTANTS
    Devices,            \* device ids; deviceId.localeCompare is the order of Nat
    MaxTime,            \* bound on the updatedAt timestamps
    MaxPlace,           \* places of the book: 0..MaxPlace
    Budgets,            \* bounds: how many saves, full runs and targeted pushes each
                        \* device has, how many calls fail, and whose user may remove
                        \* the publication
    MaxConflictRetries  \* maxConflictRetries of the service

VARIABLES
    remote,    \* remote[e]: the document of device e in the destination
    cache,     \* cache[d][e]: the document of e in the progressDocuments store of d
    local,     \* local[d]: the progress in the repository of d
    hasBook,   \* hasBook[d]: the publication is in the library of d
    page,      \* page[d]: this.progress.furthestTotalProgression of the reader page
    clock,     \* clock[d]: time of the last save on d
    editing,   \* editing[d]: saved by the reader page, append not yet done
    journal,   \* journal[d]: the pending operations of d
    known,     \* known[d]: knownRemoteDocuments
    sync,      \* sync[d]: the locals of the synchronization running on d
    budget,    \* the budget that is left
    acked      \* history: the acknowledged operations, by device

vars == <<remote, cache, local, hasBook, page, clock, editing, journal, known, sync, budget, acked>>

-----------------------------------------------------------------------------
(* A document is its updatedAt and furthestTotalProgression; its device is  *)
(* its path, and device and time determine the locator.  No document is one *)
(* of time 0.                                                               *)
Document == [at : Nat, far : Nat]
NoDocument == [at |-> 0, far |-> 0]
Documents == [Devices -> Document]
NoDocuments == [e \in Devices |-> NoDocument]

\* What the repository holds of a book: a document and whose it is.
Progress == [dev : Devices, at : Nat, far : Nat]
NoProgress(d) == [dev |-> d, at |-> 0, far |-> 0]
Doc(progress) == [at |-> progress.at, far |-> progress.far]

Larger(m, n) == IF m >= n THEN m ELSE n

\* Two versions of the document of one device.
mergeProgressDocument(left, right) ==
    [at |-> Larger(left.at, right.at), far |-> Larger(left.far, right.far)]

\* The progress of the device that read last, ties by device id, with the
\* furthest place of all.
mergeDeviceProgress(progresses) ==
    {[dev |-> p.dev, at |-> p.at, far |-> q.far] :
        p \in {p \in progresses : \A r \in progresses :
                  p.at > r.at \/ (p.at = r.at /\ p.dev >= r.dev)},
        q \in {q \in progresses : \A r \in progresses : q.far >= r.far}}

Phases == {"idle", "pull", "pullSave", "pullStore", "pending", "documents", "snapshot", "push",
           "read", "merge", "saveDocument", "acknowledge"}

\* The locals of a run: the documents it merged, those it still has to store or
\* to push, the progress it is about to store, the operations it read, the
\* document it is pushing, and what it last read of that one.
Run == [phase : Phases, targeted : BOOLEAN, docs : Documents, todo : SUBSET Devices,
        store : Progress, ops : SUBSET Document, path : Devices, current : Document,
        attempt : Nat]

Idle(d) == [phase |-> "idle", targeted |-> FALSE, docs |-> NoDocuments, todo |-> {},
            store |-> NoProgress(d), ops |-> {}, path |-> d, current |-> NoDocument, attempt |-> 0]

Init ==
    /\ remote = NoDocuments
    /\ cache = [d \in Devices |-> NoDocuments]
    /\ local = [d \in Devices |-> NoProgress(d)]
    /\ hasBook = [d \in Devices |-> TRUE]
    /\ page = [d \in Devices |-> 0]
    /\ clock = [d \in Devices |-> 0]
    /\ editing = [d \in Devices |-> NoDocument]
    /\ journal = [d \in Devices |-> {}]
    /\ known = [d \in Devices |-> NoDocuments]
    /\ sync = [d \in Devices |-> Idle(d)]
    /\ budget \in Budgets
    /\ acked = [d \in Devices |-> {}]

-----------------------------------------------------------------------------
(* The reader page.                                                         *)

\* ngAfterViewInit reads the progress of the book.
OpenPage(d) ==
    /\ hasBook[d]
    /\ page[d] # local[d].far
    /\ page' = [page EXCEPT ![d] = local[d].far]
    /\ UNCHANGED <<remote, cache, local, hasBook, clock, editing, journal, known, sync, acked, budget>>

\* saveProgress: the chain progressWrite admits one save at a time.
SaveProgress(d, place, time) ==
    /\ editing[d] = NoDocument
    /\ hasBook[d]
    /\ budget.saves[d] > 0
    /\ budget' = [budget EXCEPT !.saves[d] = @ - 1]
    /\ time > clock[d]
    /\ page' = [page EXCEPT ![d] = Larger(@, place)]
    /\ local' = [local EXCEPT ![d] = [dev |-> d, at |-> time, far |-> Larger(page[d], place)]]
    /\ editing' = [editing EXCEPT ![d] = [at |-> time, far |-> Larger(page[d], place)]]
    /\ clock' = [clock EXCEPT ![d] = time]
    /\ UNCHANGED <<remote, cache, hasBook, journal, known, sync, acked>>

\* saveProgress: syncJournal.append, whose failure is swallowed.
JournalProgress(d) ==
    /\ editing[d] # NoDocument
    /\ editing' = [editing EXCEPT ![d] = NoDocument]
    /\ \/ journal' = [journal EXCEPT ![d] = @ \cup {editing[d]}] /\ UNCHANGED budget
       \/ budget.failures > 0 /\ budget' = [budget EXCEPT !.failures = @ - 1] /\ UNCHANGED journal
    /\ UNCHANGED <<remote, cache, local, hasBook, page, clock, known, sync, acked>>

\* deleteVariant erases progress and progress documents of the publication; the
\* journal is another database.
RemoveBook(d) ==
    /\ d \in budget.removers
    /\ hasBook[d]
    /\ hasBook' = [hasBook EXCEPT ![d] = FALSE]
    /\ local' = [local EXCEPT ![d] = NoProgress(d)]
    /\ cache' = [cache EXCEPT ![d] = NoDocuments]
    /\ UNCHANGED <<remote, page, clock, editing, journal, known, sync, acked, budget>>

-----------------------------------------------------------------------------
(* One synchronization of device d.                                         *)

Become(d, run) == sync' = [sync EXCEPT ![d] = run]

user == <<local, hasBook, page, clock, editing>>

\* runSynchronization: remote.list.
runSynchronization(d) ==
    /\ sync[d].phase = "idle"
    /\ budget.runs[d] > 0
    /\ budget' = [budget EXCEPT !.runs[d] = @ - 1]
    /\ known' = [known EXCEPT ![d] = remote]
    /\ Become(d, [Idle(d) EXCEPT !.phase = "pull"])
    /\ UNCHANGED <<remote, cache, journal, acked, user>>

\* synchronizePending(operations): the worker has read the pending operations.
synchronizePending(d) ==
    /\ sync[d].phase = "idle"
    /\ budget.pushes[d] > 0
    /\ budget' = [budget EXCEPT !.pushes[d] = @ - 1]
    /\ journal[d] # {}
    /\ Become(d, [Idle(d) EXCEPT !.phase = "documents", !.targeted = TRUE, !.ops = journal[d]])
    /\ UNCHANGED <<remote, cache, journal, known, acked, user>>

\* pull: every document of the destination is merged into the stored one, unless
\* the publication is not here.
PullMerge(d) ==
    /\ sync[d].phase = "pull"
    /\ Become(d, IF hasBook[d]
                 THEN [sync[d] EXCEPT
                         !.phase = "pullSave",
                         !.docs = [e \in Devices |-> mergeProgressDocument(cache[d][e], known[d][e])],
                         !.todo = {e \in Devices : known[d][e] # NoDocument}]
                 ELSE [sync[d] EXCEPT !.phase = "pullSave"])
    /\ UNCHANGED <<remote, cache, journal, known, acked, user, budget>>

\* pull: saveProgressDocument of one of them; it throws without the publication.
PullSave(d) ==
    /\ sync[d].phase = "pullSave"
    /\ \E e \in sync[d].todo :
          IF hasBook[d]
          THEN /\ cache' = [cache EXCEPT ![d][e] = sync[d].docs[e]]
               /\ Become(d, [sync[d] EXCEPT !.todo = @ \ {e}])
          ELSE UNCHANGED cache /\ Become(d, Idle(d))
    /\ UNCHANGED <<remote, journal, known, acked, user, budget>>

\* pull: the stored progress is read and merged with the documents.
PullRead(d) ==
    LET documents == {[dev |-> e, at |-> sync[d].docs[e].at, far |-> sync[d].docs[e].far] :
                         e \in {f \in Devices : sync[d].docs[f] # NoDocument}}
    IN
    /\ sync[d].phase = "pullSave"
    /\ sync[d].todo = {}
    /\ \E merged \in mergeDeviceProgress(documents \cup {local[d]}) :
          Become(d, IF documents = {} \/ merged = local[d]
                    THEN [Idle(d) EXCEPT !.phase = "pending"]
                    ELSE [Idle(d) EXCEPT !.phase = "pullStore", !.store = merged])
    /\ UNCHANGED <<remote, cache, journal, known, acked, user, budget>>

\* pull: saveProgress of what was merged before; it throws without the publication.
PullStore(d) ==
    /\ sync[d].phase = "pullStore"
    /\ IF hasBook[d]
       THEN /\ local' = [local EXCEPT ![d] = sync[d].store]
            /\ Become(d, [Idle(d) EXCEPT !.phase = "pending"])
       ELSE UNCHANGED local /\ Become(d, Idle(d))
    /\ UNCHANGED <<remote, cache, journal, known, acked, hasBook, page, clock, editing, budget>>

\* push: journal.pending().
PushPending(d) ==
    /\ sync[d].phase = "pending"
    /\ Become(d, [sync[d] EXCEPT !.phase = "documents", !.ops = journal[d]])
    /\ UNCHANGED <<remote, cache, journal, known, acked, user, budget>>

\* Mutant: the oldest operation is kept.
CoalesceToOldest(ops) ==
    IF ops = {} THEN {NoDocument} ELSE {op \in ops : \A other \in ops : op.at <= other.at}

\* The operations of d are saves of its own reader page, so they all go to its
\* own document; the newest one is kept.
coalesceProgressOperations(ops) ==
    IF ops = {} THEN {NoDocument} ELSE {op \in ops : \A other \in ops : op.at >= other.at}

\* mergeProgressSnapshot of the stored documents, of all of them or, in a
\* targeted push, of the one that is written.
PushDocuments(d) ==
    /\ sync[d].phase = "documents"
    /\ \E own \in coalesceProgressOperations(sync[d].ops) :
          LET merged == [e \in Devices |->
                            IF e = d THEN mergeProgressDocument(own, cache[d][e])
                            ELSE IF sync[d].targeted THEN NoDocument ELSE cache[d][e]]
          IN  Become(d, [sync[d] EXCEPT !.docs = merged,
                                        !.todo = {e \in Devices : merged[e] # NoDocument},
                                        !.phase = IF sync[d].targeted THEN "push" ELSE "snapshot"])
    /\ UNCHANGED <<remote, cache, journal, known, acked, user, budget>>

\* push: the progress the reader sees counts as the document of its device.
PushSnapshot(d) ==
    LET merged == [sync[d].docs EXCEPT ![local[d].dev] = mergeProgressDocument(@, Doc(local[d]))] IN
    /\ sync[d].phase = "snapshot"
    /\ Become(d, [sync[d] EXCEPT !.docs = merged,
                                 !.todo = {e \in Devices : merged[e] # NoDocument},
                                 !.phase = "push"])
    /\ UNCHANGED <<remote, cache, journal, known, acked, user, budget>>

\* push: pushProgress of the next document, in any order, from the listing or,
\* in a targeted push, from what an earlier call returned.
PushNext(d) ==
    /\ sync[d].phase = "push"
    /\ \/ sync[d].todo = {} /\ Become(d, Idle(d))
       \/ \E e \in sync[d].todo :
             Become(d, [sync[d] EXCEPT
                           !.path = e, !.attempt = 0, !.current = known[d][e],
                           !.phase = IF sync[d].targeted /\ known[d][e] = NoDocument
                                     THEN "read" ELSE "merge"])
    /\ UNCHANGED <<remote, cache, journal, known, acked, user, budget>>

\* pushProgress: remote.read(path).
PushRead(d) ==
    /\ sync[d].phase = "read"
    /\ known' = [known EXCEPT ![d][sync[d].path] = remote[sync[d].path]]
    /\ Become(d, [sync[d] EXCEPT !.phase = "merge", !.current = remote[sync[d].path]])
    /\ UNCHANGED <<remote, cache, journal, acked, user, budget>>

\* What pushProgress makes of the document it read.
Merged(run) == mergeProgressDocument(run.current, run.docs[run.path])

Pushed(run) == [run EXCEPT !.phase = "saveDocument", !.docs[run.path] = Merged(run)]

\* pushProgress: the document holds everything already.
PushEqual(d) ==
    /\ sync[d].phase = "merge"
    /\ Merged(sync[d]) = sync[d].current
    /\ Become(d, Pushed(sync[d]))
    /\ UNCHANGED <<remote, cache, journal, known, acked, user, budget>>

\* The destination accepts the write of a document that is as it was read.
WriteDocument(run) ==
    /\ remote[run.path] = run.current
    /\ remote' = [remote EXCEPT ![run.path] = Merged(run)]

\* pushProgress: remote.write with the revision that was read; a conflict is
\* retried maxConflictRetries times.
PushWrite(d) ==
    /\ sync[d].phase = "merge"
    /\ Merged(sync[d]) # sync[d].current
    /\ \/ /\ WriteDocument(sync[d])
          /\ known' = [known EXCEPT ![d][sync[d].path] = Merged(sync[d])]
          /\ Become(d, Pushed(sync[d]))
       \/ /\ remote[sync[d].path] # sync[d].current
          /\ Become(d, IF sync[d].attempt < MaxConflictRetries
                       THEN [sync[d] EXCEPT !.phase = "read", !.attempt = @ + 1] ELSE Idle(d))
          /\ UNCHANGED <<remote, known>>
    /\ UNCHANGED <<cache, journal, acked, user, budget>>

\* pushProgress: saveProgressDocument throws without the publication.
SaveDocument(d) ==
    /\ sync[d].phase = "saveDocument"
    /\ IF hasBook[d]
       THEN /\ cache' = [cache EXCEPT ![d][sync[d].path] = sync[d].docs[sync[d].path]]
            /\ Become(d, [sync[d] EXCEPT !.phase = "acknowledge"])
       ELSE UNCHANGED cache /\ Become(d, Idle(d))
    /\ UNCHANGED <<remote, journal, known, acked, user, budget>>

\* pushProgress: journal.acknowledge(pending.operationIds).
Acknowledge(d) ==
    /\ sync[d].phase = "acknowledge"
    /\ IF sync[d].path = d
       THEN /\ journal' = [journal EXCEPT ![d] = @ \ sync[d].ops]
            /\ acked' = [acked EXCEPT ![d] = @ \cup sync[d].ops]
       ELSE UNCHANGED <<journal, acked>>
    /\ Become(d, [sync[d] EXCEPT !.phase = "push", !.todo = @ \ {sync[d].path}])
    /\ UNCHANGED <<remote, cache, known, user, budget>>

\* A call fails, a write that was carried out among them, or the application is
\* closed and forgets what it knew.
Fail(d) ==
    /\ sync[d].phase # "idle"
    /\ budget.failures > 0
    /\ budget' = [budget EXCEPT !.failures = @ - 1]
    /\ \/ UNCHANGED remote
       \/ /\ sync[d].phase = "merge"
          /\ Merged(sync[d]) # sync[d].current
          /\ WriteDocument(sync[d])
    /\ known' = [known EXCEPT ![d] = NoDocuments] \/ UNCHANGED known
    /\ Become(d, Idle(d))
    /\ UNCHANGED <<cache, journal, acked, user>>

SyncStep(d) ==
    \/ runSynchronization(d) \/ synchronizePending(d)
    \/ PullMerge(d) \/ PullSave(d) \/ PullRead(d) \/ PullStore(d)
    \/ PushPending(d) \/ PushDocuments(d) \/ PushSnapshot(d) \/ PushNext(d) \/ PushRead(d)
    \/ PushEqual(d) \/ PushWrite(d) \/ SaveDocument(d) \/ Acknowledge(d)

Next ==
    \E d \in Devices :
        \/ OpenPage(d)
        \/ \E place \in 0..MaxPlace, time \in 1..MaxTime : SaveProgress(d, place, time)
        \/ JournalProgress(d) \/ RemoveBook(d)
        \/ SyncStep(d) \/ Fail(d)

Spec == Init /\ [][Next]_vars

-----------------------------------------------------------------------------
(* Properties.                                                              *)

TypeOK ==
    /\ remote \in Documents
    /\ cache \in [Devices -> Documents]
    /\ local \in [Devices -> Progress]
    /\ hasBook \in [Devices -> BOOLEAN]
    /\ page \in [Devices -> Nat]
    /\ clock \in [Devices -> Nat]
    /\ editing \in [Devices -> Document]
    /\ journal \in [Devices -> SUBSET Document]
    /\ known \in [Devices -> Documents]
    /\ sync \in [Devices -> Run]
    /\ acked \in [Devices -> SUBSET Document]

\* A document is at least as new and as far as another.
Covers(document, other) == document.at >= other.at /\ document.far >= other.far

\* No document of the destination becomes older or less far, although two
\* devices may push the same one (expectedRevision and mergeProgressDocument).
DocumentsGrow == \A e \in Devices : Covers(remote'[e], remote[e])

\* What ProgressSyncService promises of the destination.  An operation leaves the
\* journal only when the document of its device is at least as new: pushProgress
\* acknowledges what it captured before it merged.  And no document of the
\* destination becomes older or less far, although two devices may push the same
\* one (expectedRevision and mergeProgressDocument).
ProgressIsKept ==
    /\ [](\A d \in Devices : \A op \in acked[d] : remote[d].at >= op.at)
    /\ [][DocumentsGrow]_vars

\* The furthest place of an acknowledged save was pushed too.  This fails: the
\* progress that a pull stores may replace a save made since it read, and of
\* several saves only the newest is pushed.
AcknowledgedIsReached ==
    \A d \in Devices : \A op \in acked[d] : remote[d].far >= op.far

=============================================================================
