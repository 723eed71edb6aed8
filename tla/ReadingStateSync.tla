-------------------------- MODULE ReadingStateSync --------------------------
(***************************************************************************)
(* One bookmark or annotation, edited on several devices and synchronized  *)
(* through one remote document (BookmarkSyncService, AnnotationSyncService,*)
(* the reader page that edits the record, the durable operation journal).  *)
(*                                                                         *)
(* Records of different ids live in different documents and never share    *)
(* state, so one id is modelled.  Every await of the code is a place where *)
(* another device, the reader page or a crash may step in: each action     *)
(* below runs from one await to the next.                                  *)
(***************************************************************************)
EXTENDS Integers, FiniteSets

CONSTANTS
    Devices,            \* device ids; deviceId.localeCompare is the order of Nat
    Creator,            \* the device that creates the record (its id is opaque)
    BookRemovers,       \* devices whose user may remove the publication
    MaxTime,            \* bound on the updatedAt timestamps
    MaxFailures,        \* bound on thrown errors, lost answers and crashes
    MaxConflictRetries  \* maxConflictRetries of the services

ASSUME DevicesAssumption ==
    (\A d \in Devices : d \in Nat) /\ Creator \in Devices
ASSUME BoundsAssumption ==
    MaxTime \in Nat /\ MaxFailures \in Nat /\ MaxConflictRetries \in Nat

VARIABLES
    remote,     \* the remote document: its content, or NoRecord
    local,      \* local[d]: the record in the repository of d, or NoRecord
    hasBook,    \* hasBook[d]: the publication is in the library of d
    clock,      \* clock[d]: time of the last edit on d
    editing,    \* editing[d]: saved by the reader page, append not yet done
    journal,    \* journal[d]: the pending operations of d
    revision,   \* revision[d]: the journal's revision counter of the record
    sync,       \* sync[d]: the locals of the synchronization running on d
    failures,   \* failures so far
    saved,      \* history: saved[d], the versions the reader page of d saved
    acked       \* history: the versions whose operation was acknowledged

vars == <<remote, local, hasBook, clock, editing, journal, revision, sync,
          failures, saved, acked>>

-----------------------------------------------------------------------------
(* A version is what compareBookmarks tells apart: updatedAt and deviceId  *)
(* (the id is the same).  A deletion is a version like any other: the code *)
(* writes a tombstone with deletedAt = updatedAt, lists it, merges it and  *)
(* pushes it exactly as it does a live record.                             *)
Version == [at: 1..MaxTime, dev: Devices]
NoRecord == [at |-> 0, dev |-> 0]
Record == Version \cup {NoRecord}

Newer(a, b) == a.at > b.at \/ (a.at = b.at /\ a.dev > b.dev)

\* preferredBookmark(local, incoming): the incoming record must be strictly
\* newer; an absent local record (NoRecord) is older than every version.
Preferred(kept, incoming) == IF Newer(incoming, kept) THEN incoming ELSE kept

AtLeast(a, b) == ~Newer(b, a)

Operation == [version: Version, revision: Nat]

Versions(ops) == {op.version : op \in ops}

Phases == {"idle", "pull", "pullSave", "pending", "snapshot", "read", "merge",
           "acknowledge"}

SyncState == [phase: Phases, targeted: BOOLEAN, current: Record,
              ops: SUBSET Operation, candidate: Record,
              attempt: 0..MaxConflictRetries]

Idle == [phase |-> "idle", targeted |-> FALSE, current |-> NoRecord,
         ops |-> {}, candidate |-> NoRecord, attempt |-> 0]

TypeOK ==
    /\ remote \in Record
    /\ local \in [Devices -> Record]
    /\ hasBook \in [Devices -> BOOLEAN]
    /\ clock \in [Devices -> 0..MaxTime]
    /\ editing \in [Devices -> Record]
    /\ journal \in [Devices -> SUBSET Operation]
    /\ revision \in [Devices -> Nat]
    /\ sync \in [Devices -> SyncState]
    /\ failures \in 0..MaxFailures
    /\ saved \in [Devices -> SUBSET Version]
    /\ acked \in SUBSET Version

Init ==
    /\ remote = NoRecord
    /\ local = [d \in Devices |-> NoRecord]
    /\ hasBook = [d \in Devices |-> TRUE]
    /\ clock = [d \in Devices |-> 0]
    /\ editing = [d \in Devices |-> NoRecord]
    /\ journal = [d \in Devices |-> {}]
    /\ revision = [d \in Devices |-> 0]
    /\ sync = [d \in Devices |-> Idle]
    /\ failures = 0
    /\ saved = [d \in Devices |-> {}]
    /\ acked = {}

-----------------------------------------------------------------------------
(* The reader page.  toggleCurrentBookmark, deleteBookmark, saveAnnotation, *)
(* removeAnnotation and undoAnnotationRemoval save the record and then      *)
(* append it to the journal; bookmarkBusy / annotationBusy admit one edit   *)
(* at a time.  Device clocks are not synchronized, but the clock of one     *)
(* device advances between two edits made on it.                            *)

EditSave(d, version) ==
    /\ editing[d] = NoRecord
    /\ hasBook[d]
    /\ version.dev = d
    /\ version.at > clock[d]
    /\ \/ local[d] # NoRecord
       \/ d = Creator /\ clock[d] = 0
    /\ local' = [local EXCEPT ![d] = version]
    /\ clock' = [clock EXCEPT ![d] = version.at]
    /\ editing' = [editing EXCEPT ![d] = version]
    /\ saved' = [saved EXCEPT ![d] = @ \cup {version}]
    /\ UNCHANGED <<remote, hasBook, journal, revision, sync, failures, acked>>

\* IndexedDbOperationJournal.append: one transaction over both stores.
EditJournal(d) ==
    /\ editing[d] # NoRecord
    /\ revision' = [revision EXCEPT ![d] = @ + 1]
    /\ journal' = [journal EXCEPT ![d] =
                     @ \cup {[version |-> editing[d],
                              revision |-> revision[d] + 1]}]
    /\ editing' = [editing EXCEPT ![d] = NoRecord]
    /\ UNCHANGED <<remote, local, hasBook, clock, sync, failures, saved, acked>>

\* The append is rejected (journalBookmark swallows the error).
EditJournalFails(d) ==
    /\ editing[d] # NoRecord
    /\ failures < MaxFailures
    /\ failures' = failures + 1
    /\ editing' = [editing EXCEPT ![d] = NoRecord]
    /\ UNCHANGED <<remote, local, hasBook, clock, journal, revision, sync,
                   saved, acked>>

\* deleteVariant deletes the publication and the records it listed before in one
\* transaction; the journal is another database and keeps its operations.  A
\* record stored after the listing outlives the transaction, but no listing shows
\* it: listBookmarks quarantines a record without a publication.  So the record
\* of a removed publication is gone with it.
RemoveBook(d) ==
    /\ d \in BookRemovers
    /\ hasBook[d]
    /\ hasBook' = [hasBook EXCEPT ![d] = FALSE]
    /\ local' = [local EXCEPT ![d] = NoRecord]
    /\ UNCHANGED <<remote, clock, editing, journal, revision, sync, failures,
                   saved, acked>>

-----------------------------------------------------------------------------
(* One synchronization of device d.                                         *)

Become(d, state) == sync' = [sync EXCEPT ![d] = state]

\* runSynchronization: remote.list answers with the document and its revision
\* (for GitHub the blob sha: a function of the content).
StartFull(d) ==
    /\ sync[d].phase = "idle"
    /\ Become(d, [Idle EXCEPT !.phase = "pull", !.current = remote])
    /\ UNCHANGED <<remote, local, hasBook, clock, editing, journal, revision,
                   failures, saved, acked>>

\* synchronizePending(operations): the worker has read the pending operations.
StartTargeted(d) ==
    /\ sync[d].phase = "idle"
    /\ journal[d] # {}
    /\ Become(d, [Idle EXCEPT !.phase = "snapshot", !.targeted = TRUE,
                              !.ops = journal[d]])
    /\ UNCHANGED <<remote, local, hasBook, clock, editing, journal, revision,
                   failures, saved, acked>>

\* pull: the local record is read and compared; the save is a later step.
PullRead(d) ==
    /\ sync[d].phase = "pull"
    /\ Become(d, [sync[d] EXCEPT !.phase =
                    IF hasBook[d] /\ Newer(sync[d].current, local[d])
                    THEN "pullSave" ELSE "pending"])
    /\ UNCHANGED <<remote, local, hasBook, clock, editing, journal, revision,
                   failures, saved, acked>>

\* saveBookmark(incoming) checks the publication again, then overwrites.
PullSave(d) ==
    /\ sync[d].phase = "pullSave"
    /\ IF hasBook[d]
       THEN /\ local' = [local EXCEPT ![d] = sync[d].current]
            /\ Become(d, [sync[d] EXCEPT !.phase = "pending"])
       ELSE UNCHANGED local /\ Become(d, Idle)
    /\ UNCHANGED <<remote, hasBook, clock, editing, journal, revision,
                   failures, saved, acked>>

\* push: journal.pending().
PushPending(d) ==
    /\ sync[d].phase = "pending"
    /\ Become(d, [sync[d] EXCEPT !.phase = "snapshot", !.ops = journal[d]])
    /\ UNCHANGED <<remote, local, hasBook, clock, editing, journal, revision,
                   failures, saved, acked>>

\* Mutant: the push reads the journal only, not the stored records.
PushSnapshotJournalOnly(d) ==
    /\ sync[d].phase = "snapshot"
    /\ \/ sync[d].ops = {} /\ Become(d, Idle)
       \/ \E best \in Versions(sync[d].ops) :
            /\ \A version \in Versions(sync[d].ops) : AtLeast(best, version)
            /\ Become(d, [sync[d] EXCEPT !.candidate = best, !.phase = "read"])
    /\ UNCHANGED <<remote, local, hasBook, clock, editing, journal, revision,
                   failures, saved, acked>>

\* coalesce...Operations and mergeSnapshot: what the push chooses from, the
\* journalled payloads and the stored record (tombstones included).
Candidates(d) == (Versions(sync[d].ops) \cup {local[d]}) \ {NoRecord}

\* The newest candidate is pushed.  A targeted push whose operations hold the
\* first revision assumes that no document exists.
PushSnapshot(d) ==
    LET found == Candidates(d)
        createCandidate == \E op \in sync[d].ops : op.revision = 1
    IN
    /\ sync[d].phase = "snapshot"
    /\ \/ found = {} /\ Become(d, Idle)
       \/ \E best \in found :
            /\ \A version \in found : AtLeast(best, version)
            /\ Become(d, [sync[d] EXCEPT
                    !.candidate = best, !.targeted = FALSE,
                    !.phase = IF sync[d].targeted /\ ~createCandidate
                              THEN "read" ELSE "merge"])
    /\ UNCHANGED <<remote, local, hasBook, clock, editing, journal, revision,
                   failures, saved, acked>>

\* pushBookmark: remote.read(path) of an attempt without a known document.
PushRead(d) ==
    /\ sync[d].phase = "read"
    /\ Become(d, [sync[d] EXCEPT !.phase = "merge", !.current = remote])
    /\ UNCHANGED <<remote, local, hasBook, clock, editing, journal, revision,
                   failures, saved, acked>>

\* The document holds the candidate or a newer record: what is left to do is to
\* acknowledge the captured operations.
Written(state) ==
    [state EXCEPT !.phase = "acknowledge", !.current = NoRecord, !.attempt = 0]

\* pushBookmark: the remote record is preferred (ties included); it is saved
\* locally, its content equals the document's, and nothing is written.
PushRemoteWins(d) ==
    /\ sync[d].phase = "merge"
    /\ Preferred(sync[d].current, sync[d].candidate) = sync[d].current
    /\ IF hasBook[d]
       THEN /\ local' = [local EXCEPT ![d] = sync[d].current]
            /\ Become(d, Written(sync[d]))
       ELSE UNCHANGED local /\ Become(d, Idle)
    /\ UNCHANGED <<remote, hasBook, clock, editing, journal, revision,
                   failures, saved, acked>>

\* Mutant: the write carries no expectedRevision.
PushWriteUnconditional(d) ==
    /\ sync[d].phase = "merge"
    /\ Preferred(sync[d].current, sync[d].candidate) # sync[d].current
    /\ remote' = sync[d].candidate
    /\ Become(d, Written(sync[d]))
    /\ UNCHANGED <<local, hasBook, clock, editing, journal, revision, failures,
                   saved, acked>>

\* pushBookmark: remote.write with expectedRevision = current?.revision.  The
\* provider refuses the write (SyncConflictError) unless the document still
\* has that revision; a conflict is retried maxConflictRetries times.
PushWrite(d) ==
    /\ sync[d].phase = "merge"
    /\ Preferred(sync[d].current, sync[d].candidate) # sync[d].current
    /\ \/ /\ remote = sync[d].current
          /\ remote' = sync[d].candidate
          /\ Become(d, Written(sync[d]))
       \/ /\ remote # sync[d].current
          /\ sync[d].attempt < MaxConflictRetries
          /\ Become(d, [sync[d] EXCEPT !.phase = "read", !.attempt = @ + 1, !.current = NoRecord])
          /\ UNCHANGED remote
       \/ /\ remote # sync[d].current
          /\ sync[d].attempt >= MaxConflictRetries
          /\ Become(d, Idle)
          /\ UNCHANGED remote
    /\ UNCHANGED <<local, hasBook, clock, editing, journal, revision, failures,
                   saved, acked>>

\* The provider applied the write and its answer was lost: the call throws.
PushWriteLost(d) ==
    /\ sync[d].phase = "merge"
    /\ Preferred(sync[d].current, sync[d].candidate) # sync[d].current
    /\ remote = sync[d].current
    /\ failures < MaxFailures
    /\ failures' = failures + 1
    /\ remote' = sync[d].candidate
    /\ Become(d, Idle)
    /\ UNCHANGED <<local, hasBook, clock, editing, journal, revision, saved,
                   acked>>

\* Mutant: acknowledges what is pending now, not what was captured.
AcknowledgeEverything(d) ==
    /\ sync[d].phase = "acknowledge"
    /\ journal' = [journal EXCEPT ![d] = {}]
    /\ acked' = acked \cup Versions(journal[d])
    /\ Become(d, Idle)
    /\ UNCHANGED <<remote, local, hasBook, clock, editing, revision, failures,
                   saved>>

\* journal.acknowledge(pending.operationIds): the ids captured before.
Acknowledge(d) ==
    /\ sync[d].phase = "acknowledge"
    /\ journal' = [journal EXCEPT ![d] = @ \ sync[d].ops]
    /\ acked' = acked \cup Versions(sync[d].ops)
    /\ Become(d, Idle)
    /\ UNCHANGED <<remote, local, hasBook, clock, editing, revision, failures,
                   saved>>

\* A request fails, the run is cancelled, or the page is closed; with
\* EditJournalFails it also stands for a crash in the middle of an edit.
Abort(d) ==
    /\ sync[d].phase # "idle"
    /\ failures < MaxFailures
    /\ failures' = failures + 1
    /\ Become(d, Idle)
    /\ UNCHANGED <<remote, local, hasBook, clock, editing, journal, revision,
                   saved, acked>>

\* The methods, which AnnotationSyncService has under the same names.
Pull(d) == PullRead(d) \/ PullSave(d)
PushDocument(d) == PushRead(d) \/ PushRemoteWins(d) \/ PushWrite(d) \/ Acknowledge(d)
Push(d) == PushPending(d) \/ PushSnapshot(d) \/ PushDocument(d)

SyncStep(d) == StartFull(d) \/ StartTargeted(d) \/ Pull(d) \/ Push(d)

Next ==
    \E d \in Devices :
        \/ \E version \in Version : EditSave(d, version)
        \/ EditJournal(d) \/ EditJournalFails(d) \/ RemoveBook(d)
        \/ SyncStep(d) \/ PushWriteLost(d) \/ Abort(d)

\* The scheduler keeps synchronizing every started device, an await resumes
\* once its answer is there, and the reader page's handler runs to its end.
Fairness ==
    \A d \in Devices : WF_vars(SyncStep(d)) /\ WF_vars(EditJournal(d))

Spec == Init /\ [][Next]_vars /\ Fairness

-----------------------------------------------------------------------------
(* Properties.                                                              *)

\* An operation leaves the journal only when the remote document holds its
\* version or a newer one: work stays pending until its remote outcome is
\* confirmed (pushBookmark acknowledges after the write or the equal read).
AcknowledgedIsRemote ==
    \A version \in acked : AtLeast(remote, version)

\* What makes AcknowledgedIsRemote inductive: a run pushes a candidate at
\* least as new as every operation it captured, from a document version that
\* the remote has not gone below, and reaches its acknowledgement only when
\* the remote holds the candidate or something newer.
RunIsCovered(state) ==
    /\ AtLeast(remote, state.current)
    /\ state.phase \in {"read", "merge", "acknowledge"} =>
         \A op \in state.ops : AtLeast(state.candidate, op.version)
    /\ state.phase = "acknowledge" => AtLeast(remote, state.candidate)

PushInvariant ==
    /\ TypeOK
    /\ AcknowledgedIsRemote
    /\ \A d \in Devices : RunIsCovered(sync[d])

\* The remote document never goes back to an older version, however stale the
\* listing a device pushes from: a tombstone is not replaced by the live copy
\* it deleted (expectedRevision together with the merge in pushBookmark).
RemoteNeverRegresses == [][AtLeast(remote', remote)]_vars

\* Once the edits are over, every device that has the publication shows the
\* remote version and no operation is pending, whatever was lost, retried or
\* overwritten on the way.  A device that removed the publication may keep an
\* operation for ever, because saveBookmark throws before the acknowledgement,
\* but only one that the document already supersedes.
Converged ==
    \A d \in Devices :
        IF hasBook[d] THEN journal[d] = {} /\ local[d] = remote
        ELSE \A op \in journal[d] : AtLeast(remote, op.version)
Convergence == <>[]Converged

\* Pending work succeeds later: a journal with operations is drained.
PendingWorkSucceeds ==
    \A d \in Devices : journal[d] # {} ~> journal[d] = {}

\* An edit that the reader page saved is never lost: it is still being
\* journalled, pending, or superseded by (or equal to) the stored record or
\* the remote document.
SavedEditNeverLost ==
    \A d \in Devices : \A version \in saved[d] :
        \/ editing[d] = version
        \/ version \in Versions(journal[d])
        \/ AtLeast(local[d], version)
        \/ AtLeast(remote, version)

=============================================================================
