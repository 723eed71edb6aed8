------------------------------ MODULE BookSync ------------------------------
(***************************************************************************)
(* BookSyncService for one exact edition: its manifest, its deletion       *)
(* tombstone and its publication object in the destination, and on every   *)
(* device the local record, the exclusion, the journal and the locals of a *)
(* synchronization run, from one await to the next.                        *)
(*                                                                         *)
(* A document's revision is its content.  Times are even when a user acts  *)
(* and odd when a run reads the clock.  The catalog README is left out.    *)
(***************************************************************************)
EXTENDS Naturals

CONSTANTS
    Devices,
    MaxEvents,           \* bound on imports, removals and failures together
    MaxConflictRetries,  \* maxConflictRetries
    MaxFailures          \* bound on failed, cancelled and interrupted runs

ASSUME BookSyncAssumption ==
    MaxEvents \in Nat /\ MaxConflictRetries \in Nat /\ MaxFailures \in Nat

VARIABLES
    remote,     \* manifest, deletion (deletedAt), object
    device,     \* device[d]: local record, exclusion, journalled upserts
    run,        \* run[d]: the locals of runSynchronization
    actions,    \* user actions so far
    intent,     \* the last user action
    failures

vars == <<remote, device, run, actions, intent, failures>>

Times == 0..(2 * MaxEvents + 1)
Never == 0
Now == 2 * actions + 1

\* updatedAt and importedAt of a manifest; no manifest is at Never.
Manifest == [at: Times, imported: Times]
NoManifest == [at |-> Never, imported |-> Never]

Phases == {"idle", "list", "pull", "discard", "pullBook", "store", "put", "plan",
           "book", "upload", "read", "write", "check", "retract", "discardBook",
           "restore", "readDeletion", "writeDeletion", "readActive",
           "deleteManifest",
           "discardDeleted"}

Requests == {"deletions", "books", "journal"}

IdleRun == [phase |-> "idle", listed |-> {}, deletions |-> Never,
            books |-> NoManifest, ops |-> {}, manifest |-> NoManifest,
            created |-> Never, saw |-> Never, current |-> NoManifest,
            deletion |-> Never, written |-> FALSE, attempt |-> 0]

TypeOK ==
    /\ remote \in [manifest: Manifest, deletion: Times, object: BOOLEAN]
    /\ device \in [Devices -> [stored: BOOLEAN, visible: BOOLEAN, imported: Times,
                               excluded: BOOLEAN, journal: SUBSET Manifest,
                               removed: BOOLEAN, late: BOOLEAN]]
    /\ run \in [Devices -> [phase: Phases, listed: SUBSET Requests,
                            deletions: Times, books: Manifest, ops: SUBSET Manifest,
                            manifest: Manifest, created: Times, saw: Times,
                            current: Manifest, deletion: Times, written: BOOLEAN,
                            attempt: 0..MaxConflictRetries]]
    /\ actions \in 0..MaxEvents
    /\ intent \in {"none", "import", "remove"}
    /\ failures \in 0..MaxFailures

Init ==
    /\ remote = [manifest |-> NoManifest, deletion |-> Never, object |-> FALSE]
    /\ device = [d \in Devices |->
                   [stored |-> FALSE, visible |-> FALSE, imported |-> Never,
                    excluded |-> FALSE, journal |-> {}, removed |-> FALSE, late |-> FALSE]]
    /\ run = [d \in Devices |-> IdleRun]
    /\ actions = 0 /\ intent = "none" /\ failures = 0

-----------------------------------------------------------------------------
(* The user, who acts at any await of the device's run.  removed and late   *)
(* are history: the user removed the edition on this device and has not     *)
(* imported it since, and did so while storeSyncedBook was saving it.       *)

UserActs(d, what) ==
    /\ actions + failures < MaxEvents
    /\ actions' = actions + 1
    /\ intent' = what
    /\ UNCHANGED <<remote, run, failures>>

Become(d, state) == run' = [run EXCEPT ![d] = state]
Goto(d, phase) == Become(d, [run[d] EXCEPT !.phase = phase])
Finish(d) == Become(d, IdleRun)
At(d, phase) == run[d].phase = phase

\* importPublications of an edition that is not visible: the record is stored
\* (a retained one is kept), the exclusion lifted and an upsert journalled.
Import(d) ==
    LET now == 2 * (actions + 1)
        imported == IF device[d].stored THEN device[d].imported ELSE now
    IN
    /\ ~device[d].visible
    /\ device' = [device EXCEPT ![d] =
         [@ EXCEPT !.stored = TRUE, !.visible = TRUE, !.excluded = FALSE,
                   !.imported = imported, !.removed = FALSE, !.late = FALSE,
                   !.journal = @ \cup {[at |-> now, imported |-> imported]}]]
    /\ UserActs(d, "import")

\* deleteVariant: excluded first, then the local record goes.
Remove(d) ==
    /\ device[d].visible
    /\ device' = [device EXCEPT ![d] =
         [@ EXCEPT !.stored = FALSE, !.visible = FALSE, !.excluded = TRUE,
                   !.removed = TRUE,
                   !.late = At(d, "put")]]
    /\ UserActs(d, "remove")

\* The logical-book worker drops the membership of an edition deleted elsewhere
\* and keeps its record.
RetireMembership(d) ==
    /\ device[d].visible /\ device[d].excluded
    /\ device' = [device EXCEPT ![d].visible = FALSE]
    /\ UNCHANGED <<remote, run, actions, intent, failures>>

-----------------------------------------------------------------------------
(* The run.                                                                 *)

Exclude(d) == device' = [device EXCEPT ![d].excluded = TRUE]
Acknowledge(d) == device' = [device EXCEPT ![d].journal = @ \ run[d].ops]

\* isNewerThanDeletion: both the operation and the manifest are newer.
NewerThanDeletion(created, updated, deletedAt) ==
    created > deletedAt /\ updated > deletedAt

\* A tombstone that the pending upsert does not outdate.
Wins(d, deletedAt) ==
    /\ deletedAt # Never
    /\ ~NewerThanDeletion(run[d].created, run[d].manifest.at, deletedAt)

\* coalesceBookOperations: the operation of the highest revision.
Latest(ops) == CHOOSE op \in ops : \A other \in ops : other.at <= op.at

Start(d) ==
    /\ At(d, "idle")
    /\ Become(d, [IdleRun EXCEPT !.phase = "list"])
    /\ UNCHANGED <<remote, device>>

\* The two listings and the journal read are concurrent requests.
List(d, what) ==
    LET listed == run[d].listed \cup {what} IN
    /\ At(d, "list")
    /\ what \notin run[d].listed
    /\ Become(d, [run[d] EXCEPT
         !.listed = listed,
         !.deletions = IF what = "deletions" THEN remote.deletion ELSE @,
         !.books = IF what = "books" THEN remote.manifest ELSE @,
         !.ops = IF what = "journal" THEN device[d].journal ELSE @,
         !.phase = IF listed = Requests THEN "pull" ELSE "list"])
    /\ UNCHANGED <<remote, device>>

\* A tombstone without a newer local intent excludes the edition.
PullDeletion(d) ==
    LET deletedAt == run[d].deletions
        intended == /\ run[d].ops # {}
                    /\ LET at == Latest(run[d].ops).at
                       IN NewerThanDeletion(at, at, deletedAt)
        applies == deletedAt # Never /\ ~intended
    IN
    /\ At(d, "pull")
    /\ IF applies THEN Exclude(d) /\ Goto(d, "discard")
                  ELSE Goto(d, "pullBook") /\ UNCHANGED device
    /\ UNCHANGED remote

\* discardDeletedObjects while pulling.
PullDiscard(d) ==
    /\ At(d, "discard")
    /\ remote' = [remote EXCEPT !.object = FALSE]
    /\ Goto(d, "pullBook")
    /\ UNCHANGED device

\* headObject and downloadObject of a listed edition that is missing here.
PullBook(d) ==
    LET missing == /\ run[d].books # NoManifest
                   /\ ~device[d].excluded /\ ~device[d].stored
    IN
    /\ At(d, "pullBook")
    /\ Goto(d, IF missing /\ remote.object THEN "store" ELSE "plan")
    /\ UNCHANGED <<remote, device>>

\* Mutant: the exclusion is not read again.
PullStoreUnchecked(d) ==
    /\ At(d, "store")
    /\ Goto(d, IF device[d].stored THEN "plan" ELSE "put")
    /\ UNCHANGED <<remote, device>>

\* The exclusion is read again after the download, and storeSyncedBook keeps a
\* record that is there.
PullStore(d) ==
    /\ At(d, "store")
    /\ Goto(d, IF device[d].excluded \/ device[d].stored THEN "plan" ELSE "put")
    /\ UNCHANGED <<remote, device>>

\* storeSyncedBook hashes and saves the bytes before its transaction, which
\* reads neither the record nor the exclusion again.
PullPut(d) ==
    /\ At(d, "put")
    /\ device' = [device EXCEPT ![d] =
         [@ EXCEPT !.stored = TRUE, !.visible = TRUE,
                   !.imported = run[d].books.imported]]
    /\ Goto(d, "plan")
    /\ UNCHANGED remote

\* pushFromSnapshot: what to push, from the journal and the listing of the
\* start of the run and the exclusion and the records of now.
Plan(d) ==
    LET ops == run[d].ops
        excludedRemote == device[d].excluded /\ run[d].books # NoManifest
        snapshot == [at |-> device[d].imported, imported |-> device[d].imported]
        upsert(manifest) == [run[d] EXCEPT !.phase = "book", !.manifest = manifest,
                                          !.created = manifest.at]
        delete(at) == [run[d] EXCEPT !.phase = "readDeletion", !.created = at]
    IN
    /\ At(d, "plan")
    /\ \/ /\ ops # {} /\ excludedRemote
          /\ Become(d, delete(Latest(ops).at)) /\ UNCHANGED device
       \/ /\ ops # {} /\ device[d].excluded /\ ~excludedRemote
          /\ Acknowledge(d) /\ Finish(d)
       \/ /\ ops = {} /\ excludedRemote
          /\ Become(d, delete(Now)) /\ UNCHANGED device
       \/ /\ ops # {} /\ ~device[d].excluded
          /\ Become(d, upsert(Latest(ops))) /\ UNCHANGED device
       \/ /\ ops = {} /\ ~device[d].excluded
          /\ device[d].stored /\ run[d].books = NoManifest
          /\ Become(d, upsert(snapshot)) /\ UNCHANGED device
       \/ /\ ops = {}
          /\ IF device[d].excluded THEN ~excludedRemote
             ELSE ~device[d].stored \/ run[d].books # NoManifest
          /\ Finish(d) /\ UNCHANGED device
    /\ UNCHANGED remote

-----------------------------------------------------------------------------
(* pushBook.                                                                *)

\* The deletion marker is read first and kept for the restoration.
ReadMarker(d) ==
    /\ At(d, "book")
    /\ IF Wins(d, remote.deletion)
       THEN Exclude(d) /\ Goto(d, "discardBook")
       ELSE /\ Become(d, [run[d] EXCEPT !.phase = "upload", !.saw = remote.deletion])
            /\ UNCHANGED device
    /\ UNCHANGED remote

\* Mutant: the manifest is published without the publication.
UploadNothing(d) ==
    /\ At(d, "upload")
    /\ IF device[d].stored THEN Goto(d, "read") ELSE Finish(d)
    /\ UNCHANGED <<remote, device>>

\* Without local bytes the change is rejected and stays journalled.
Upload(d) ==
    /\ At(d, "upload")
    /\ IF device[d].stored
       THEN Goto(d, "read") /\ remote' = [remote EXCEPT !.object = TRUE]
       ELSE Finish(d) /\ UNCHANGED remote
    /\ UNCHANGED device

ReadManifest(d) ==
    LET same == remote.manifest = run[d].manifest IN
    /\ At(d, "read")
    /\ Become(d, [run[d] EXCEPT !.phase = IF same THEN "check" ELSE "write",
                                !.current = remote.manifest, !.written = FALSE])
    /\ UNCHANGED <<remote, device>>

\* A conflict is retried from the read until the bound, then fails the run.
Conflict(d, again) ==
    /\ IF run[d].attempt < MaxConflictRetries
       THEN Become(d, [run[d] EXCEPT !.phase = again, !.attempt = @ + 1])
       ELSE Finish(d)
    /\ UNCHANGED <<remote, device>>

WriteManifest(d) ==
    /\ At(d, "write")
    /\ IF remote.manifest = run[d].current
       THEN /\ remote' = [remote EXCEPT !.manifest = run[d].manifest]
            /\ Become(d, [run[d] EXCEPT !.phase = "check", !.written = TRUE])
            /\ UNCHANGED device
       ELSE Conflict(d, "read")

\* discardManifestIfDeleted reads the marker again; else acknowledge, and only
\* a manifest this run wrote goes on to remove the marker it outdated.
CheckMarker(d) ==
    /\ At(d, "check")
    /\ IF Wins(d, remote.deletion)
       THEN Exclude(d) /\ Goto(d, "retract")
       ELSE /\ Acknowledge(d)
            /\ IF run[d].written /\ run[d].saw # Never THEN Goto(d, "restore")
                                                      ELSE Finish(d)
    /\ UNCHANGED remote

\* The manifest goes at the revision written or read; a conflict is retried
\* only inside the try of a write.
Retract(d) ==
    /\ At(d, "retract")
    /\ IF remote.manifest \in {NoManifest, run[d].manifest}
       THEN /\ remote' = [remote EXCEPT !.manifest = NoManifest]
            /\ Goto(d, "discardBook")
            /\ UNCHANGED device
       ELSE IF run[d].written THEN Conflict(d, "read")
       ELSE Finish(d) /\ UNCHANGED <<remote, device>>

\* The retraction of a manifest found unchanged reports a push, so a marker
\* that was there at first goes on to be removed at its old revision.
DiscardBook(d) ==
    LET unchanged == run[d].current = run[d].manifest
                     /\ run[d].manifest # NoManifest IN
    /\ At(d, "discardBook")
    /\ remote' = [remote EXCEPT !.object = FALSE]
    /\ Acknowledge(d)
    /\ IF unchanged /\ run[d].saw # Never THEN Goto(d, "restore") ELSE Finish(d)

\* The outdated marker is deleted at the revision first read.
Restore(d) ==
    /\ At(d, "restore")
    /\ IF remote.deletion \in {Never, run[d].saw}
       THEN /\ remote' = [remote EXCEPT !.deletion = Never]
            /\ device' = [device EXCEPT ![d].excluded = FALSE]
       ELSE UNCHANGED <<remote, device>>
    /\ Finish(d)

-----------------------------------------------------------------------------
(* pushDeletion.                                                            *)

ReadDeletion(d) ==
    /\ At(d, "readDeletion")
    /\ Become(d, [run[d] EXCEPT !.phase = "writeDeletion",
                                !.deletion = remote.deletion])
    /\ UNCHANGED <<remote, device>>

\* The later of the two tombstones is kept.
WriteDeletion(d) ==
    LET current == run[d].deletion
        tombstone == IF current > run[d].created THEN current ELSE run[d].created
    IN
    /\ At(d, "writeDeletion")
    /\ IF current = tombstone \/ remote.deletion = current
       THEN /\ remote' = IF current = tombstone THEN remote
                         ELSE [remote EXCEPT !.deletion = tombstone]
            /\ Goto(d, "readActive")
            /\ UNCHANGED device
       ELSE Conflict(d, "readDeletion")

ReadActive(d) ==
    /\ At(d, "readActive")
    /\ Become(d, [run[d] EXCEPT !.current = remote.manifest,
         !.phase = IF remote.manifest = NoManifest THEN "discardDeleted"
                                                   ELSE "deleteManifest"])
    /\ UNCHANGED <<remote, device>>

DeleteManifest(d) ==
    /\ At(d, "deleteManifest")
    /\ IF remote.manifest \in {NoManifest, run[d].current}
       THEN /\ remote' = [remote EXCEPT !.manifest = NoManifest]
            /\ Goto(d, "discardDeleted")
            /\ UNCHANGED device
       ELSE Conflict(d, "readDeletion")

DiscardDeleted(d) ==
    /\ At(d, "discardDeleted")
    /\ remote' = [remote EXCEPT !.object = FALSE]
    /\ Acknowledge(d)
    /\ Finish(d)

\* A request fails, the run is cancelled or the application closes.
Fail(d) ==
    /\ ~At(d, "idle")
    /\ failures < MaxFailures /\ actions + failures < MaxEvents
    /\ failures' = failures + 1
    /\ Finish(d)
    /\ UNCHANGED <<remote, device, actions, intent>>

-----------------------------------------------------------------------------
Step(d) ==
    \/ \E what \in Requests : List(d, what)
    \/ PullDeletion(d) \/ PullDiscard(d) \/ PullBook(d) \/ PullStore(d)
    \/ PullPut(d) \/ Plan(d)
    \/ ReadMarker(d) \/ Upload(d) \/ ReadManifest(d) \/ WriteManifest(d)
    \/ CheckMarker(d) \/ Retract(d) \/ DiscardBook(d) \/ Restore(d)
    \/ ReadDeletion(d) \/ WriteDeletion(d) \/ ReadActive(d)
    \/ DeleteManifest(d) \/ DiscardDeleted(d)

Synchronize(d) ==
    /\ Start(d) \/ Step(d)
    /\ UNCHANGED <<actions, intent, failures>>

Next ==
    \E d \in Devices :
        \/ Import(d) \/ Remove(d) \/ RetireMembership(d)
        \/ Synchronize(d) \/ Fail(d)

Spec == Init /\ [][Next]_vars

\* The scheduler keeps starting runs and a started run keeps going.
FairSpec == Spec /\ \A d \in Devices : WF_vars(Synchronize(d))

-----------------------------------------------------------------------------
\* The destination comes to agree with every device: no manifest stays that a
\* device excludes, and an edition a device holds and does not exclude is listed
\* (pushFromSnapshot repairs both from the listing, journalled or not).
DestinationAgrees ==
    <>[](\A d \in Devices :
           /\ device[d].excluded => remote.manifest = NoManifest
           /\ device[d].stored /\ ~device[d].excluded
                => remote.manifest # NoManifest)

\* A listed edition can be downloaded in the end: discardDeletedObjects of a
\* late deletion does not leave a manifest without its object.
ListedHasBytes ==
    <>[](remote.manifest # NoManifest => remote.object)

\* An edition the user removed on a device (deleteVariant) is not stored there
\* again before they import it again, whatever the destination lists and wherever
\* that device's run is: pullFromSnapshot reads the exclusion again after the
\* download.  One moment is left open, a removal between that reading and the
\* transaction of storeSyncedBook.
RemovedStaysRemoved ==
    \A d \in Devices : device[d].removed => ~device[d].stored \/ device[d].late

\* When the last user action is a removal, the manifest is gone from the
\* destination in the end (pushFromSnapshot, pushDeletion).  The object of an
\* upload that failed before its manifest is left to the orphan cleanup.
RemovalConverges ==
    <>[](intent = "remove" => remote.manifest = NoManifest)

\* When the last user action is an import, the edition is in synchronization
\* again in the end: its manifest is in the destination.
ReimportSurvives ==
    <>[](intent = "import" => remote.manifest # NoManifest)

\* In the end devices and destination agree on the edition, whatever was
\* imported, removed, interrupted and repeated (pushFromSnapshot, pushDeletion,
\* discardDeletedObjects).
BooksSettle ==
    /\ DestinationAgrees
    /\ ListedHasBytes
    /\ RemovalConverges
=============================================================================
