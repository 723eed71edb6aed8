-------------------------- MODULE RemoteBookBackup --------------------------
(***************************************************************************)
(* RemoteBookBackupService, the catalog and the stored exclusions for one  *)
(* exact edition.  A renamed import of the edition leaves it in another    *)
(* directory, so there is a manifest and an object for every path; one     *)
(* deletion tombstone and the logical state are shared.                    *)
(*                                                                         *)
(* The devices delete the backup of a removed edition, or look for a       *)
(* backup that no library owns and delete it after the grace period.       *)
(* Against them run imports: their object, manifest and membership reach   *)
(* the destination in separate steps (BookSync and LogicalBookSync model   *)
(* those in detail).  The revision of a manifest is the import it is of;   *)
(* an import happens at an even time, a tombstone is made at an odd one.   *)
(***************************************************************************)
EXTENDS Naturals, FiniteSets, FiniteSetsExt

CONSTANTS
    Devices,
    Paths,               \* directories the edition may be in: an interval
    Grace,               \* orphanGraceMs
    MaxConflictRetries,  \* maxConflictRetries
    MaxExcluded,         \* MAX_EXCLUDED_BOOKS
    OtherExclusions,     \* the editions that every device excludes besides
    MaxClock,            \* bound on the clock
    Beginnings           \* the devices whose runs clean up and those whose users
                         \* import, the manifests and library of the destination,
                         \* and the bounds on imports and on failures and restarts

ASSUME RemoteBookBackupAssumption ==
    /\ Paths \subseteq Nat \ {0} /\ IsFiniteSet(Paths) /\ IsFiniteSet(OtherExclusions)
    /\ Grace \in Nat /\ MaxConflictRetries \in Nat /\ MaxExcluded \in Nat
    /\ MaxClock \in Nat /\ \A first \in Beginnings :
          first.cleaners \cup first.importers \subseteq Devices
    /\ "edition" \notin OtherExclusions

VARIABLES
    remote,    \* manifests, objects, tombstone, library, catalog
    device,    \* device[d]: excluded and its stored copy, pending, observed
    run,       \* run[d]: the locals of a cleanup, an upload or a catalog update
    clock,     \* Date.parse(now())
    imports,   \* imports so far, the ones before the beginning as one
    budget,    \* the imports and failures left
    uploads    \* history: the imports whose object is there and manifest is not

vars == <<remote, device, run, clock, imports, budget, uploads>>

None == 0
Present == DOMAIN device
Libraries == {"none", "absent", "member", "removed"}

Phases == {"idle", "list", "recheck", "relist", "deletion", "manifest", "marker",
           "tombstone", "extra", "extraObject", "extraManifest", "object",
           "removeManifest", "lastObject", "acknowledge", "catalogList",
           "catalogRead", "catalogWrite", "publish"}

IdleRun == [phase |-> "idle", backups |-> {}, orphaned |-> FALSE, protected |-> FALSE,
            wasExcluded |-> FALSE, committed |-> FALSE, marker |-> {}, seen |-> {},
            current |-> None, left |-> {}, extra |-> <<None, None>>,
            attempt |-> 0, content |-> "none", catalog |-> "none", op |-> {}]

Init ==
    /\ \E first \in Beginnings :
          /\ remote = [manifests |-> first.manifests, library |-> first.library,
                       objects |-> {p \in Paths : first.manifests[p] # None},
                       tombstone |-> {}, catalog |-> "none"]
          /\ device = [d \in first.cleaners \cup first.importers |->
                         [cleans |-> d \in first.cleaners, excluded |-> OtherExclusions,
                          stored |-> OtherExclusions, pending |-> {}, observed |-> {},
                          imports |-> d \in first.importers]]
          /\ run = [d \in first.cleaners \cup first.importers |-> IdleRun]
          /\ budget = [imports |-> first.imports, failures |-> first.failures]
    /\ clock = 0 /\ imports = 1 /\ uploads = {}

-----------------------------------------------------------------------------
(* BrowserBookSyncExclusions: the whole set is stored on every change and   *)
(* read once, at the start.                                                 *)

Persist(d, set) == [device[d] EXCEPT !.excluded = set, !.stored = set]
Exclude(d) == Persist(d, device[d].excluded \cup {"edition"})
Include(d) == Persist(d, device[d].excluded \ {"edition"})
IsExcluded(d) == "edition" \in device[d].excluded

\* isStoredBookSyncExclusions refuses a list above the limit as a whole.
Load(stored) == IF Cardinality(stored) <= MaxExcluded THEN stored ELSE {}

-----------------------------------------------------------------------------
(* What the backups are compared with. *)

\* list: the manifests of the edition, with their revisions.
Backups == {<<p, remote.manifests[p]>> : p \in {q \in Paths : remote.manifests[q] # None}}

\* listOrphaned protects members and everything a pending operation names; before
\* the first synchronization every backup is protected.
Protected(d) == remote.library \in {"none", "member"} \/ device[d].pending # {}

\* Two devices make different tombstones, their times differ.
NewTombstone(d, backup) == [at |-> 2 * imports + 1, by |-> d, path |-> backup[1]]
First(backups) == CHOOSE b \in backups : \A other \in backups : b[1] <= other[1]

\* isNewerThanDeletion, for an import of the edition.
Outdates(op, tombstone) == 2 * op.revision > tombstone.at

-----------------------------------------------------------------------------
Become(d, state) == run' = [run EXCEPT ![d] = state]
Goto(d, phase) == Become(d, [run[d] EXCEPT !.phase = phase])
Finish(d) == Become(d, IdleRun)
At(d, phase) == run[d].phase = phase
SetDevice(d, value) == device' = [device EXCEPT ![d] = value]
Environment == UNCHANGED <<clock, imports, budget>>
Elsewhere == Environment /\ UNCHANGED uploads

(* reconcileOrphaned *)

ReconcileOrphaned(d) ==
    /\ At(d, "idle") /\ device[d].cleans
    /\ Become(d, [IdleRun EXCEPT !.phase = "list", !.protected = Protected(d)])
    /\ UNCHANGED <<remote, device>> /\ Elsewhere

\* A candidate is observed with its revisions; it is due when the same
\* observation is as old as the grace period.
Observe(d) ==
    LET found == IF run[d].protected THEN {} ELSE Backups
        before == device[d].observed
        due == \E o \in before : clock >= o.since /\ clock - o.since >= Grace
        fresh == \A o \in before : o.print # found \/ clock < o.since
    IN
    /\ At(d, "list")
    /\ IF found # {} /\ ~fresh /\ due
       THEN /\ Become(d, [run[d] EXCEPT !.phase = "recheck", !.backups = found])
            /\ UNCHANGED device
       ELSE /\ Finish(d)
            /\ SetDevice(d, [device[d] EXCEPT !.observed =
                 IF found = {} THEN {}
                 ELSE IF fresh THEN {[print |-> found, since |-> clock]} ELSE before])
    /\ UNCHANGED remote /\ Elsewhere

\* deleteOrphaned compares membership and revisions again.
Recheck(d) ==
    /\ At(d, "recheck")
    /\ Become(d, [run[d] EXCEPT !.phase = "relist", !.protected = Protected(d)])
    /\ UNCHANGED <<remote, device>> /\ Elsewhere

\* What differs is a conflict, and the candidate earns a fresh grace period;
\* else the deletion excludes the edition and goes on.
Relist(d) ==
    /\ At(d, "relist")
    /\ IF run[d].protected \/ Backups # run[d].backups
       THEN /\ Finish(d)
            /\ SetDevice(d, [device[d] EXCEPT !.observed = {}])
       ELSE /\ Become(d, [run[d] EXCEPT !.phase = "deletion", !.orphaned = TRUE,
                                        !.wasExcluded = IsExcluded(d)])
            /\ SetDevice(d, Exclude(d))
    /\ UNCHANGED remote /\ Elsewhere

\* Another destination was synchronized meanwhile: its scope clears what was
\* observed of this one.
OtherScope(d) ==
    /\ At(d, "idle") /\ device[d].observed # {}
    /\ SetDevice(d, [device[d] EXCEPT !.observed = {}])
    /\ UNCHANGED <<remote, run>> /\ Elsewhere

(* deleteBackups: the logical state says the edition was removed. *)

DeleteBackups(d) ==
    /\ At(d, "idle") /\ device[d].cleans /\ remote.library = "removed"
    /\ Become(d, [IdleRun EXCEPT !.phase = "deletion", !.backups = Backups,
                                 !.wasExcluded = IsExcluded(d)])
    /\ SetDevice(d, Exclude(d))
    /\ UNCHANGED remote /\ Elsewhere
-----------------------------------------------------------------------------
(* deleteBackupFromInventory *)

ManifestPath(d) ==
    IF run[d].backups # {} THEN First(run[d].backups)[1]
    ELSE (CHOOSE t \in run[d].marker : TRUE).path

\* Mutant: a tombstone means that the deletion was done.
TombstoneMeansDone(d) ==
    LET marker == IF remote.tombstone # {} \/ run[d].backups = {} THEN {}
                  ELSE {NewTombstone(d, First(run[d].backups))}
    IN
    /\ At(d, "deletion")
    /\ Become(d, [run[d] EXCEPT !.marker = marker,
                    !.phase = IF marker = {} THEN "acknowledge" ELSE "manifest"])
    /\ UNCHANGED <<remote, device>> /\ Elsewhere

\* A tombstone that exists is kept; with neither tombstone nor backup only the
\* pending writes are acknowledged.
ReadDeletion(d) ==
    LET marker == IF remote.tombstone # {} \/ run[d].backups = {} THEN remote.tombstone
                  ELSE {NewTombstone(d, First(run[d].backups))}
    IN
    /\ At(d, "deletion")
    /\ Become(d, [run[d] EXCEPT !.marker = marker,
                    !.phase = IF marker = {} THEN "acknowledge" ELSE "manifest"])
    /\ UNCHANGED <<remote, device>> /\ Elsewhere

ReadManifest(d) ==
    /\ At(d, "manifest")
    /\ Become(d, [run[d] EXCEPT !.phase = "marker",
                    !.current = remote.manifests[ManifestPath(d)],
                    !.left = {b[1] : b \in run[d].backups} \ {ManifestPath(d)}])
    /\ UNCHANGED <<remote, device>> /\ Elsewhere

ReadMarker(d) ==
    /\ At(d, "marker")
    /\ IF remote.tombstone = run[d].marker
       THEN Become(d, [run[d] EXCEPT !.phase = "extra", !.committed = TRUE])
       ELSE Become(d, [run[d] EXCEPT !.phase = "tombstone", !.seen = remote.tombstone])
    /\ UNCHANGED <<remote, device>> /\ Elsewhere

\* What the error path of a deletion leaves: the exclusion is lifted unless it was
\* there before or the tombstone is in the destination.
AfterError(d) ==
    IF ~run[d].wasExcluded /\ ~run[d].committed THEN Include(d) ELSE device[d]

\* A conflict is retried from the manifest until the bound; an orphan whose
\* deletion ends in a conflict is forgotten.
Conflict(d) ==
    IF run[d].attempt < MaxConflictRetries
    THEN /\ Become(d, [run[d] EXCEPT !.phase = "manifest", !.attempt = @ + 1])
         /\ UNCHANGED device
    ELSE /\ Finish(d)
         /\ SetDevice(d, [AfterError(d) EXCEPT
                            !.observed = IF run[d].orphaned THEN {} ELSE @])

WriteTombstone(d) ==
    /\ At(d, "tombstone")
    /\ IF remote.tombstone = run[d].seen
       THEN /\ remote' = [remote EXCEPT !.tombstone = run[d].marker]
            /\ Become(d, [run[d] EXCEPT !.phase = "extra", !.committed = TRUE])
            /\ UNCHANGED device
       ELSE Conflict(d) /\ UNCHANGED remote
    /\ Elsewhere

\* The other directories, one by one; then the one of the first backup.
Extra(d) ==
    LET p == Min(run[d].left) IN
    /\ At(d, "extra")
    /\ IF run[d].left = {}
       THEN Goto(d, IF run[d].current # None THEN "object" ELSE "lastObject")
       ELSE IF remote.manifests[p] = None
       THEN Become(d, [run[d] EXCEPT !.left = @ \ {p}])
       ELSE Become(d, [run[d] EXCEPT !.phase = "extraObject", !.left = @ \ {p},
                                     !.extra = <<p, remote.manifests[p]>>])
    /\ UNCHANGED <<remote, device>> /\ Elsewhere

\* headObject and deleteObject: the object of a path has one possible content.
DeleteObject(d, p, phase) ==
    /\ remote' = [remote EXCEPT !.objects = @ \ {p}]
    /\ Goto(d, phase)
    /\ UNCHANGED device /\ Elsewhere

\* deleteDocument of a revision; a document that is gone is no conflict.
DeleteManifest(d, p, revision, phase) ==
    /\ IF remote.manifests[p] \in {None, revision}
       THEN /\ remote' = [remote EXCEPT !.manifests[p] = None]
            /\ Goto(d, phase)
            /\ UNCHANGED device
       ELSE Conflict(d) /\ UNCHANGED remote
    /\ Elsewhere

\* Mutant: the manifest of another directory goes and its object stays.
DeleteExtraManifestOnly(d) ==
    /\ At(d, "extraObject")
    /\ DeleteManifest(d, run[d].extra[1], run[d].extra[2], "extraManifest")

DeleteExtraObject(d) ==
    At(d, "extraObject") /\ DeleteObject(d, run[d].extra[1], "extraManifest")

DeleteExtraManifest(d) ==
    At(d, "extraManifest") /\ DeleteManifest(d, run[d].extra[1], run[d].extra[2], "extra")

DeleteManifestObject(d) ==
    At(d, "object") /\ DeleteObject(d, ManifestPath(d), "removeManifest")

DeleteFirstManifest(d) ==
    /\ At(d, "removeManifest")
    /\ DeleteManifest(d, ManifestPath(d), run[d].current, "lastObject")

DeleteLastObject(d) ==
    /\ At(d, "lastObject")
    /\ \E t \in run[d].marker : DeleteObject(d, t.path, "acknowledge")

\* acknowledgePendingBookWrites: every pending upsert of the edition.
Acknowledge(d) ==
    /\ At(d, "acknowledge")
    /\ SetDevice(d, [device[d] EXCEPT !.pending = {op \in @ : op.kind # "book"}])
    /\ IF run[d].marker = {} THEN Finish(d)
       ELSE Become(d, [run[d] EXCEPT !.phase = "catalogList", !.attempt = 0])
    /\ UNCHANGED remote /\ Elsewhere

-----------------------------------------------------------------------------
(* updateBookSyncCatalog: the content is computed once, from one listing. *)

Listing == IF Backups = {} THEN "empty" ELSE "listed"

ListForCatalog(d) ==
    /\ At(d, "catalogList")
    /\ Become(d, [run[d] EXCEPT !.phase = "catalogRead", !.content = Listing])
    /\ UNCHANGED <<remote, device>> /\ Elsewhere

\* The publication worker ends every run by updating the catalog.
UpdateCatalog(d) ==
    /\ At(d, "idle") /\ device[d].cleans /\ remote.catalog # Listing
    /\ Become(d, [IdleRun EXCEPT !.phase = "catalogRead", !.content = Listing])
    /\ UNCHANGED <<remote, device>> /\ Elsewhere

Done(d) ==
    /\ Finish(d)
    /\ SetDevice(d, [device[d] EXCEPT !.observed = IF run[d].orphaned THEN {} ELSE @])

ReadCatalog(d) ==
    /\ At(d, "catalogRead")
    /\ IF remote.catalog = run[d].content THEN Done(d)
       ELSE /\ Become(d, [run[d] EXCEPT !.phase = "catalogWrite",
                                           !.catalog = remote.catalog])
            /\ UNCHANGED device
    /\ UNCHANGED remote /\ Elsewhere

WriteCatalog(d) ==
    /\ At(d, "catalogWrite")
    /\ IF run[d].catalog = remote.catalog
       THEN Done(d) /\ remote' = [remote EXCEPT !.catalog = run[d].content]
       ELSE /\ IF run[d].attempt < MaxConflictRetries
               THEN /\ Become(d, [run[d] EXCEPT !.phase = "catalogRead", !.attempt = @ + 1])
                    /\ UNCHANGED device
               ELSE Done(d)
            /\ UNCHANGED remote
    /\ Elsewhere

-----------------------------------------------------------------------------
(* Imports, as the other services carry them to the destination. *)

Import(d, p) ==
    /\ device[d].imports /\ budget.imports > 0
    /\ budget' = [budget EXCEPT !.imports = @ - 1]
    /\ imports' = imports + 1
    /\ SetDevice(d, [Include(d) EXCEPT !.pending =
                       @ \cup [kind: {"book", "change"}, path: {p},
                               revision: {imports + 1}]])
    /\ UNCHANGED <<remote, run, clock, uploads>>

\* pushOne: an import older than the tombstone is given up.
GiveUp(d, op) ==
    /\ SetDevice(d, [Exclude(d) EXCEPT !.pending = @ \ {op}])
    /\ remote' = [remote EXCEPT !.objects = @ \ {op.path}]
    /\ uploads' = uploads \ {op}
    /\ Finish(d)

Upload(d) ==
    /\ At(d, "idle")
    /\ \E op \in {o \in device[d].pending : o.kind = "book"} :
          IF \E t \in remote.tombstone : ~Outdates(op, t) THEN GiveUp(d, op)
          ELSE /\ remote' = [remote EXCEPT !.objects = @ \cup {op.path}]
               /\ uploads' = uploads \cup {op}
               /\ Become(d, [IdleRun EXCEPT !.phase = "publish", !.op = {op},
                                            !.seen = remote.tombstone])
               /\ UNCHANGED device
    /\ Environment

\* The manifest is written, the outdated tombstone deleted and the operation
\* acknowledged.
Publish(d) ==
    /\ At(d, "publish")
    /\ \E op \in run[d].op :
          IF \E t \in remote.tombstone : ~Outdates(op, t) THEN GiveUp(d, op)
          ELSE /\ remote' = [remote EXCEPT !.tombstone = {},
                              !.manifests[op.path] = op.revision]
               /\ uploads' = uploads \ {op}
               /\ SetDevice(d, [(IF run[d].seen = {} THEN device[d] ELSE Include(d))
                                  EXCEPT !.pending = @ \ {op}])
               /\ Finish(d)
    /\ Environment

\* The logical state takes the edition in, unless its removal is on record.
JoinLibrary(d) ==
    /\ At(d, "idle") /\ \A op \in device[d].pending : op.kind = "change"
    /\ device[d].pending # {}
    /\ remote' = [remote EXCEPT !.library = IF @ = "removed" THEN @ ELSE "member"]
    /\ SetDevice(d, [device[d] EXCEPT !.pending = {}])
    /\ UNCHANGED run /\ Elsewhere

RemoveFromLibrary ==
    /\ remote.library = "member"
    /\ remote' = [remote EXCEPT !.library = "removed"]
    /\ UNCHANGED <<device, run>> /\ Elsewhere

-----------------------------------------------------------------------------
(* Time and faults. *)

\* The clock advances, or is set back; only the age of an observation is ever
\* compared, so it stands still while there is none.
Tick ==
    /\ \E d \in Present : device[d].observed # {}
    /\ clock' \in {clock + 1, clock - 1} \cap 0..MaxClock
    /\ UNCHANGED <<remote, device, run, imports, budget, uploads>>

\* A request fails and the error path runs.
Fail(d) ==
    /\ ~At(d, "idle") /\ budget.failures > 0
    /\ budget' = [budget EXCEPT !.failures = @ - 1]
    /\ SetDevice(d, IF run[d].marker # {} \/ run[d].phase \in {"deletion", "acknowledge"}
                    THEN AfterError(d)
                    ELSE device[d])
    /\ Finish(d)
    /\ UNCHANGED <<remote, clock, imports, uploads>>

\* The application closes and starts again.
Restart(d) ==
    /\ budget.failures > 0
    /\ budget' = [budget EXCEPT !.failures = @ - 1]
    /\ SetDevice(d, [device[d] EXCEPT !.excluded = Load(device[d].stored),
                                      !.observed = {}])
    /\ Finish(d)
    /\ UNCHANGED <<remote, clock, imports, uploads>>

-----------------------------------------------------------------------------
Cleanup(d) ==
    \/ ReadDeletion(d) \/ ReadManifest(d) \/ ReadMarker(d) \/ WriteTombstone(d)
    \/ Extra(d) \/ DeleteExtraObject(d) \/ DeleteExtraManifest(d)
    \/ DeleteManifestObject(d) \/ DeleteFirstManifest(d) \/ DeleteLastObject(d)
    \/ Acknowledge(d) \/ ListForCatalog(d) \/ ReadCatalog(d) \/ WriteCatalog(d)
    \/ Observe(d) \/ Recheck(d) \/ Relist(d) \/ Publish(d)

Next ==
    \/ \E d \in Present :
          \/ Cleanup(d) \/ DeleteBackups(d) \/ UpdateCatalog(d) \/ Upload(d)
          \/ JoinLibrary(d) \/ ReconcileOrphaned(d) \/ OtherScope(d)
          \/ Fail(d) \/ Restart(d) \/ \E p \in Paths : Import(d, p)
    \/ RemoveFromLibrary \/ Tick

Spec == Init /\ [][Next]_vars

\* The scheduler keeps starting runs, and a run that was started goes on.
FairSpec ==
    /\ Spec
    /\ \A d \in Devices :
          /\ WF_vars(d \in Present /\ Cleanup(d))
          /\ SF_vars(d \in Present /\ DeleteBackups(d))
          /\ SF_vars(d \in Present /\ UpdateCatalog(d))

-----------------------------------------------------------------------------
Operations == [kind: {"book", "change"}, path: Paths, revision: 1..imports]

TypeOK ==
    /\ remote.manifests \in [Paths -> 0..imports] /\ remote.objects \subseteq Paths
    /\ remote.library \in Libraries /\ Cardinality(remote.tombstone) <= 1
    /\ remote.catalog \in {"none", "empty", "listed"}
    /\ \A d \in Present :
          /\ device[d].pending \subseteq Operations
          /\ device[d].excluded \subseteq OtherExclusions \cup {"edition"}
          /\ run[d].phase \in Phases /\ run[d].attempt \in 0..MaxConflictRetries
    /\ clock \in 0..MaxClock /\ imports \in Nat

\* Interrupted cleanup can always find its way back: an object in the destination
\* is named by a manifest or by the tombstone, or an import put it there and has
\* not written its manifest (deleteBackupFromInventory, the order of deletions).
NothingUnreachable ==
    \A p \in remote.objects :
        \/ remote.manifests[p] # None
        \/ \E t \in remote.tombstone : t.path = p
        \/ \E op \in uploads : op.path = p

\* An exclusion is lifted only by an import of the edition, or by the error path
\* of a deletion that began without it and wrote no tombstone; never by a restart,
\* and never the exclusion of another edition.
ExclusionsLast ==
    [][\A d \in Present : LET lost == device[d].excluded \ device'[d].excluded IN
          lost # {} =>
            /\ lost = {"edition"}
            /\ \/ imports' # imports \/ At(d, "publish")
               \/ ~At(d, "idle") /\ ~run[d].wasExcluded /\ ~run[d].committed]_vars

\* A changed backup earns a fresh grace period: the cleanup of unowned backups
\* removes a manifest only at the revision it approved.
ChangedBackupEarnsGrace ==
    [][\A d \in Present, p \in Paths :
          (/\ run[d].orphaned /\ run[d] # run'[d]
           /\ remote.manifests[p] # None /\ remote'.manifests[p] = None)
             => <<p, remote.manifests[p]>> \in run[d].backups]_vars

\* Deletion is retried until nothing is left: once the library removed the edition
\* its backups go, in every directory, whatever failed on the way.
RemovedIsErased == <>[](remote.library = "removed" => Backups = {})

\* A stale catalog does not stay: when imports and removals are over it lists what
\* is there.
CatalogCatchesUp == <>[](remote.catalog = Listing)

\* In the end deletions are carried out and the catalog is right, whatever failed
\* and was repeated on the way (deleteBackup, writeCatalog).
BackupsSettle ==
    /\ RemovedIsErased
    /\ CatalogCatchesUp
=============================================================================
