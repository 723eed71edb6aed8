------------------------------ MODULE SyncRoot ------------------------------
(***************************************************************************)
(* A full synchronization pass of LibrarySyncCoordinator over a            *)
(* destination that still holds the previous root .omnia-reader/v1: what   *)
(* is there is copied to the current root, the schema manifest is brought  *)
(* up to date, the workers run, and the previous root is removed.  Several *)
(* devices do this to one destination; passes fail, are cancelled or       *)
(* crash between any two of their remote calls.                            *)
(***************************************************************************)
EXTENDS Naturals, FiniteSets

CONSTANTS
    Devices,
    Providers,      \* "github" deletes a batch at once, "mega" file by file
    MaxFailures,    \* failed calls, lost replies, cancellations and crashes
    MaxEdits,       \* reading-state edits, on the devices and by an old client
    MaxPasses

VARIABLES
    provider,
    old, cur,       \* the entries of the previous and of the current root
    pass,           \* pass[d]: the pass of device d
    worker,         \* worker[d]: its reading-state worker, which outlives a failed pass
    edits,          \* edits[d]: what device d has yet to push
    ever,           \* history: every edit the previous root has held
    refused,        \* history: the entry a migration has refused, and whose content was there
    made, failures, passes

vars == <<provider, old, cur, pass, worker, edits, ever, refused, made, failures, passes>>

(* An entry is a set of edits, and the root that its paths name.  The      *)
(* manifest's edits are the schemas up to its own.                         *)
Entry(es, root) == [edits |-> es, root |-> root]
Absent == Entry({}, "current")
IsThere(x) == x.edits # {}

(* In the order of the inventory: the paths sorted. *)
Entries == {"bookManifest", "publication", "manifest", "unsupported", "progress"}
Rank == [bookManifest |-> 1, publication |-> 2, manifest |-> 3, unsupported |-> 4, progress |-> 5]
First(S) == CHOOSE e \in S : \A f \in S : Rank[e] <= Rank[f]
Last(S) == CHOOSE e \in S : \A f \in S : Rank[f] <= Rank[e]
Documents == Entries \ {"publication"}

Legacy == 1
Compatible == 2
Current == 3
Schema(x) == IF Current \in x.edits THEN Current
             ELSE IF Compatible \in x.edits THEN Compatible ELSE Legacy

NoInventory == [e \in Entries |-> Absent]
Pass(stage, todo, inventory, source, expected, attempt) ==
    [stage |-> stage, todo |-> todo, inventory |-> inventory, source |-> source,
     expected |-> expected, attempt |-> attempt]
Idle == Pass("idle", {}, NoInventory, Absent, Absent, 0)
Worker(stage, expected) == [stage |-> stage, expected |-> expected]
Resting == Worker("idle", Absent)
MaxConflictRetries == 2

(***************************************************************************)
(* The pass of device d ends: well, or with an error.                      *)
(***************************************************************************)
Ends(d) == pass' = [pass EXCEPT ![d] = Idle]
Goes(d, p) == pass' = [pass EXCEPT ![d] = p]
Remote == <<old, cur>>
Past == <<ever, refused, made, failures, passes>>
At(d, stage) == pass[d].stage = stage

Start(d) ==
    /\ At(d, "idle") /\ passes < MaxPasses
    /\ passes' = passes + 1
    /\ Goes(d, Pass("inventory", {}, NoInventory, Absent, Absent, 0))
    /\ UNCHANGED <<provider, old, cur, worker, edits, ever, refused, made, failures>>

(* SyncRootReconciliationService.prepare *)
Inventory(d) ==
    /\ At(d, "inventory")
    /\ Goes(d, Pass("source", {e \in Entries : IsThere(old[e])}, old, Absent, Absent, 0))
    /\ UNCHANGED <<provider, worker, edits>> /\ UNCHANGED Remote /\ UNCHANGED Past

(* The unsupported entry is one outside books/, which target passes over   *)
(* without reading anything.                                               *)
Supported(e) == e # "unsupported"

(* normalizeDocument, rewriteOwnedPaths, parsePreviousBookManifest *)
Normalized(x) == Entry(x.edits, "current")

(* The next entry of the inventory. *)
Following(p) == Pass("source", p.todo \ {First(p.todo)}, p.inventory, Absent, Absent, 0)

(* Reading the source; what is not supported is left for the cleanup.  A   *)
(* publication needs the book manifest beside it.                          *)
ReadSource(d) ==
    LET p == pass[d] e == First(p.todo) IN
    /\ At(d, "source") /\ p.todo # {}
    /\ CASE ~Supported(e) -> Goes(d, Following(p))
         [] e = "publication" /\ ~IsThere(old["bookManifest"]) -> Ends(d)
         [] ~IsThere(old[e]) -> Ends(d)
         [] OTHER -> Goes(d, Pass("target", p.todo, p.inventory, Normalized(old[e]), Absent, 0))
    /\ UNCHANGED <<provider, worker, edits>> /\ UNCHANGED Remote /\ UNCHANGED Past

(* migrateDocument and migrateObject: the destination holds the same, or   *)
(* nothing.                                                                *)
ReadTarget(d) ==
    LET p == pass[d] e == First(p.todo) IN
    /\ At(d, "target")
    /\ CASE IsThere(cur[e]) /\ cur[e] = p.source -> Goes(d, Following(p)) /\ UNCHANGED refused
         [] IsThere(cur[e]) -> /\ Ends(d)
                               /\ refused' = refused \cup {[entry |-> e, by |-> p.source, there |-> cur[e]]}
         [] OTHER -> Goes(d, Pass("copy", p.todo, p.inventory, p.source, Absent, 0)) /\ UNCHANGED refused
    /\ UNCHANGED <<provider, worker, edits, ever, made, failures, passes>> /\ UNCHANGED Remote

(* A write without an expected revision creates, or is a conflict.  It is  *)
(* one conditional request, as the GitHub adapter's is; the MEGA adapter   *)
(* compares, moves away and moves in by requests of their own, which is    *)
(* the subject of MegaStore and not repeated here.                         *)
Create(e, x) ==
    /\ ~IsThere(cur[e])
    /\ cur' = [cur EXCEPT ![e] = x]

(* uploadObject accepts the same publication where one has appeared.       *)
Accepted(e, x) == e = "publication" /\ cur[e] = x

\* Mutant: the copy replaces what has appeared meanwhile.
CopyReplacing(d) ==
    LET p == pass[d] IN
    /\ At(d, "copy")
    /\ cur' = [cur EXCEPT ![First(p.todo)] = p.source] /\ Goes(d, Following(p))
    /\ UNCHANGED <<provider, old, worker, edits>> /\ UNCHANGED Past

Copy(d) ==
    LET p == pass[d] e == First(p.todo) IN
    /\ At(d, "copy")
    /\ \/ Create(e, p.source) /\ Goes(d, Following(p))
       \/ IsThere(cur[e]) /\ Accepted(e, p.source) /\ Goes(d, Following(p)) /\ UNCHANGED cur
       \/ IsThere(cur[e]) /\ ~Accepted(e, p.source) /\ Ends(d) /\ UNCHANGED cur
    /\ UNCHANGED <<provider, old, worker, edits>> /\ UNCHANGED Past

Prepared(d) ==
    /\ At(d, "source") /\ pass[d].todo = {}
    /\ Goes(d, Pass("schema", {}, pass[d].inventory, Absent, Absent, 0))
    /\ UNCHANGED <<provider, worker, edits>> /\ UNCHANGED Remote /\ UNCHANGED Past

(***************************************************************************)
(* LibrarySyncManifestService                                              *)
(***************************************************************************)
SchemaRead(d) ==
    LET p == pass[d] m == cur["manifest"] IN
    /\ At(d, "schema")
    /\ Goes(d, Pass(IF IsThere(m) /\ Schema(m) = Current THEN "work"
                    ELSE IF IsThere(m) /\ Schema(m) = Legacy THEN "logical" ELSE "upgrade",
                    {}, p.inventory, Absent, m, p.attempt))
    /\ UNCHANGED <<provider, worker, edits>> /\ UNCHANGED Remote /\ UNCHANGED Past

(* prepareLegacyUpgrade synchronizes the logical books, then the manifest  *)
(* is read again.                                                          *)
PrepareLegacyUpgrade(d) ==
    LET p == pass[d] m == cur["manifest"] IN
    /\ At(d, "logical")
    /\ IF ~IsThere(m) THEN Ends(d)
       ELSE Goes(d, Pass(IF Schema(m) = Current THEN "work" ELSE "upgrade", {}, p.inventory, Absent, m, p.attempt))
    /\ UNCHANGED <<provider, worker, edits>> /\ UNCHANGED Remote /\ UNCHANGED Past

(* An optimistic write: one conditional request, like Create. *)
Written(e, expected, x) == cur[e] = expected /\ cur' = [cur EXCEPT ![e] = x]

UpgradedManifest == Entry(Legacy .. Current, "current")

SchemaWrite(d) ==
    LET p == pass[d] IN
    /\ At(d, "upgrade")
    /\ \/ /\ Written("manifest", p.expected, UpgradedManifest)
          /\ Goes(d, Pass("work", {}, p.inventory, Absent, Absent, 0))
       \/ /\ cur["manifest"] # p.expected
          /\ IF p.attempt < MaxConflictRetries
             THEN Goes(d, Pass("schema", {}, p.inventory, Absent, Absent, p.attempt + 1)) ELSE Ends(d)
          /\ UNCHANGED cur
    /\ UNCHANGED <<provider, old, worker, edits>> /\ UNCHANGED Past

(***************************************************************************)
(* The workers.  The books come first; then the reading state, of which    *)
(* two workers are told apart: the one that writes the progress document,  *)
(* and the others, of which one may fail while it is still writing.  A     *)
(* worker that still runs is joined, not started again.                    *)
(***************************************************************************)
Books(d) ==
    /\ At(d, "work")
    /\ Goes(d, Pass("state", {}, pass[d].inventory, Absent, Absent, 0))
    /\ worker' = [worker EXCEPT ![d] = IF @.stage = "idle" THEN Worker("read", Absent) ELSE @]
    /\ UNCHANGED <<provider, edits>> /\ UNCHANGED Remote /\ UNCHANGED Past

WorkerReads(d) ==
    /\ worker[d].stage = "read"
    /\ worker' = [worker EXCEPT ![d] =
           IF edits[d] \subseteq cur["progress"].edits THEN Resting
           ELSE Worker("write", cur["progress"])]
    /\ UNCHANGED <<provider, pass, edits>> /\ UNCHANGED Remote /\ UNCHANGED Past

WorkerWrites(d) ==
    LET w == worker[d] IN
    /\ w.stage = "write"
    /\ \/ /\ Written("progress", w.expected, Entry(w.expected.edits \cup edits[d], "current"))
          /\ worker' = [worker EXCEPT ![d] = Resting]
       \/ /\ cur["progress"] # w.expected
          /\ worker' = [worker EXCEPT ![d] = Worker("read", Absent)]
          /\ UNCHANGED cur
    /\ UNCHANGED <<provider, old, pass, edits>> /\ UNCHANGED Past

Worked(d) ==
    /\ At(d, "state") /\ worker[d].stage = "idle"
    /\ Goes(d, Pass("cleanup", {e \in Entries : IsThere(pass[d].inventory[e])}, pass[d].inventory,
                    Absent, Absent, 0))
    /\ UNCHANGED <<provider, worker, edits>> /\ UNCHANGED Remote /\ UNCHANGED Past

(***************************************************************************)
(* SyncRootReconciliationService.cleanup: what was inventoried, at the     *)
(* revision it had, the last path first.                                   *)
(***************************************************************************)
\* Mutant: the first path first.
NextRemovedFirst(S) == First(S)

NextRemoved(S) == Last(S)

\* Mutant: whatever the entry's revision.
RemovableAlways(p, e) == TRUE

Removable(p, e) == old[e] \in {Absent, p.inventory[e]}

(* One optimistic commit; an entry that is gone is passed over. *)
CleanupGitHub(d) ==
    LET p == pass[d] IN
    /\ provider = "github" /\ At(d, "cleanup")
    /\ old' = IF \A e \in p.todo : Removable(p, e)
              THEN [e \in Entries |-> IF e \in p.todo THEN Absent ELSE old[e]] ELSE old
    /\ Ends(d)
    /\ UNCHANGED <<provider, cur, worker, edits>> /\ UNCHANGED Past

(* Every entry is checked, then the files are removed one by one, each by  *)
(* the handle it had.                                                      *)
CleanupMega(d) ==
    LET p == pass[d] IN
    /\ provider = "mega" /\ At(d, "cleanup")
    /\ IF \A e \in p.todo : Removable(p, e)
       THEN Goes(d, Pass("removing", p.todo, p.inventory, Absent, Absent, 0)) ELSE Ends(d)
    /\ UNCHANGED <<provider, worker, edits>> /\ UNCHANGED Remote /\ UNCHANGED Past

RemoveFile(d) ==
    LET p == pass[d] e == NextRemoved(p.todo) IN
    /\ At(d, "removing")
    /\ IF p.todo = {} THEN Ends(d) /\ UNCHANGED old
       ELSE /\ old' = [old EXCEPT ![e] = IF @ = p.inventory[e] THEN Absent ELSE @]
            /\ Goes(d, Pass("removing", p.todo \ {e}, p.inventory, Absent, Absent, 0))
    /\ UNCHANGED <<provider, cur, worker, edits>> /\ UNCHANGED Past

(***************************************************************************)
(* Failures.  A call fails before it has had an effect, or its reply is    *)
(* lost, or the pass is cancelled: the pass ends, and its worker goes on.  *)
(* A worker fails and its pass with it.  The app crashes: both are gone.   *)
(***************************************************************************)
Fail(d) ==
    /\ failures < MaxFailures /\ ~At(d, "idle")
    /\ failures' = failures + 1
    /\ Ends(d)
    /\ worker' \in {worker, [worker EXCEPT ![d] = Resting]}
    /\ UNCHANGED <<provider, edits, ever, refused, made, passes>> /\ UNCHANGED Remote

LoseReply(d) ==
    LET p == pass[d] IN
    /\ failures < MaxFailures /\ failures' = failures + 1
    /\ \/ /\ At(d, "copy") /\ Create(First(p.todo), p.source)
          /\ UNCHANGED old
       \/ /\ At(d, "upgrade") /\ Written("manifest", p.expected, UpgradedManifest)
          /\ UNCHANGED old
       \/ /\ At(d, "removing") /\ p.todo # {}
          /\ old' = [old EXCEPT ![NextRemoved(p.todo)] = IF @ = p.inventory[NextRemoved(p.todo)] THEN Absent ELSE @]
          /\ UNCHANGED cur
    /\ Ends(d)
    /\ UNCHANGED <<provider, worker, edits, ever, refused, made, passes>>

(* The reader reads on; a device that has not been upgraded writes to the  *)
(* previous root, and creates it anew where it is gone.                    *)
Read(d) ==
    /\ made < MaxEdits /\ made' = made + 1
    /\ edits' = [edits EXCEPT ![d] = @ \cup {made + 1}]
    /\ UNCHANGED <<provider, pass, worker, ever, refused, failures, passes>> /\ UNCHANGED Remote

OldClientWrites ==
    /\ made < MaxEdits /\ made' = made + 1
    /\ old' = [old EXCEPT !["progress"] = Entry(@.edits \cup {made + 1}, "previous")]
    /\ ever' = ever \cup {made + 1}
    /\ UNCHANGED <<provider, cur, pass, worker, edits, refused, failures, passes>>

PreviousRoot(schema) ==
    [bookManifest |-> Entry({0}, "previous"), publication |-> Entry({0}, "previous"),
     manifest |-> Entry(Legacy .. schema, "previous"),
     unsupported |-> Entry({0}, "previous"), progress |-> Entry({0}, "previous")]

Init ==
    /\ provider \in Providers
    /\ \E schema \in {Legacy, Compatible, Current} : old = PreviousRoot(schema)
    /\ cur = [e \in Entries |-> Absent]
    /\ pass = [d \in Devices |-> Idle] /\ worker = [d \in Devices |-> Resting]
    /\ edits = [d \in Devices |-> {}]
    /\ ever = {0} /\ refused = {} /\ made = 0 /\ failures = 0 /\ passes = 0

Step(d) ==
    \/ Start(d) \/ Inventory(d) \/ ReadSource(d) \/ ReadTarget(d) \/ Copy(d) \/ Prepared(d)
    \/ SchemaRead(d) \/ PrepareLegacyUpgrade(d) \/ SchemaWrite(d)
    \/ Books(d) \/ WorkerReads(d) \/ WorkerWrites(d) \/ Worked(d)
    \/ CleanupGitHub(d) \/ CleanupMega(d) \/ RemoveFile(d)

Next == OldClientWrites \/ \E d \in Devices : Step(d) \/ Fail(d) \/ LoseReply(d) \/ Read(d)

Spec == Init /\ [][Next]_vars

-----------------------------------------------------------------------------
(* Nothing that the previous root has held is lost with it: what is gone   *)
(* from it is in the current root, with paths that name the current root,  *)
(* whichever devices migrated, upgraded, pushed, failed and removed it in  *)
(* between (prepare, cleanup).                                             *)
NothingLost ==
    /\ \A e \in {"bookManifest", "publication", "manifest"} : ~IsThere(old[e]) => IsThere(cur[e])
    /\ ~IsThere(old["progress"]) => ever \subseteq cur["progress"].edits
    /\ \A e \in Entries : cur[e].root = "current"

(* Whatever a cleanup removed before it was interrupted, a publication of  *)
(* the previous root still has the book manifest beside it without which   *)
(* every later pass would fail (legacyBookTarget, the order of cleanup).   *)
PublicationKeepsItsManifest == IsThere(old["publication"]) => IsThere(old["bookManifest"])

(* Two devices may migrate, push, fail and clean up in any order: no       *)
(* content is lost with the previous root, and what is left of it can      *)
(* still be migrated (SyncRootReconciliationService).                      *)
MigrationIsSafe == NothingLost /\ PublicationKeepsItsManifest

(* The schema of the destination never falls back, however two devices'    *)
(* migrations of the old manifest and upgrades of the new one interleave   *)
(* (migrateDocument, LibrarySyncManifestService).                          *)
SchemaNeverFalls ==
    [][IsThere(cur["manifest"]) =>
         /\ IsThere(cur'["manifest"])
         /\ Schema(cur["manifest"]) <= Schema(cur'["manifest"])]_vars

(* A migration that was interrupted is resumed: no pass is refused for     *)
(* what an earlier pass made of the very content it would copy.            *)
RetryAccepted == \A r \in refused : ~(r.by.edits \subseteq r.there.edits)

(* A book manifest of the current root has its publication there.          *)
ReferenceHasObject == IsThere(cur["bookManifest"]) => IsThere(cur["publication"])
=============================================================================
