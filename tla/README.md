# Omnia Reader: TLA+ models and proofs

Omnia Reader is an offline-first EPUB and PDF reader for the browser and the
desktop. Its library and reading state live on the device and are synchronized
through a destination the user chooses (a GitHub repository or a MEGA folder) by
way of a gateway. What is hard to get right, and hard to test, is what happens
between two awaits: several devices with one set of remote documents, handlers
of one page that overlap, requests whose answer is lost. This directory models
those parts, checks the models with TLC and proves the properties that matter
most with TLAPS.

`PROJECT.json` lists every part of the system with its sources and how far it is
modelled, the lines each definition translates, and every hazard at the line
where it bites.

## The system

| Part | Modules | Meets |
| --- | --- | --- |
| Bookmarks and annotations | ReadingStateSync | journal, reader page |
| Reading progress | ProgressSync | journal, reader page |
| Change-aware worker, coordinator | ChangeAwareSyncWorker | every synchronization service |
| Automatic synchronization | AutoSyncScheduler | worker, settings page, browser events |
| Publications and their deletion | BookSync | import, removal, exclusions |
| Logical books | LogicalBookState, LogicalLibrary, LogicalBookSync | repository, outbox |
| Remote backups, catalog | RemoteBookBackup | imports, removals, exclusions |
| Previous root, schema manifest | SyncRoot | coordinator, both adapters |
| Reader preferences | PreferenceSync | reader page, outbox, journal |
| Settings page, connection status, provider selection | SyncSettings | gateway, worker |
| Stored bytes, backup of the library | PublicationStorage, LibraryBackup, BackupInstances | repository |
| GitHub adapter, MEGA adapter | GitHubStore, MegaStore, DocumentStore | gateway routes, bridge |
| Sessions of the gateway | SessionStore, SessionMap, GatewaySessions | adapters, webhooks |
| Gateway clients and routes | GatewayTransport | adapters, services |
| Native host | NativeBroker, NativeSession, NativeSignIn | webview, gateway |
| Reader | ReaderPage, ReaderAnnotations, EpubEngine, PdfEngine, ReadingInput | repository, journal |
| Library page | LibraryPage | repository |

The reader and library pages change the local repository and append operations
to the journal. The scheduler decides when to synchronize and calls the worker,
which probes the destination's revision and runs the coordinator's stages; each
stage is a service that reads, merges and conditionally writes remote documents.
The services reach a provider through a transport, the gateway's routes and one
of two adapters; in the packaged application a native broker carries the calls.

## How the models are written

An action is what a handler does from one await to the next, so any other actor
may act in between. The locals a handler keeps across an await are fields of a
record (`run`, `task`, `pass`, `calls`), and the field that names the await it is
at is called `phase`, `stage` or `pc`. An IndexedDB transaction, a conditional
write at GitHub and a command of Redis are single steps. Data is reduced to what
the code compares: a record is its clock, a document is its content, a revision
is the content it identifies.

**ReadingStateSync** models one bookmark or annotation on several devices. A
record is its `updatedAt` and `deviceId`, all that `compareBookmarks` reads; a
deletion is a version like any other. `PullRead`, `PullSave`, `PushRead` and
`PushWrite` are the service, `EditSave` and `EditJournal` the reader page,
`RemoveBook` the removal of the publication.

**ProgressSync** models the progress of one book on several devices. Every device
has a document of its own, reduced to the time and the furthest place it carries.
A pull merges all of them into the progress the reader sees (`PullMerge` to
`PullStore`), which then belongs to the device that read last, so that a push
(`PushNext` to `Acknowledge`) may write the document of another device.

**ChangeAwareSyncWorker** models the worker, the coordinator's stages and the
tasks of the domains. A domain's document is a set of contributions and the
destination's revision is its whole content, held as a set of at most one content
because it may be absent. A domain may throw while others of its stage run on;
the next run then joins what is still in flight (`Joined`), and `domainFailed`
remembers that this has happened. `MCChangeAwareSyncWorker` gives the stages.

**AutoSyncScheduler** models the class of that name, the parts of the settings
page that share its worker, and the worker as a single promise. The fields of the
class are one record, `sched`, its methods are functions on it. Time is the
remaining wait of every timer and deadline, counted down by `Tick`.

**BookSync** models one exact edition: manifest, deletion marker and object in
the destination; record, exclusion and journal on each device. User actions
happen at even times and a run reads the clock at odd ones, so a tombstone of
"now" is newer than what went before it.

**LogicalBookState** is the merge of logical-book documents as operators,
**LogicalLibrary** the mutations of the repository (import, association, detach,
deletion, preference, reconciliation), and **LogicalBookSync** the service on
several devices: outbox, three write attempts, documents of older versions.

**RemoteBookBackup** models the cleanup of backups that no library owns, with its
grace period, against imports and other cleanups; the derived catalog; and the
bounded list of exclusions. **SyncRoot** models a whole pass over a destination
that still holds the previous root: inventory, copies, schema upgrade, workers,
and the removal of the old root, on several devices that fail between any two
calls. **PreferenceSync** models page, outbox, journal and remote registers of
the reader preferences. **SyncSettings** models who believes which destination is
chosen: gateway, selection, remembered repository, page, toolbar status, and a
pass whose every call goes to the destination of that moment.

**DocumentStore** is the contract of the gateway's document calls; **GitHubStore**
models the adapter request by request and implements it (`Implements`).
**MegaStore** models the moves with which the MEGA adapter replaces a conditional
write. **SessionMap** is the contract of the session stores, and **SessionStore**
the memory, Redis and file store that implement it (`ImplementsMap`).
**GatewaySessions** models session, token rotation, installation, repository,
revocation and cookie. **GatewayTransport** models what a caller learns from a
reply on either host. **NativeBroker**, **NativeSession** and **NativeSignIn**
model request numbers and transfer slots, the cookie jars and the stored record,
and the sign-in through the system browser. In NativeSession the gateway's cookie
has the path `/api/sync/<provider>` while `persist` asks for the cookies of `/`,
so a record that was restored is cleared by the first response and no new one is
written; what the properties say of is the jar the client goes on using.

**ReaderPage** and **ReaderAnnotations** model the handlers of the reader page,
**EpubEngine** and **PdfEngine** the engines between the page and their
renderers, **ReadingInput** the gestures that turn pages, **LibraryPage** one card
of the library page, **PublicationStorage** the bytes of one publication, and
**LibraryBackup** export and restore of a library.

Components that share no state are checked in one run: `MCGateway`,
`MCStoredContent` and `MCReader` choose one of them in the initial state (`part`) and give the
others' variables the value `"absent"`. What crosses a border between two of them
is part of the environment of each.

Operators whose comment begins with "Mutant" are plausible bugs, unused by the
specifications; with one in place of the definition it imitates, TLC must find
the property it is paired with violated.

## Runs

| Run | Properties | Shows |
| --- | --- | --- |
| reading_state | `AcknowledgedIsRemote`, `RemoteNeverRegresses`, `Convergence` | acknowledged work is in the document; the document never goes back; devices and document end equal, journals empty |
| auto_sync | `SingleFlight`, `StatusIsBacked`, `NoEarlyRetry`, `ChangesAreSent` | one run at a time; no status without what will change it; no run before a deadline; changes are sent |
| worker | `CheckpointIsMerged`, `JournalledIsSafe`, `Converges` | until a domain throws beside others, a checkpoint names only merged content and the two sides converge; journalled work is safe in any case |
| books | `RemovedStaysRemoved`, `BooksSettle` | removals stick; manifest, object and exclusions come to agree |
| logical_books | `AcknowledgedIsMerged`, `MergeKeepsOneOwner`, `ReturnsOnlyKnowingly` | no acknowledged change is lost, no merge gives an edition two owners, a deletion is undone only by a change that descends from it |
| logical_reimport | `ReimportIsSynchronized` | expected to fail: see the findings |
| backups | `NothingUnreachable`, `BackupsSettle` | an interrupted deletion can be found again; a removed edition is erased; the catalog becomes true |
| gateway | `LfsIsSound`, `StoreKept`, `ImplementsMap`, `GrantsAreSound`, `RepliesAreTrue`, `NothingIsHeld`, `AuthorityIsTrue`, `SettingsSettle` | GitHub adapter, session stores, sessions, clients, broker, cookie and settings page, each under overlapping and failing calls |
| stored_content | `MigrationIsSafe`, `SchemaNeverFalls`, `BytesAreSound`, `DocumentsAreKept`, `ArchivesAreSound` | content that is moved or replaced in several steps: the previous root, stored bytes, MEGA documents, a backup of the library |
| reader | `EditorIsSound`, `PageIsSound`, `EngineIsSound`, `TurnsAreMeant`, `PdfIsSound`, `PreferencesKept`, `PageAgrees`, `ProgressIsKept` | the parts of the reader and the library page under handlers that overlap, and the progress two devices share |
| sign_in | `RedemptionIsRight`, `AttemptEnds` | a sign-in redeems its own code in time, once, and always ends |
| sync_root_retry | `RetryAccepted` | expected to fail: see the findings |

Several of these are conjunctions of named properties of their module:
`LfsIsSound` says that a pointer has its object, that its path is configured for
LFS, and that lines of others in `.gitattributes` are kept; `DocumentsAreKept`
that a refused write leaves nothing and an acknowledged document stays;
`GrantsAreSound` that a revoked grant reaches no repository, tokens fit the
repository, rotations are shared and an authorization is used once. The comment
above each says what its parts say.

`logical_reimport` and `sync_root_retry` are expected to fail. Each shows a place
where the code does something other than a specification of the repository says;
its finding in `PROJECT.json` quotes the line. In the first, a device alone
deletes an edition, synchronizes, and imports it again: the change of the import
names no parent, so the merge takes it for concurrent with the deletion, keeps
the tombstone, and the import is acknowledged and undone. In the second, a pass
that ends between the upgrade of the schema manifest and the removal of the
previous root is refused by every later pass.

### Other instances

These instances were checked with TLC and are not kept as runs. Unless the last
column says otherwise the property is violated, and the definition of the property
is kept in its module because it states what a document of the repository says.

| Property | Module, constants | What TLC shows |
| --- | --- | --- |
| `SavedEditNeverLost` | ReadingStateSync, no `BookRemovers` | an edit saved during a push is overwritten, and lost if its append is rejected (`bookmark-sync-service.ts:197`) |
| `PendingWorkSucceeds` | ReadingStateSync, `MaxFailures = 0` | a pending operation of a removed publication makes every run throw |
| `NoEarlyRetry` | AutoSyncScheduler, two providers, `MaxTroubles = 3` | a timer set for one provider starts a run before the other's deadline (`auto-sync-scheduler.ts:390`) |
| `ShownResultIsTrue` | the same | the result of one provider is shown for the other (`:675`) |
| `ChangesAreSent` | AutoSyncScheduler, `{"mega"}`, no troubles | a manual success drops the timer of a change it did not read, and MEGA is not polled (`:284`) |
| `CheckpointIsMerged`, `Converges` without `~domainFailed` | ChangeAwareSyncWorker, two domains | a run joins a domain that outlived a failed one and stores a checkpoint for content it never listed (`library-sync-coordinator.ts:108`) |
| `BypassOnlyWhenNothingToDo` | ChangeAwareSyncWorker | holds; with `AppendMayFail = TRUE` the shortcut is taken over a saved edit (`change-aware-sync-worker.ts:153`) |
| `RemovedStaysRemoved` without `late` | BookSync, `MaxEvents = 3` | a download being stored brings back an edition imported and removed meanwhile (`browser-library-repository.ts:1429`) |
| `ReimportSurvives` | BookSync, `MaxEvents = 3`, `MaxFailures = 0` | a device that excluded an edition deletes another device's newer re-import |
| `OnlyDeletionRemoves` | LogicalBookSync, `Associations`, `OneApart` | an association can leave the source's edition without an owner (`logical-book-state.ts:191`) |
| `OneOwner` | LogicalBookSync, `Detachments`, `OneApart` | a detach commits over a membership that was replaced meanwhile (`browser-library-repository.ts:809`) |
| `ChangedBackupEarnsGrace` | RemoteBookBackup | a backup imported again after the last comparison is deleted without a new grace period |
| `NeverEmptied` without `crossed` | MegaStore | two calls that change one path see both files, and each withdraws its own (`mega-adapter.ts:463`) |
| `NeverEmptied` without `swept` | MegaStore | a call removes the `.staging` folder it found empty, with the only copies of the document another call is replacing (`mega_client.cpp:951`) |
| `CreatesOnlyWhereAbsent` | MegaStore, two callers | a document is created while another write has moved the current one away |
| `DisconnectIsFinal` | GatewaySessions, one host | a token rotation stores a session that was disconnected meanwhile |
| `ImplementsMap` with `Rotates` removed from SessionMap | SessionStore, Redis with a previous key | resealing a record undoes a write between its read and its write, and deleting an unreadable one deletes what was stored meanwhile (`session-store.ts:205`, `:213`) |
| the same | SessionStore, file with a previous key | a failed write of the resealed record deletes the session (`session-store.ts:318`) |
| `AbsenceIsReal` | GatewayTransport | a session without a repository is answered like an absent document |
| `RequestsIndependent` | NativeBroker, two faults | two gateways use the same request number |
| `ProtectedMeansKept` | NativeSession | the gateway sets its cookie for `/api/sync/<provider>` and `persist` asks for those of `/`: the record stays empty while the status reports protected persistence (`sync_session.rs:212`) |
| `DisconnectForgets` | SyncSettings | a late reply remembers the repository again |
| `BytesDurable` | PublicationStorage, no faults | a removal erases the file of a copy stored meanwhile |
| `LayerRemovalKeepsTheRest` | ReaderAnnotations, two annotations on one place | removing a layer stores an old copy over a newer note |
| `ResumeKept` | ReaderPage, PDF | progress is saved before the stored place was resumed |
| `ForwardGoesOn` | EpubEngine, four calls | a forward step after following a link does not always move by one page |
| `LatestEditKept` | PreferenceSync, one device, two edits | two changes of one field get the same revision |
| `ExportIsRestorable`, `NewerProgressKept` | LibraryBackup | an export of a record without an owner is refused on restore; a restore can replace newer progress by older |
| `RecoveryAlwaysShown` | LibraryPage, three events | an earlier verdict is shown over a replaced copy: a verification in flight is not queued again (`library-page.component.ts:948`) |
| `LibraryAlwaysShown` | LibraryPage, three events | of two reloads the one that read first ends last, and the page keeps the older list (`library-page.component.ts:728`) |
| `ReferenceHasObject` | SyncRoot | a book manifest of the current root can briefly be without its publication |
| `AcknowledgedIsReached` | ProgressSync, three saves | a pull stores the furthest place it merged over a newer save, and a push keeps only the newest operation: a furthest place can be lost, where `docs/universal-reader-plan.md:988` says to merge it by maximum |
| `ExclusionsLast`, `StoringRepairs`, `NothingLeftBehind`, `IdKeepsPlace`, `UndoOutranksDeletion`, `FurthestIsMonotone`, `RemoteGrows` | their modules, constants of the run | hold |
| `GrantsAreSound` | GatewaySessions, `MaxEvents = 2` | holds (2.3 million states) |
| every `TypeOK` | constants of the run | holds |

## Bounds

Two devices or two callers, because every race found or excluded here is between
one handler and one other actor; the run `logical_books` also has a device alone
with two changes, `backups` a device alone with a failure. Two edit times let
either device be the newer one. One conflict retry reaches both the retry and its
exhaustion. One failure (`MaxFailures`, `MaxFaults`) may fall between any two
steps. The worker has three domains, two of them concurrent, and one contribution
of another device. The scheduler's delays are 1 or 2 ticks, enough for any timer
to fire before any other. BookSync has three events (`MaxEvents`): user actions
at any await of a run, which is import, removal and re-import, or two of them and
a failure. `RemovedStaysRemoved` excepts one moment, a removal between the last
reading of the exclusion and the transaction that stores a download (`late`).
GitHubStore and GatewaySessions have two calls, so that each request of one falls
between any two of the other. MegaStore has three calls and three situations: two
callers of every operation without failures, two callers that replace a document
each with one refused request per call, and one caller with refused requests or
lost answers. PreferenceSync has as many identifiers as changes can be made
(`ChangeIds`), in the order they are made. The reader's parts have two places, annotations or sections and
three to five events, which reach every pair of overlapping handlers and the
event after it. `CHECK_DEADLOCK FALSE` is set where a bounded number of calls or
events really ends a behaviour. Callers, identifiers of sessions and
requests are symmetric in `Gateway.cfg`, whose properties are safety properties.

## Fairness

Weak fairness of what a running application does by itself: timers fire and time
passes, a promise that was started settles, a started run takes its next step,
and the scheduler keeps starting runs while the application is open. Users, other
devices, failures, restarts and cancellations have none. RemoteBookBackup assumes
strong fairness of *starting* a deletion of backups and an update of the catalog
(`DeleteBackups`, `UpdateCatalog`), which compete for an idle device, and weak
fairness of the steps of a cleanup. The liveness of ReaderAnnotations (weak
fairness of writes and of the autosave timer, strong of a waiter that polls) and
of LogicalBookSync is stated by their `FairSpec` and checked outside the runs.

## Proofs

Each proof module extends the module it is about and `TLAPS`. The theorems are
about the same definitions the runs check, for every value of the constants that
the named assumptions of the module admit. An invariant is proved with an
inductive one: it holds initially, and each action keeps it (one lemma or one
step per action); the temporal step is `PTL`. A leaf that is slow for the
default provers names the one that finds it (`Zenon`, `SMTT`).

| Module | Theorem | States | Run |
| --- | --- | --- | --- |
| ReadingStateSyncProofs | `TypeCorrect`, `AcknowledgedWorkIsRemote`, `NeverRegresses` | acknowledged work is in the document or superseded there; the document never goes back | reading_state |
| ProgressSyncProofs | `ProgressIsNeverLost` | an operation leaves the journal only when its document is as new; no document becomes older or less far | reader |
| ChangeAwareSyncWorkerProofs | `TypeCorrect`, `JournalledWorkIsSafe`, `CheckpointMerged` | an operation leaves the journal only when its contribution is in the destination; a checkpoint names only merged content, until a domain fails beside others | worker |
| AutoSyncSchedulerProofs | `OneRunAtATime`, `StatusAlwaysBacked`, `RetryAfterIsKept` | one run at a time; a status that promises more is backed; with one provider no run before a Retry-After deadline | auto_sync |
| LogicalBookSyncProofs | `AcknowledgedIsMergedAlways`, `SnapshotKeepsOneOwner` | a change is acknowledged only after a document that descends from its merge was written and read back; a snapshot taken by the merge gives no variant a second owner | logical_books |
| GitHubStoreProofs | `GitHubImplementsStore`, `BranchIsUsable` | every call takes effect at one instant or not at all; LFS pointers have objects and attributes, and foreign lines stay | gateway (`StoreKept`, `LfsIsSound`) |
| SyncRootProofs | `MigrationNeverLoses`, `SchemaOnlyRises` | what has left the previous root is in the current one; a publication left behind has its manifest; the schema never falls | stored_content |
| NativeSignInProofs | `RedemptionIsAlwaysRight` | a deep link redeems nothing after its attempt was withdrawn; the page is told it is authorized only by the one redemption of its own attempt | sign_in |

**Bookmarks, annotations.** `PushInvariant` says of each phase of a run what its
candidate and its document are worth: once a run is past its merge, the remote
document is at least as new as every operation it captured. The order lemmas
(`AtLeastTransitive`, `PreferredKeepsOrder`) carry this over the writes of other
devices, none of which lowers the document. Assumed: device ids are natural
numbers, as `localeCompare` orders them, and the bounds are.

**Progress.** A push may start from a listing that is old by then. `Sound` says
that whatever a device remembers of a document is never ahead of the destination;
a write is accepted only over the document it was merged into, so it grows that
document, and after it the document covers the operations captured before. Growth
of the destination keeps the invariant of every other run (`GrowthKeepsRun`).
Nothing is assumed.

**Worker.** `Listing` says that what a domain has listed is still in the
destination, because no domain removes a contribution; this alone gives
`JournalledWorkIsSafe`. `CheckpointInv` adds that the revision a run will store
was listed completely by every domain or is the destination before the run; it
is the part that a domain which outlives its stage breaks, hence `domainFailed`.

**Scheduler.** `Inv` relates the fields of the class: a timer excludes a run, the
active run is the one that awaits the worker, a stopped scheduler has aborted it,
and, with one provider, the timer is not earlier than any deadline. The lemmas
state what each private method does to these facts, and the handlers combine
them. Assumed: the providers are among the two, delays are positive.

**Logical books.** `IInv` says that the operations a run will acknowledge and the
documents it will retire are among the changes it merges, and that those are in
the document from the verification on. It does not look into the merge.

**GitHub adapter.** `Sound` says that what a handler remembers between two
requests still means what the next one needs; its one hard part is that the tree
`deleteEntries` validated is the tree it replaces as long as the branch has not
moved. Every step of the adapter is then a step of `DocumentStore` or a stutter.
`LfsInv` adds what an upload knows once the attributes were read and once the
object was transferred. Assumed: requests are well formed, and contents, pointers
and absence are told apart.

**Previous root.** `Knows` says what a pass knows of both roots at each stage
(which entries it has copied, that it removes only what it copied, that the
manifest goes last), and that this stays true while other devices write and
remove. Nothing is assumed.

**Signing in.** `SignInInv` says that an attempt is still in the pending list, or
is being redeemed once, or is over: the list gives its entry up before the
redemption begins (`PendingAuthorizations.consume`), and no attempt comes back to
it, not after a restart either. `RedemptionIsRight` alone is not inductive, it
does not speak of the list. Nothing is assumed, of the time limits neither.

Only model-checked: every liveness property (`Convergence`, `ChangesAreSent`,
`Converges`, `BooksSettle`, `BackupsSettle`, `AttemptEnds`), because fairness is
out of the prover's reach; `MergeKeepsOneOwner` and `ReturnsOnlyKnowingly`, which
fold the changes of a run, and the snapshots of a change, into a document: what
each snapshot and what the rest of each change does is proved
(`SnapshotKeepsOneOwner`; the lemmas `RemovalsKeepOneOwner` and
`ChangeKeepsOneOwner`, which supposes the fold of the snapshots), the inductions
along the two folds are not;
and the properties of the modules that have no proof module.

## What the models assume or leave out

In general: a conditional write at GitHub, an IndexedDB transaction and a Redis
command are atomic. In the services a lost answer is an effect followed by the
failure of the run. Malformed or oversized documents, formats of earlier versions
(except where a module names them), texts, progress reports, rendering and layout
are left out. Not modelled at all: the transfer of objects in the browser, the
native shell, enrichment, navigation, platform detection, and release and test
tooling.

| Module | Leaves out |
| --- | --- |
| ProgressSync | more than one book, rejected documents, payloads without a position, re-import after removal; the two repository reads of a pull's merge are one step |
| LogicalBookSync | failed validation of an import, covers and metadata, object paths of earlier versions |
| SyncRoot | the workers that run after the migration are single steps; path rewriting is reduced to which root an entry names; an invalid `book.json`, a newer schema, and unsupported entries beneath `books/`; a conditional write is one step also at MEGA, whose adapter makes it of several (MegaStore) |
| MegaStore | the limits on duplicate candidates and sizes |
| SessionStore | an invalid file; in the run Redis holds records of the current key. A `get` of a record under a previous key promises less (`Rotates`, `Rewrites` of SessionMap): its rewriting may undo another write or delete the session |
| GatewayTransport | the store behind the gateway is abstract; limits are reduced to stray files. `HostsAgree` excepts what the hosts do differently (`KnownDifference`): listings with an empty or percent-signed name, a 409 to a call that changes nothing, and the page of a proxy that answers a download |
| SyncSettings | the history of manual passes, labels, availability of the gateway, malformed stored data; a malformed reply is one with the wrong flags, without the account or with an incomplete destination |
| NativeBroker, NativeSession, NativeSignIn | a cancellation takes the broker's locks in one step; one provider's cookie and sign-in; validation of arguments |
| ReaderAnnotations | merges from other devices while the page is open, colours |
| ReaderPage, ReadingInput | running a search, contents, dialogs; geometry of gestures, zoom, commands; a notch of the wheel reaches its handler once (`handledWheelEvents`, and the interval would swallow it) |
| EpubEngine, PdfEngine | reuse of an engine, scrolled flow; thumbnails, search, selection, outline, forms. A frame that epub.ts fills again because `applySectionPresentation` changes the flow is taken to run the content hook, as `handleRenderedContent` says; after `applyPreferences` it is not, and the engine attaches its handlers itself |
| PreferenceSync | more than one destination, a malformed remote document (the pass ends and changes nothing), an update of several fields at once (it is several updates) |
| LibraryBackup | documents of progress, preferences, covers, archives of earlier schemas |
| PublicationStorage | more than one content identity; bytes in IndexedDB are never corrupt. `BytesKept` excepts a removal, or a store that failed, beside another call for the same file: `BytesDurable` is false there |
| LibraryPage | more than one card; search, sorting, covers, export, review of reconciliations, the probes for copies that could be recovered |
