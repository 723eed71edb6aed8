----------------------------- MODULE PreferenceSync -----------------------------
(***************************************************************************)
(* Reader preferences from the page to the other devices:                  *)
(* persistPreferences of the reader page, commitReaderPreferenceUpdate and *)
(* saveSynchronizedReaderPreferences of BrowserLibraryRepository,          *)
(* ReaderPreferenceSyncService (libs/sync/core) and the registers it       *)
(* merges (libs/reader/domain/src/lib/reader-preference-sync-state.ts).    *)
(*                                                                         *)
(* Each device has a page, a library with an outbox, a journal in another  *)
(* database and a synchronisation that reads, merges, writes and verifies  *)
(* one remote document.  An action is what runs from one await to the      *)
(* next; a device may crash between any two.                               *)
(***************************************************************************)
EXTENDS Naturals, Sequences, FiniteSets

CONSTANTS
    Devices,            \* numbers: deviceId.localeCompare
    Fields,
    Values,
    Before,             \* what each library holds when synchronisation is new
    Default,            \* the value of a field nobody has set
    ChangeIds,          \* numbers, more than edits: random identifiers, compared as text
    MaxConflictRetries, \* maxConflictRetries
    MaxEdits,
    MaxFaults,          \* failed calls and crashes
    MaxEvents,          \* synchronizations, failed calls and crashes
    None

VARIABLES
    page,       \* per device: the preferences the open reader page holds
    appending,  \* per device: committed changes the page still journals
    stored,     \* per device: the preferences in the library
    outbox,     \* per device: READER_PREFERENCE_CHANGE_OUTBOX_STORE
    metadata,   \* per device: READER_PREFERENCE_SYNC_METADATA_STORE
    journal,    \* per device: pending operations
    sync,       \* per device: the synchronisation in progress
    remote,     \* the remote document
    made,       \* history: the changes committed, in order
    used        \* bounds

vars == <<page, appending, stored, outbox, metadata, journal, sync, remote,
          made, used>>

Empty == [f \in Fields |-> None]

(***************************************************************************)
(* reader-preference-sync-state.ts                                         *)
(***************************************************************************)
(* compareRegisters(left, right) > 0 *)
Newer(left, right) ==
    \/ left.revision > right.revision
    \/ /\ left.revision = right.revision
       /\ \/ left.deviceId > right.deviceId
          \/ left.deviceId = right.deviceId /\ left.changeId > right.changeId

preferredRegister(left, right) ==
    IF left = None THEN right
    ELSE IF right = None THEN left
    ELSE IF Newer(right, left) THEN right ELSE left

mergeReaderPreferenceSyncStates(left, right) ==
    [f \in Fields |-> preferredRegister(left[f], right[f])]

readerPreferencesFromSyncState(state) ==
    [f \in Fields |-> IF state[f] = None THEN Default ELSE state[f].value]

(* stateForChange of each change, merged one after the other *)
WithChanges(state, cs) ==
    [f \in Fields |->
       LET rivals == {c.register : c \in {b \in cs : b.field = f}}
                       \cup (IF state[f] = None THEN {} ELSE {state[f]})
       IN  IF rivals = {} THEN None
           ELSE CHOOSE r \in rivals : \A s \in rivals : ~Newer(s, r)]

(***************************************************************************)
Idle == [pc |-> "idle", todo |-> {}, relayed |-> {}, accepted |-> {}, metadata |-> None,
         read |-> None, state |-> Empty, attempt |-> 0]

Init ==
    /\ page = [d \in Devices |-> None]
    /\ appending = [d \in Devices |-> {}]
    /\ stored = Before
    /\ outbox = [d \in Devices |-> {}]
    /\ metadata = [d \in Devices |-> None]
    /\ journal = [d \in Devices |-> {}]
    /\ sync = [d \in Devices |-> Idle]
    /\ remote = [revision |-> 0, state |-> None]
    /\ made = <<>>
    /\ used = [edits |-> 0, faults |-> 0, syncs |-> 0]

(***************************************************************************)
(* The page                                                                *)
(***************************************************************************)
OpenPage(d) ==
    /\ page[d] = None
    /\ page' = [page EXCEPT ![d] = stored[d]]
    /\ UNCHANGED <<appending, stored, outbox, metadata, journal, sync, remote,
                   made, used>>

nextPreferenceRevision(d, f) ==
    LET known == {c.register.revision : c \in {b \in outbox[d] : b.field = f}}
                   \cup (IF metadata[d] = None \/ metadata[d][f] = None THEN {}
                         ELSE {metadata[d][f].revision})
    IN  (CHOOSE n \in known \cup {0} : \A k \in known : k <= n) + 1

(* createChangeId makes an identifier that no register has. *)
Made == {made[i].register.changeId : i \in DOMAIN made}
Known(state) ==
    IF state = None THEN {} ELSE {state[f].changeId : f \in {g \in Fields : state[g] # None}}
Seeded == Known(remote.state) \cup UNION {Known(metadata[d]) \cup Known(sync[d].state) : d \in Devices}

(* persistPreferences up to its commit: the page's preferences change, the *)
(* renderer takes them, and one transaction of the library stores all of   *)
(* them and puts the changed field in the outbox                           *)
(* (commitReaderPreferenceUpdate).  What the page holds meanwhile is read  *)
(* by nobody else, and such calls commit in the order they were made.  A   *)
(* commit of several fields is that many updates, one right after another. *)
Update(d, f, v, id) ==
    /\ page[d] # None /\ page[d][f] # v
    /\ used.edits < MaxEdits /\ used' = [used EXCEPT !.edits = @ + 1]
    /\ id \notin Made \cup Seeded
    /\ LET c == [field |-> f,
                 register |-> [value |-> v, revision |-> nextPreferenceRevision(d, f),
                               deviceId |-> d, changeId |-> id]]
       IN  /\ outbox' = [outbox EXCEPT ![d] = @ \cup {c}]
           /\ appending' = [appending EXCEPT ![d] = @ \cup {[change |-> c, pc |-> "append"]}]
           /\ made' = Append(made, c)
    /\ page' = [page EXCEPT ![d][f] = v]
    /\ stored' = [stored EXCEPT ![d] = page'[d]]
    /\ UNCHANGED <<metadata, journal, sync, remote>>

Fault ==
    /\ used.faults < MaxFaults /\ used.syncs + used.faults < MaxEvents
    /\ used' = [used EXCEPT !.faults = @ + 1]

(* syncJournal.append; a failure leaves the change to the outbox. *)
AppendChange(d, a) ==
    /\ a \in appending[d] /\ a.pc = "append"
    /\ \/ /\ journal' = [journal EXCEPT ![d] = @ \cup {[change |-> a.change, by |-> "page"]}]
          /\ appending' = [appending EXCEPT ![d] = (@ \ {a}) \cup {[a EXCEPT !.pc = "acknowledge"]}]
          /\ UNCHANGED used
       \/ /\ Fault
          /\ appending' = [appending EXCEPT ![d] = @ \ {a}]
          /\ UNCHANGED journal
    /\ UNCHANGED <<page, stored, outbox, metadata, sync, remote, made>>

AcknowledgeChange(d, a) ==
    /\ a \in appending[d] /\ a.pc = "acknowledge"
    /\ outbox' = [outbox EXCEPT ![d] = @ \ {a.change}]
    /\ appending' = [appending EXCEPT ![d] = @ \ {a}]
    /\ UNCHANGED <<page, stored, metadata, journal, sync, remote, made, used>>

(***************************************************************************)
(* ReaderPreferenceSyncService                                             *)
(***************************************************************************)
StartSync(d) ==
    /\ sync[d].pc = "idle"
    /\ used.syncs + used.faults < MaxEvents /\ used' = [used EXCEPT !.syncs = @ + 1]
    /\ sync' = [sync EXCEPT ![d] = [Idle EXCEPT !.pc = "relay", !.todo = outbox[d],
                                      !.relayed = {op.change : op \in journal[d]}]]
    /\ UNCHANGED <<page, appending, stored, outbox, metadata, journal, remote, made>>

\* Mutant: the outbox is cleared before the journal has the change.
RelayUnjournaled(d, c) ==
    /\ sync[d].pc = "relay" /\ c \in sync[d].todo
    /\ sync' = [sync EXCEPT ![d].todo = @ \ {c}]
    /\ outbox' = [outbox EXCEPT ![d] = @ \ {c}]
    /\ UNCHANGED <<page, appending, stored, metadata, journal, remote, made, used>>

(* relayOutbox: append unless the journal had it, then acknowledge. *)
RelayOutbox(d, c) ==
    /\ sync[d].pc = "relay" /\ c \in sync[d].todo
    /\ IF c \in sync[d].relayed
       THEN /\ sync' = [sync EXCEPT ![d].todo = @ \ {c}]
            /\ outbox' = [outbox EXCEPT ![d] = @ \ {c}]
            /\ UNCHANGED journal
       ELSE /\ journal' = [journal EXCEPT ![d] = @ \cup {[change |-> c, by |-> "relay"]}]
            /\ sync' = [sync EXCEPT ![d].relayed = @ \cup {c}]
            /\ UNCHANGED outbox
    /\ UNCHANGED <<page, appending, stored, metadata, remote, made, used>>

ReadPending(d) ==
    /\ sync[d].pc = "relay" /\ sync[d].todo = {}
    /\ sync' = [sync EXCEPT ![d].pc = "read", ![d].accepted = journal[d],
                            ![d].metadata = metadata[d]]
    /\ UNCHANGED <<page, appending, stored, outbox, metadata, journal, remote,
                   made, used>>

(* Registers for what differs from the defaults. *)
seedState(d, id) ==
    [f \in Fields |-> IF stored[d][f] = Default THEN None
                      ELSE [value |-> stored[d][f], revision |-> 1, deviceId |-> d,
                            changeId |-> id]]

Base(d, seen) ==
    IF sync[d].metadata = None THEN seen
    ELSE IF seen # None THEN mergeReaderPreferenceSyncStates(sync[d].metadata, seen)
    ELSE sync[d].metadata

(* The changes are merged into the base; nothing is written when the       *)
(* destination has the result already.                                     *)
Merges(d, base, seen) ==
    LET state == WithChanges(base, {op.change : op \in sync[d].accepted}) IN
    [sync[d] EXCEPT !.pc = IF state = seen.state THEN "verify" ELSE "write",
                    !.read = seen.revision, !.state = state]

(* The remote document is read.  Without one, and without the metadata of  *)
(* an earlier synchronization, the library's own preferences are the base. *)
ReadRemote(d) ==
    /\ sync[d].pc = "read"
    /\ sync' = [sync EXCEPT ![d] =
                  IF Base(d, remote.state) = None
                  THEN [@ EXCEPT !.pc = "seed", !.read = remote.revision]
                  ELSE Merges(d, Base(d, remote.state), remote)]
    /\ UNCHANGED <<page, appending, stored, outbox, metadata, journal, remote,
                   made, used>>

Seed(d, id) ==
    /\ sync[d].pc = "seed" /\ id \notin Made
    /\ sync' = [sync EXCEPT ![d] =
                  Merges(d, seedState(d, id), [revision |-> @.read, state |-> None])]
    /\ UNCHANGED <<page, appending, stored, outbox, metadata, journal, remote,
                   made, used>>

(* A conflict: try again, or give up. *)
Conflict(d) ==
    sync' = [sync EXCEPT ![d] = IF @.attempt >= MaxConflictRetries THEN Idle
                                ELSE [@ EXCEPT !.pc = "read", !.attempt = @ + 1]]

WriteRemote(d) ==
    /\ sync[d].pc = "write"
    /\ IF remote.revision = sync[d].read
       THEN /\ remote' = [revision |-> remote.revision + 1, state |-> sync[d].state]
            /\ sync' = [sync EXCEPT ![d].pc = "verify"]
       ELSE Conflict(d) /\ UNCHANGED remote
    /\ UNCHANGED <<page, appending, stored, outbox, metadata, journal, made, used>>

Verify(d) ==
    /\ sync[d].pc = "verify"
    /\ IF remote.state = sync[d].state THEN sync' = [sync EXCEPT ![d].pc = "save"]
       ELSE Conflict(d)
    /\ UNCHANGED <<page, appending, stored, outbox, metadata, journal, remote,
                   made, used>>

(* saveSynchronizedReaderPreferences: one transaction *)
SaveSynchronized(d) ==
    /\ sync[d].pc = "save"
    /\ stored' = [stored EXCEPT ![d] = readerPreferencesFromSyncState(sync[d].state)]
    /\ metadata' = [metadata EXCEPT ![d] = sync[d].state]
    /\ sync' = [sync EXCEPT ![d].pc = "acknowledge"]
    /\ UNCHANGED <<page, appending, outbox, journal, remote, made, used>>

Acknowledge(d) ==
    /\ sync[d].pc = "acknowledge"
    /\ journal' = [journal EXCEPT ![d] = @ \ sync[d].accepted]
    /\ sync' = [sync EXCEPT ![d] = Idle]
    /\ UNCHANGED <<page, appending, stored, outbox, metadata, remote, made, used>>

(* A call of the journal, the library or the destination fails. *)
Fail(d) ==
    /\ sync[d].pc # "idle"
    /\ Fault
    /\ sync' = [sync EXCEPT ![d] = Idle]
    /\ UNCHANGED <<page, appending, stored, outbox, metadata, journal, remote, made>>

Crash(d) ==
    /\ Fault
    /\ page' = [page EXCEPT ![d] = None]
    /\ appending' = [appending EXCEPT ![d] = {}]
    /\ sync' = [sync EXCEPT ![d] = Idle]
    /\ UNCHANGED <<stored, outbox, metadata, journal, remote, made>>

Next ==
    \E d \in Devices :
      \/ OpenPage(d) \/ StartSync(d) \/ ReadPending(d) \/ ReadRemote(d) \/ WriteRemote(d)
      \/ Verify(d)
      \/ SaveSynchronized(d) \/ Acknowledge(d) \/ Fail(d) \/ Crash(d)
      \/ \E id \in ChangeIds :
           \/ Seed(d, id)
           \/ \E f \in Fields, v \in Values : Update(d, f, v, id)
      \/ \E a \in appending[d] : AppendChange(d, a) \/ AcknowledgeChange(d, a)
      \/ \E c \in sync[d].todo : RelayOutbox(d, c)

Spec == Init /\ [][Next]_vars

(***************************************************************************)
(* Properties                                                              *)
(***************************************************************************)
AtLeast(r, s) == s = None \/ (r # None /\ ~Newer(s, r))

(* The change is still waiting on its device, or the destination has it or *)
(* a newer one: neither a crash between the library, the journal and the   *)
(* destination nor a conflict loses a committed change (outbox,            *)
(* relayOutbox, the verification before acknowledge).                      *)
NoChangeLost ==
    \A i \in DOMAIN made :
      LET c == made[i]
          d == c.register.deviceId
      IN  \/ c \in outbox[d]
          \/ \E op \in journal[d] : op.change = c
          \/ remote.state # None /\ AtLeast(remote.state[c.field], c.register)

RemoteGrowsStep ==
    remote.state # None =>
      remote'.state # None /\ \A f \in Fields : AtLeast(remote'.state[f], remote.state[f])

(* What the destination holds only ever gets newer, whichever devices      *)
(* write at the same time (expectedRevision in the write, and the merge    *)
(* of the two states).                                                     *)
RemoteGrows == [][RemoteGrowsStep]_vars

(* A device with nothing left to send has the preferences of the           *)
(* destination it last met (saveSynchronizedReaderPreferences), although   *)
(* an open page stores fields it read long ago.                            *)
SettledAgrees ==
    \A d \in Devices :
      outbox[d] = {} /\ journal[d] = {} /\ metadata[d] # None =>
        stored[d] = readerPreferencesFromSyncState(metadata[d])

(* When one device alone has made changes and nothing is left to send, its *)
(* library holds the last value chosen for each field: the plan calls      *)
(* format preferences durable.  nextPreferenceRevision does not look at    *)
(* changes that wait in the journal.                                       *)
LatestEditKept ==
    \A d \in Devices :
      /\ outbox[d] = {} /\ journal[d] = {} /\ metadata[d] # None
      /\ \A i \in DOMAIN made : made[i].register.deviceId = d
      => \A i \in DOMAIN made :
           (\A j \in (i + 1)..Len(made) : made[j].field # made[i].field) =>
             stored[d][made[i].field] = made[i].register.value

\* No change of a preference is lost between library, outbox, journal and
\* remote document, and devices that have synchronized agree.
PreferencesKept ==
    /\ NoChangeLost
    /\ SettledAgrees
=================================================================================
