--------------------------- MODULE LogicalBookSync ---------------------------
(***************************************************************************)
(* LogicalBookSyncService on several devices: the canonical state document *)
(* of the destination, the legacy change documents and publication objects *)
(* beside it, and on every device the library, the user's mutation in      *)
(* progress and the locals of a synchronization run.                       *)
(*                                                                         *)
(* A run starts by reading the journal, the document and the legacy        *)
(* changes.  The reads are one step: what another device writes between    *)
(* them is a conflict of the write, which names the revision read.  The    *)
(* revision of the document is its content.                                *)
(*                                                                         *)
(* pending is the union of journal and outbox (LogicalBookOutboxJournal).  *)
(* Manifests, deletion tombstones and the orphan cleanup that ends a run   *)
(* are left to the modules of the backups.                                 *)
(***************************************************************************)
EXTENDS LogicalLibrary

CONSTANTS
    Devices, Variants,
    DeviceRank,      \* where the identifier of a device sorts
    BootstrapRank,   \* where 'bootstrap' sorts among the device identifiers
    DigestRank,      \* where the digest of a book sorts among them
    RecoveryRank,    \* where 'backup-recovery' sorts
    Operations,      \* Operations[d]: the mutations made on device d
    MaxChanges,      \* bound on the changes made, for every beginning
    WriteAttempts,   \* LOGICAL_STATE_WRITE_ATTEMPTS
    Beginnings       \* the libraries of the devices that take part, the change
                     \* documents an older version left in the destination, and
                     \* the bounds on changes and on failed or interrupted runs

ASSUME LogicalBookSyncAssumption ==
    /\ DeviceRank \in [Devices -> Nat]
    /\ BootstrapRank \in Nat /\ DigestRank \in Nat /\ RecoveryRank \in Nat
    /\ MaxChanges \in Nat /\ WriteAttempts \in Nat \ {0}

VARIABLES
    remote,   \* doc (at most one document), legacy, objects
    device,   \* device[d]: lib, excluded, pending, and the history wanted: the
              \* editions the user imported or added and has not deleted since
    edit,     \* edit[d]: the mutation in progress, at most one
    run,      \* run[d]: the locals of run() and writeMergedState()
    issued,   \* the change identifiers made so far
    budget,   \* the changes and failures left
    included, \* history: the changes whose merge the document descends from
    acked     \* history: the changes acknowledged, and the legacy ones retired

vars == <<remote, device, edit, run, issued, budget, included, acked>>

Phases == {"idle", "reconcile", "write", "verify", "reread", "check", "replace",
           "backups", "legacy", "acknowledge"}

IdleRun == [phase |-> "idle", ops |-> {}, changes |-> {}, listed |-> {},
            base |-> {}, seed |-> EmptyState, state |-> EmptyState, left |-> {},
            attempt |-> 0, includes |-> {}]

EmptyLibrary == [records |-> {}, books |-> <<>>, preferences |-> <<>>,
                 reconciliations |-> <<>>]

Present == DOMAIN device

Init ==
    /\ \E first \in Beginnings : LET present == DOMAIN first.libs IN
          /\ remote = [doc |-> {}, legacy |-> first.legacy,
                       objects |-> UNION {c.upserts : c \in first.legacy}]
          /\ device = [d \in present |->
                         [lib |-> first.libs[d], excluded |-> {}, pending |-> {},
                          wanted |-> {}]]
          /\ edit = [d \in present |-> {}]
          /\ run = [d \in present |-> IdleRun]
          /\ budget = [changes |-> first.changes, failures |-> first.failures]
    /\ issued = {} /\ included = {} /\ acked = {}

-----------------------------------------------------------------------------
(* Identifiers. *)

\* createMutationIdentity: 'change:' device ':' uuid.  The uuid is random, so a
\* later change may sort before an earlier one.
NewIds(d) == {<<DeviceRank[d], u>> : u \in 1..MaxChanges} \ issued

\* 'change:bootstrap:' device ':' uuid, the change of an import.
NewImportIds(d) ==
    {<<BootstrapRank, DeviceRank[d], u>> : u \in 1..MaxChanges} \ issued

-----------------------------------------------------------------------------
(* The user.  A mutation commits its change with the library. *)

Allowed(d, op) == op \in Operations[d] /\ Cardinality(issued) < budget.changes

Commit(d, outcome) ==
    device' = [device EXCEPT ![d].lib = outcome.lib,
                             ![d].pending = @ \cup {outcome.change},
                             ![d].excluded = (@ \cup outcome.change.deletes)
                                               \ outcome.change.upserts,
                             ![d].wanted = (@ \cup outcome.change.upserts)
                                             \ outcome.change.deletes]

Local(d, id) ==
    /\ issued' = issued \cup {id}
    /\ UNCHANGED <<remote, run, budget, included, acked>>

AddFormat(d, b, v) ==
    /\ Allowed(d, "add") /\ edit[d] = {} /\ CanAdd(device[d].lib, b, v)
    /\ \E id \in NewIds(d) : Commit(d, Added(device[d].lib, b, v, id)) /\ Local(d, id)
    /\ UNCHANGED edit

Associate(d, b, source) ==
    /\ Allowed(d, "associate") /\ edit[d] = {} /\ CanAssociate(device[d].lib, b, source)
    /\ \E id \in NewIds(d) :
          Commit(d, Associated(device[d].lib, b, source, id)) /\ Local(d, id)
    /\ UNCHANGED edit

\* The reads of a mutation that compares nothing when it commits.
Begin(d, e) ==
    /\ Allowed(d, e.op) /\ edit[d] = {}
    /\ \E id \in NewIds(d) :
          /\ edit' = [edit EXCEPT ![d] = {[id |-> id, seen |-> device[d].lib] @@ e}]
          /\ Local(d, id)

BeginDetach(d, b, v) ==
    /\ CanDetach(device[d].lib, b, v)
    /\ Begin(d, [op |-> "detach", book |-> b, variants |-> {v}])
    /\ UNCHANGED device

\* The service excludes the editions before the repository deletes them.
BeginDelete(d, b, vs) ==
    /\ vs # {} /\ vs \subseteq device[d].lib.books[b]
    /\ Begin(d, [op |-> "delete", book |-> b, variants |-> vs])
    /\ device' = [device EXCEPT ![d].excluded = @ \cup vs]

BeginPrefer(d, b, format) ==
    /\ CanPrefer(device[d].lib, b, format)
    /\ Begin(d, [op |-> "prefer", book |-> b, format |-> format])
    /\ UNCHANGED device

Decisions(r, k) ==
    {[kind |-> "keep-accepted"]}
      \cup [kind: {"accept-rejected"}, book: DOMAIN r.rejected]
      \cup [kind: {"make-standalone"}, variant: k.variants]

BeginReconcile(d, k) ==
    LET r == device[d].lib.reconciliations[k] IN
    /\ r.status = "open"
    /\ \E decision \in Decisions(r, k) :
          /\ decision.kind = "make-standalone"
               => decision.variant \in device[d].lib.records
          /\ Begin(d, [op |-> "reconcile", conflict |-> k, decision |-> decision])
    /\ UNCHANGED device

CommitEdit(d) ==
    \E e \in {x \in edit[d] : x.op # "import"} :
        /\ \/ \E outcome \in Committed(device[d].lib, e) : Commit(d, outcome)
           \/ Committed(device[d].lib, e) = {} /\ UNCHANGED device
        /\ edit' = [edit EXCEPT ![d] = {}]
        /\ UNCHANGED <<remote, run, issued, budget, included, acked>>

\* importPublications commits the record first; the publication is validated
\* before its change is journalled.
BeginImport(d, v) ==
    /\ Allowed(d, "import") /\ edit[d] = {} /\ v \notin Visible(device[d].lib)
    /\ \E id \in NewImportIds(d) :
          /\ edit' = [edit EXCEPT ![d] = {[op |-> "import", variant |-> v, id |-> id]}]
          /\ Local(d, id)
    /\ device' = [device EXCEPT ![d].lib = Imported(@, v)]

\* Without an owner there is no change to journal.
FinishImport(d) ==
    \E e \in {x \in edit[d] : x.op = "import"} :
        LET owners == Owners(device[d].lib.books, e.variant)
            owner == {o \in owners : \A p \in owners : o = p \/ LogicalIdBefore(o, p)}
            change(b) == [Change(e.id, {}, b :> device[d].lib.books[b], {})
                            EXCEPT !.upserts = {e.variant}]
        IN /\ device' = [device EXCEPT
                ![d].excluded = @ \ {e.variant},
                ![d].pending = @ \cup {change(b) : b \in owner},
                ![d].wanted = @ \cup {e.variant : b \in owner}]
           /\ edit' = [edit EXCEPT ![d] = {}]
           /\ UNCHANGED <<remote, run, issued, budget, included, acked>>

-----------------------------------------------------------------------------
(* The run. *)

Become(d, state) == run' = [run EXCEPT ![d] = state]
Goto(d, phase) == Become(d, [run[d] EXCEPT !.phase = phase])
Finish(d) == Become(d, IdleRun)
At(d, phase) == run[d].phase = phase

Latest(ids) == CHOOSE id \in ids : \A other \in ids : other = id \/ SortsBefore(other, id)

\* localStateSnapshot: the library as a document; the clock of a book is
\* 'change:bootstrap:' and its own digest.
Snapshot(lib) ==
    LET clock(b) == <<BootstrapRank, DigestRank, b[1][2]>> \o b[2]
        owner(v) == CHOOSE b \in Owners(lib.books, v) :
                       \A o \in Owners(lib.books, v) : o = b \/ LogicalIdBefore(b, o)
    IN [EmptyState EXCEPT
          !.books = [b \in DOMAIN lib.books |->
                       [variants |-> lib.books[b], clock |-> clock(b)]],
          !.variants = [v \in Visible(lib) |-> clock(owner(v))],
          !.preferences = [b \in DOMAIN lib.preferences |->
                             [format |-> lib.preferences[b].format,
                              clock |-> Latest(lib.preferences[b].heads)]],
          !.reconciliations = [k \in DOMAIN lib.reconciliations |->
                                 IF lib.reconciliations[k].status = "resolved"
                                 THEN lib.reconciliations[k]
                                 ELSE [lib.reconciliations[k] EXCEPT
                                         !.clock = Latest(k.changes)]]]

\* Entries an older version promoted from unowned backups, untouched since.
Retracted(s) ==
    LET recovery(v) == <<RecoveryRank, v[2]>>
        ids == {v \in DOMAIN s.variants : s.variants[v] = recovery(v)}
        gone == {b \in DOMAIN s.books :
                   /\ s.books[b].variants \subseteq ids
                   /\ \E v \in s.books[b].variants : s.books[b].clock = recovery(v)}
        left == [s EXCEPT !.books = Without(@, gone)]
    IN [left EXCEPT !.variants = Without(@, ids \ ActiveVariants(left))]

\* An attempt of writeMergedState: the merge is made from the document read.
Attempt(d, r, base) ==
    LET from == IF base = {} THEN r.seed ELSE CHOOSE s \in base : TRUE
        state == Retracted(MergeChanges(from, r.changes))
    IN Become(d, [r EXCEPT !.phase = "reconcile", !.base = base, !.state = state,
                           !.left = DOMAIN state.variants, !.includes = included])

\* A destination with no document and no legacy change is seeded from the
\* library; a library that does not serialize fails the run.
Start(d) ==
    LET ops == {c \in device[d].pending : IsSynchronizedChange(c)}
        lib == device[d].lib
        seeding == remote.doc = {} /\ remote.legacy = {}
        seed == IF seeding THEN Snapshot(lib) ELSE EmptyState
        r == [IdleRun EXCEPT !.ops = ops, !.changes = ops \cup remote.legacy,
                             !.listed = remote.legacy, !.seed = seed]
    IN /\ At(d, "idle")
       /\ seeding => Visible(lib) \subseteq lib.records /\ IsValidState(seed)
       /\ Attempt(d, r, remote.doc)
       /\ UNCHANGED <<remote, device, acked, included>>

\* reconcileActiveVariants, one variant at a time in the order of the document.
Reconcile(d) ==
    LET v == CHOOSE x \in run[d].left : \A y \in run[d].left : x[2] <= y[2]
        next == [run[d] EXCEPT !.left = @ \ {v}]
        here == v \in device[d].lib.records
        there == v \in remote.objects
    IN /\ At(d, "reconcile") /\ run[d].left # {}
       /\ \/ /\ v \in device[d].excluded \/ (here /\ there)
             /\ Become(d, next) /\ UNCHANGED <<remote, device>>
          \/ /\ v \notin device[d].excluded /\ ~here /\ there
             /\ device' = [device EXCEPT ![d].lib = Stored(@, v)]
             /\ Become(d, next) /\ UNCHANGED remote
          \/ /\ v \notin device[d].excluded /\ here /\ ~there
             /\ remote' = [remote EXCEPT !.objects = @ \cup {v}]
             /\ Become(d, next) /\ UNCHANGED device
          \/ /\ v \notin device[d].excluded /\ ~here /\ ~there
             /\ Finish(d) /\ UNCHANGED <<remote, device>>
       /\ UNCHANGED <<acked, included>>

\* serializeLogicalBookState refuses an invalid document, which ends the run.
Serialize(d) ==
    /\ At(d, "reconcile") /\ run[d].left = {}
    /\ IF ~IsValidState(run[d].state) THEN Finish(d)
       ELSE Goto(d, IF run[d].base = {run[d].state} THEN "verify" ELSE "write")
    /\ UNCHANGED <<remote, device, acked, included>>

WriteConflict(d) ==
    IF run[d].attempt + 1 >= WriteAttempts THEN Finish(d)
    ELSE Become(d, [run[d] EXCEPT !.phase = "reread", !.attempt = @ + 1])

\* History: a document made from the one it replaces includes what that did.
Overwrites(d) ==
    included' = (IF remote.doc = run[d].base THEN included ELSE run[d].includes)
                  \cup run[d].changes

\* Mutant: the write does not name the revision read.
WriteUnconditionally(d) ==
    /\ At(d, "write")
    /\ remote' = [remote EXCEPT !.doc = {run[d].state}]
    /\ Overwrites(d)
    /\ Goto(d, "verify")
    /\ UNCHANGED <<device, acked>>

Write(d) ==
    /\ At(d, "write")
    /\ IF remote.doc = run[d].base
       THEN /\ remote' = [remote EXCEPT !.doc = {run[d].state}]
            /\ Overwrites(d)
            /\ Goto(d, "verify")
       ELSE WriteConflict(d) /\ UNCHANGED <<remote, included>>
    /\ UNCHANGED <<device, acked>>

\* The document is read back before anything local is replaced.  A merge that
\* changed nothing wrote nothing.
Verify(d) ==
    /\ At(d, "verify")
    /\ IF remote.doc = {run[d].state}
       THEN Goto(d, "check") /\ included' = included \cup run[d].changes
       ELSE WriteConflict(d) /\ UNCHANGED included
    /\ UNCHANGED <<remote, device, acked>>

Reread(d) ==
    /\ At(d, "reread")
    /\ Attempt(d, run[d], remote.doc)
    /\ UNCHANGED <<remote, device, acked, included>>

\* replaceLogicalBookState reads the records, then commits.
Check(d) ==
    /\ At(d, "check")
    /\ IF CanReplace(device[d].lib, View(run[d].state)) THEN Goto(d, "replace")
                                                        ELSE Finish(d)
    /\ UNCHANGED <<remote, device, acked, included>>

Replace(d) ==
    /\ At(d, "replace")
    /\ device' = [device EXCEPT ![d].lib = Replaced(@, View(run[d].state))]
    /\ Goto(d, "backups")
    /\ UNCHANGED <<remote, acked, included>>

\* deleteBackups excludes every removed variant; an object goes when a manifest
\* or a deletion tombstone names it.
DeleteBackups(d) ==
    LET removed == DOMAIN run[d].state.removedVariants IN
    /\ At(d, "backups")
    /\ device' = [device EXCEPT ![d].excluded = @ \cup removed]
    /\ \E gone \in SUBSET (removed \cap remote.objects) :
          remote' = [remote EXCEPT !.objects = @ \ gone]
    /\ Goto(d, "legacy")
    /\ UNCHANGED <<acked, included>>

DeleteLegacy(d) ==
    /\ At(d, "legacy")
    /\ remote' = [remote EXCEPT !.legacy = @ \ run[d].listed]
    /\ acked' = acked \cup run[d].listed
    /\ Goto(d, "acknowledge")
    /\ UNCHANGED <<device, included>>

Acknowledge(d) ==
    /\ At(d, "acknowledge")
    /\ device' = [device EXCEPT ![d].pending = @ \ run[d].ops]
    /\ acked' = acked \cup run[d].ops
    /\ Finish(d)
    /\ UNCHANGED <<remote, included>>

\* A request fails, the run is cancelled or the application closes.
Fail(d) ==
    /\ ~At(d, "idle") /\ budget.failures > 0
    /\ budget' = [budget EXCEPT !.failures = @ - 1]
    /\ Finish(d)
    /\ UNCHANGED <<remote, device, edit, issued, included, acked>>

-----------------------------------------------------------------------------
Synchronize(d) ==
    /\ \/ Start(d) \/ Reconcile(d) \/ Serialize(d) \/ Write(d) \/ Verify(d)
       \/ Reread(d) \/ Check(d) \/ Replace(d) \/ DeleteBackups(d)
       \/ DeleteLegacy(d) \/ Acknowledge(d)
    /\ UNCHANGED <<edit, issued, budget>>

UserActs(d) ==
    LET lib == device[d].lib
        books == DOMAIN lib.books IN
    \/ \E v \in Variants : BeginImport(d, v)
    \/ \E b \in books, v \in Variants : AddFormat(d, b, v)
    \/ \E b, source \in books : Associate(d, b, source)
    \/ \E b \in books : \E v \in lib.books[b] : BeginDetach(d, b, v)
    \/ \E b \in books : \E vs \in {lib.books[b]} \cup {{v} : v \in lib.books[b]} :
          BeginDelete(d, b, vs)
    \/ \E b \in books, format \in FormatsOf(Variants) : BeginPrefer(d, b, format)
    \/ \E k \in DOMAIN lib.reconciliations : BeginReconcile(d, k)

FinishesEdit(d) == CommitEdit(d) \/ FinishImport(d)

Next == \E d \in Present : UserActs(d) \/ FinishesEdit(d) \/ Synchronize(d) \/ Fail(d)

Spec == Init /\ [][Next]_vars

\* The scheduler keeps starting runs, a started run keeps going and a mutation
\* that was begun is committed.
FairSpec ==
    Spec /\ \A d \in Devices : WF_vars(d \in Present /\ Synchronize(d))
                             /\ WF_vars(d \in Present /\ FinishesEdit(d))

-----------------------------------------------------------------------------
TypeOK ==
    /\ Cardinality(remote.doc) <= 1 /\ remote.objects \subseteq Variants
    /\ \A d \in Present :
          /\ device[d].lib.records \subseteq Variants
          /\ device[d].excluded \subseteq Variants
          /\ run[d].phase \in Phases /\ run[d].attempt \in 0..(WriteAttempts - 1)
          /\ Cardinality(edit[d]) <= 1
    /\ Cardinality(issued) <= budget.changes /\ budget.failures \in Nat

\* A change leaves a journal, and a legacy change leaves the destination, only
\* when the canonical document descends from its merge, whatever other devices
\* wrote meanwhile and wherever runs stopped (writeMergedState, acknowledge).
AcknowledgedIsMerged == acked \subseteq included

\* No library of any device gives a variant two owners.
OneOwner ==
    \A d \in Present : \A b1, b2 \in DOMAIN device[d].lib.books :
        b1 # b2 => device[d].lib.books[b1] \cap device[d].lib.books[b2] = {}

\* The merge itself, not only the validation behind it, never gives a variant to
\* two books (applyChange, membershipConflicts).
MergeKeepsOneOwner ==
    \A d \in Present : LET books == run[d].state.books IN
        \A b1, b2 \in DOMAIN books :
            b1 # b2 => books[b1].variants \cap books[b2].variants = {}

\* A deletion that reached the document is undone only on purpose: a merge takes
\* the tombstone of a variant away only for a change that restores the variant
\* and descends from its removal.  A stale, retried or concurrent change never
\* does (tombstoneClockWins).
ReturnsOnlyKnowingly ==
    [][\A s \in remote.doc, t \in remote'.doc :
          \A v \in DOMAIN s.removedVariants \ DOMAIN t.removedVariants :
             \E c \in included' :
                /\ v \in c.upserts
                /\ IsAncestor(s.removedVariants[v], c.id, included')]_vars

\* An edition that the only device of the destination imported again after
\* deleting it is part of the document once its change was acknowledged: "A
\* successful import or logical variant creation MUST include the exact edition
\* in synchronization again".
ReimportIsSynchronized ==
    \A d \in Present : \A s \in remote.doc :
        /\ Present = {d} /\ At(d, "idle")
        /\ edit[d] = {} /\ device[d].pending = {}
        => device[d].wanted \subseteq DOMAIN s.variants

\* An edition leaves the document only when some change deletes it: a detach, an
\* association or a reconciliation preserves every exact variant.
OnlyDeletionRemoves ==
    [][\A s \in remote.doc, t \in remote'.doc :
          \A v \in DOMAIN s.variants \ DOMAIN t.variants :
             \E c \in included' : v \in c.deletes]_vars

\* A retried change never takes back a format preference that was chosen with
\* knowledge of it.
PreferenceNeverRegresses ==
    [][\A s \in remote.doc, t \in remote'.doc :
          \A b \in DOMAIN s.preferences \cap DOMAIN t.preferences :
             ~\E d \in Present : \E c \in device[d].pending \cup acked :
                /\ c.id = s.preferences[b].clock
                /\ t.preferences[b].clock \in c.parents]_vars

\* When the users stop and runs go on, every journal empties and every library
\* shows the document.
Converges ==
    <>[](\A d \in Present :
           /\ \A c \in device[d].pending : ~IsSynchronizedChange(c)
           /\ \A s \in remote.doc : device[d].lib.books = View(s).books)

=============================================================================
