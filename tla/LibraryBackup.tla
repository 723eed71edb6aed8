----------------------------- MODULE LibraryBackup -----------------------------
(***************************************************************************)
(* Export and restore of a whole library: LibraryBackupService and         *)
(* restoreLibraryBackupAtomically of BrowserLibraryRepository              *)
(* (libs/library/data-access).                                             *)
(*                                                                         *)
(* An export reads the library in several transactions and then the bytes  *)
(* of every book; a restore validates the archive, reads the library in    *)
(* several transactions and publishes the outcome in one, which compares   *)
(* the logical books with those it read first.  Meanwhile books come and   *)
(* go, a synchronisation replaces the logical books, and the user reads.   *)
(*                                                                         *)
(* The library is that of LogicalLibrary, with the logical books that have *)
(* a cover, the reading progress of a variant, and one mark (bookmark or   *)
(* annotation, perhaps deleted) per variant.                               *)
(***************************************************************************)
EXTENDS LogicalLibrary

CONSTANTS
    Variants,
    Starts,             \* libraries the program can start with
    Views,              \* logical books that a synchronisation brings
    MaxBooks,           \* MAX_BOOKS
    MaxArchiveEntries,  \* MAX_ARCHIVE_ENTRIES
    MaxEvents,          \* what happens beside export and restore
    None

VARIABLES
    lib, covers, progress, marks,
    export,     \* exportArchive in progress
    archive,    \* the archive written, or None
    restore,    \* importArchive in progress
    source,     \* history: what the library held when the export began
    clock, events

vars == <<lib, covers, progress, marks, export, archive, restore, source, clock, events>>

Library == [lib |-> lib, covers |-> covers, progress |-> progress, marks |-> marks,
            events |-> events]
OnlyFor(f, keys) == [k \in DOMAIN f \cap keys |-> f[k]]
EmptyLibrary == [records |-> {}, books |-> <<>>, preferences |-> <<>>, reconciliations |-> <<>>]

NoExport == [pc |-> "idle"]
NoRestore == [pc |-> "idle"]

Init ==
    /\ lib \in Starts
    /\ covers \in {{}, DOMAIN lib.books}
    /\ progress = <<>> /\ marks = <<>>
    /\ export = NoExport /\ archive = None /\ restore = NoRestore /\ source = None
    /\ clock = 0 /\ events = 0

(***************************************************************************)
(* What else happens to the library                                        *)
(***************************************************************************)
Event ==
    /\ events < MaxEvents /\ events' = events + 1
    /\ UNCHANGED <<export, archive, restore, source>>

Import(v) ==
    /\ Event /\ v \notin lib.records
    /\ lib' = Imported(lib, v)
    /\ UNCHANGED <<covers, progress, marks, clock>>

(* deleteVariant takes the reading state of the variant with it. *)
Delete(b, v) ==
    /\ Event /\ b \in DOMAIN lib.books /\ v \in lib.books[b]
    /\ \E o \in Deleted(lib, [seen |-> lib, book |-> b, variants |-> {v}, id |-> <<9>>]) :
         lib' = o.lib
    /\ covers' = covers \cap DOMAIN lib'.books
    /\ progress' = Without(progress, {v}) /\ marks' = Without(marks, {v})
    /\ UNCHANGED clock

Associate(b, s) ==
    /\ Event /\ {b, s} \subseteq DOMAIN lib.books /\ CanAssociate(lib, b, s)
    /\ lib' = Associated(lib, b, s, <<9>>).lib
    /\ covers' = covers \ {s}
    /\ UNCHANGED <<progress, marks, clock>>

SyncReplaces(view) ==
    /\ Event /\ CanReplace(lib, view)
    /\ lib' = Replaced(lib, view)
    /\ UNCHANGED <<covers, progress, marks, clock>>

(* saveProgress; the furthest place never goes back. *)
Read(v, far) ==
    /\ Event /\ v \in lib.records
    /\ \A p \in Lookup(progress, v) : p.far <= far
    /\ progress' = (v :> [at |-> clock + 1, far |-> far]) @@ progress
    /\ clock' = clock + 1
    /\ UNCHANGED <<lib, covers, marks>>

(* saveBookmark, saveAnnotation: a mark is made or deleted. *)
Mark(v) ==
    /\ Event /\ v \in lib.records
    /\ marks' = (v :> [at |-> clock + 1,
                       deleted |-> v \in DOMAIN marks /\ ~marks[v].deleted]) @@ marks
    /\ clock' = clock + 1
    /\ UNCHANGED <<lib, covers, progress>>

(* The archive is taken to a device without a library. *)
NewDevice ==
    /\ Event /\ archive # None /\ restore = NoRestore /\ lib # EmptyLibrary
    /\ lib' = EmptyLibrary /\ covers' = {} /\ progress' = <<>> /\ marks' = <<>>
    /\ UNCHANGED clock

(***************************************************************************)
(* exportArchive                                                           *)
(***************************************************************************)
Unread == <<lib, covers, progress, marks, restore, clock, events>>

(* prepareBackup: listBooks and getLogicalLibrarySnapshot *)
StartExport ==
    /\ export.pc = "idle" /\ archive = None
    /\ Cardinality(lib.records) <= MaxBooks
    /\ export' = [pc |-> "progress", lib |-> lib]
    /\ source' = Library
    /\ UNCHANGED <<Unread, archive>>

ListProgress ==
    /\ export.pc = "progress"
    /\ export' = [pc |-> "marks", lib |-> export.lib,
                  progress |-> OnlyFor(progress, export.lib.records)]
    /\ UNCHANGED <<Unread, archive, source>>

(* listBookmarks and listAnnotations, deleted ones included *)
ListMarks ==
    /\ export.pc = "marks"
    /\ export' = [pc |-> "covers", lib |-> export.lib, progress |-> export.progress,
                  marks |-> OnlyFor(marks, export.lib.records)]
    /\ UNCHANGED <<Unread, archive, source>>

ListCovers ==
    /\ export.pc = "covers"
    /\ export' = [pc |-> "entries", lib |-> export.lib, progress |-> export.progress,
                  marks |-> export.marks, covers |-> covers \cap DOMAIN export.lib.books]
    /\ UNCHANGED <<Unread, archive, source>>

(* addArchiveEntries: every book must still have its bytes. *)
AddArchiveEntries ==
    /\ export.pc = "entries"
    /\ archive' = IF export.lib.records \subseteq lib.records
                  THEN [lib |-> export.lib, progress |-> export.progress,
                        marks |-> export.marks, covers |-> export.covers]
                  ELSE None
    /\ export' = NoExport
    /\ UNCHANGED <<Unread, source>>

(***************************************************************************)
(* importArchive                                                           *)
(***************************************************************************)
(* isConsistentBackupReconciliation *)
ConsistentReconciliation(a, k, r) ==
    /\ k.variants \subseteq a.lib.records
    /\ \A b \in DOMAIN r.accepted :
         /\ b \in DOMAIN a.lib.books /\ r.accepted[b] \subseteq a.lib.books[b]
         /\ b \in DOMAIN r.rejected => r.accepted[b] \cap r.rejected[b] = {}

(* One entry for the manifest, one per book and one per cover. *)
validateEntryTable(a) ==
    IF 1 + Cardinality(a.lib.records) + Cardinality(a.covers) > MaxArchiveEntries
    THEN {"entries"} ELSE {}

parseManifest(a) ==
    (IF \/ ~(Visible(a.lib) \subseteq a.lib.records)
        \/ \E b1, b2 \in DOMAIN a.lib.books :
             b1 # b2 /\ a.lib.books[b1] \cap a.lib.books[b2] # {}
     THEN {"membership"} ELSE {})
    \cup
    (IF ~(a.lib.records \subseteq Visible(a.lib)) THEN {"unowned"} ELSE {})
    \cup
    (IF \E b \in DOMAIN a.lib.preferences :
          \/ b \notin DOMAIN a.lib.books
          \/ a.lib.preferences[b].format \notin FormatsOf(a.lib.books[b])
     THEN {"preference"} ELSE {})
    \cup
    (IF \E k \in DOMAIN a.lib.reconciliations :
          ~ConsistentReconciliation(a, k, a.lib.reconciliations[k])
     THEN {"reconciliation"} ELSE {})
    \cup
    (IF ~(DOMAIN a.progress \cup DOMAIN a.marks \subseteq a.lib.records)
        \/ ~(a.covers \subseteq DOMAIN a.lib.books)
     THEN {"state"} ELSE {})

(* Why validateArchive refuses the archive. *)
Refusals(a) == validateEntryTable(a) \cup parseManifest(a)

\* Mutant: only an occupied format is a conflict.
OccupiedFormats(archived, current) ==
    {<<b, v>> \in UNION {{b} \X archived[b] : b \in DOMAIN archived} :
       \E w \in UNION Lookup(current, b) : w # v /\ Format(w) = Format(v)}

collectRestoreConflicts(archived, current) ==
    {<<b, v>> \in UNION {{b} \X archived[b] : b \in DOMAIN archived} :
       \/ Owners(current, v) \ {b} # {}
       \/ \E w \in UNION Lookup(current, b) : w # v /\ Format(w) = Format(v)}

(* validateArchive, then listBooks, getLogicalLibrarySnapshot and          *)
(* collectRestoreConflicts                                                 *)
StartRestore ==
    /\ restore.pc = "idle" /\ archive # None /\ Refusals(archive) = {}
    /\ collectRestoreConflicts(archive.lib.books, lib.books) = {}
    /\ restore' = [pc |-> "progress", lib |-> lib]
    /\ UNCHANGED <<lib, covers, progress, marks, export, archive, source, clock, events>>

(* The newer record, with the furthest place of the two. *)
preferredProgress(current, imported) ==
    [at |-> IF current.at >= imported.at THEN current.at ELSE imported.at,
     far |-> IF current.far >= imported.far THEN current.far ELSE imported.far]

SelectedProgress(v) ==
    IF v \in DOMAIN progress THEN preferredProgress(progress[v], archive.progress[v])
    ELSE archive.progress[v]

(* importArchiveAtomically: getProgress; what would not change is left out. *)
SelectProgress ==
    /\ restore.pc = "progress"
    /\ restore' = [pc |-> "marks", lib |-> restore.lib, seen |-> progress,
                   progress |-> [v \in {w \in DOMAIN archive.progress :
                                          Lookup(progress, w) # {SelectedProgress(w)}} |->
                                   SelectedProgress(v)]]
    /\ UNCHANGED <<lib, covers, progress, marks, export, archive, source, clock, events>>

(* getBookmark and preferredBookmark, getAnnotation and preferredAnnotation *)
SelectMarks ==
    /\ restore.pc = "marks"
    /\ restore' = [pc |-> "commit", lib |-> restore.lib, seen |-> restore.seen,
                   progress |-> restore.progress, seenMarks |-> marks, covers |-> covers,
                   marks |-> OnlyFor(archive.marks,
                               {v \in DOMAIN archive.marks :
                                  \A k \in Lookup(marks, v) : k.at < archive.marks[v].at})]
    /\ UNCHANGED <<lib, covers, progress, marks, export, archive, source, clock, events>>

mergeLogicalBooks(current, archived) ==
    [b \in DOMAIN archived |-> archived[b] \cup UNION Lookup(current, b)] @@ current

(* winningChangeId: the last of the heads *)
Winning(pref) == CHOOSE h \in pref.heads : \A k \in pref.heads : k = h \/ SortsBefore(k, h)

mergeLogicalPreferences(current, archived) ==
    LET merged(e, i) ==
          [format |-> IF SortsBefore(Winning(i), Winning(e)) THEN e.format ELSE i.format,
           heads |-> e.heads \cup i.heads]
    IN  [b \in DOMAIN archived |->
           IF b \in DOMAIN current THEN merged(current[b], archived[b]) ELSE archived[b]]
        @@ current

(* A resolved reconciliation stays resolved. *)
mergeReconciliations(current, archived) ==
    LET takes(k) ==
          \A c \in Lookup(current, k) :
            \/ c.status = "open" /\ archived[k].status = "resolved"
            \/ c.status = archived[k].status /\ SortsBefore(c.clock, archived[k].clock)
    IN  [k \in {j \in DOMAIN archived : takes(j)} |-> archived[k]] @@ current

(* restoreLibraryBackupAtomically: one transaction, refused when the       *)
(* logical books are not those that were read.                             *)
CommitRestore ==
    /\ restore.pc = "commit"
    /\ restore' = NoRestore
    /\ IF [lib EXCEPT !.records = {}] # [restore.lib EXCEPT !.records = {}]
       THEN UNCHANGED <<lib, covers, progress, marks>>
       ELSE /\ lib' = [records |-> lib.records \cup archive.lib.records,
                       books |-> mergeLogicalBooks(restore.lib.books, archive.lib.books),
                       preferences |-> mergeLogicalPreferences(restore.lib.preferences,
                                                               archive.lib.preferences),
                       reconciliations |-> mergeReconciliations(restore.lib.reconciliations,
                                                                archive.lib.reconciliations)]
            /\ covers' = restore.covers \cup archive.covers
            /\ progress' = restore.progress @@ progress
            /\ marks' = restore.marks @@ marks
    /\ UNCHANGED <<export, archive, source, clock, events>>

Next ==
    \/ \E v \in Variants : Import(v) \/ Mark(v) \/ \E far \in 1..2 : Read(v, far)
    \/ \E b \in DOMAIN lib.books :
         \/ \E v \in lib.books[b] : Delete(b, v)
         \/ \E s \in DOMAIN lib.books : Associate(b, s)
    \/ \E view \in Views : SyncReplaces(view)
    \/ NewDevice
    \/ StartExport \/ ListProgress \/ ListMarks \/ ListCovers \/ AddArchiveEntries
    \/ StartRestore \/ SelectProgress \/ SelectMarks \/ CommitRestore

Spec == Init /\ [][Next]_vars

(***************************************************************************)
(* Properties                                                              *)
(***************************************************************************)
(* An archive that an export completed has no logical book, reading state  *)
(* or cover of something that is not in it and no publication with two     *)
(* owners, however the library changed while it was being read             *)
(* (prepareBackup filters what it reads late by the books it read first;   *)
(* addArchiveEntries fails when a book has gone).                          *)
ExportIsSound ==
    archive # None => Refusals(archive) \cap {"membership", "state"} = {}

(* An archive that an export completed can be restored: validateEntryTable *)
(* and parseManifest accept it.                                            *)
ExportIsRestorable == archive # None => Refusals(archive) = {}

Commits == restore.pc = "commit" /\ restore'.pc = "idle" /\ lib' # lib

RestoreKeepsMembershipStep ==
    Commits =>
      /\ \A b \in DOMAIN lib.books : b \in DOMAIN lib'.books /\ lib.books[b] \subseteq lib'.books[b]
      /\ \A v \in lib'.records : Cardinality(Owners(lib'.books, v)) <= 1
      /\ \A b \in DOMAIN lib'.books :
           \A v, w \in lib'.books[b] : Format(v) = Format(w) => v = w

(* A restore never takes a variant from its logical book, and never gives  *)
(* it two (collectRestoreConflicts, mergeLogicalBooks and the comparison   *)
(* of revisions).                                                          *)
RestoreKeepsMembership == [][RestoreKeepsMembershipStep]_vars

RestoreKeepsNewerStep ==
    restore.pc = "commit" /\ restore'.pc = "idle" =>
      /\ \A v \in DOMAIN progress :
           Lookup(restore.seen, v) = Lookup(progress, v) =>
             progress'[v].at >= progress[v].at /\ progress'[v].far >= progress[v].far
      /\ \A v \in DOMAIN marks :
           Lookup(restore.seenMarks, v) = Lookup(marks, v) => marks'[v].at >= marks[v].at

(* A restore leaves newer progress and newer marks of this device as they  *)
(* are, unless they were saved after the restore had read them             *)
(* (preferredProgress, preferredBookmark).                                 *)
RestoreKeepsNewer == [][RestoreKeepsNewerStep]_vars

RoundTripStep ==
    /\ restore.pc = "commit" /\ restore'.pc = "idle"
    /\ lib = EmptyLibrary /\ restore.lib = EmptyLibrary /\ progress = <<>> /\ marks = <<>>
    /\ events = source.events + 1
    => /\ lib' = source.lib /\ covers' = source.covers \cap DOMAIN source.lib.books
       /\ progress' = source.progress /\ marks' = source.marks

(* Restored to a device without a library, an archive gives what the       *)
(* exporting device held, if that did not change during the export.        *)
RoundTrip == [][RoundTripStep]_vars

ArchivesAreSoundStep ==
    /\ ExportIsSound'
    /\ RestoreKeepsMembershipStep
    /\ RestoreKeepsNewerStep
    /\ RoundTripStep

(* What an export writes is consistent, and restoring it takes nothing     *)
(* from this device and loses nothing of the other (prepareBackup,         *)
(* collectRestoreConflicts, mergeLogicalBooks, preferredProgress).         *)
ArchivesAreSound == [][ArchivesAreSoundStep]_vars

(* A restore never replaces newer progress by older.                       *)
NewerProgressKept ==
    [][restore.pc = "commit" /\ restore'.pc = "idle" =>
         \A v \in DOMAIN progress : progress'[v].at >= progress[v].at]_vars
=================================================================================
