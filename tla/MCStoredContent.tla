--------------------------- MODULE MCStoredContent ---------------------------
(*****************************************************************************)
(* Small instances of four components that keep what they must not lose: the *)
(* passes over a destination with the previous root, the storage of          *)
(* publications, the archive of the library, and the MEGA adapter.  They     *)
(* have no state in common; one of them is there in a behaviour.             *)
(*****************************************************************************)
EXTENDS SyncRoot, TLC

CONSTANTS c1, c2, d1, d2, doc, book, note, a, b, x, y, NoFile, Null,
          Unchecked, Divergent

VARIABLES
    part,  \* the component that is there
    v1, v2, v3, v4, v5, v6, v7, v8, v9, v10  \* its variables

parts == <<part, v1, v2, v3, v4, v5, v6, v7, v8, v9, v10, vars>>

Shelf == INSTANCE BackupInstances

MegaRequests ==
       {[op |-> "write", path |-> doc, expected |-> e, content |-> n] : e \in {NoFile, 1, 2}, n \in {a, b}}
  \cup {[op |-> o, path |-> doc, expected |-> 1] : o \in {"delete", "entry"}}
  \cup {[op |-> "entries", path |-> doc, expected |-> {1, 2}], [op |-> "read", path |-> doc],
        [op |-> "upload", path |-> book, content |-> x],
        [op |-> "object", path |-> book, expected |-> Unchecked], [op |-> "download", path |-> book]}

\* Two documents, and a new content for each.
TwoDocuments == 1 :> [path |-> doc, content |-> a] @@ 2 :> [path |-> note, content |-> x]
TwoWrites == {[op |-> "write", path |-> doc, expected |-> 1, content |-> b], [op |-> "write", path |-> note, expected |-> 2, content |-> y]}

\* Two callers without failures, two callers that replace a document each, or
\* one caller with failing requests and lost answers.
MegaSituations ==
       {[clients |-> {c1, c2}, faults |-> "none", requests |-> MegaRequests, files |-> <<>>],
        [clients |-> {c1, c2}, faults |-> "one", requests |-> TwoWrites, files |-> TwoDocuments]}
  \cup {[clients |-> {c1}, faults |-> f, requests |-> MegaRequests, files |-> <<>>] : f \in {"one", "any"}}

Storage == INSTANCE PublicationStorage WITH
    Callers <- {c1, c2},
    Kinds <- {"import", "store", "source", "open", "resolve", "replace", "add", "restore", "remove"},
    MaxCalls <- 3, MaxFaults <- 1, db <- v1, file <- v2, quarantine <- v3,
    calls <- v4, made <- v5, faults <- v6, story <- v7

Mega == INSTANCE MegaStore WITH
    Clients <- {c1, c2}, Absent <- NoFile, Paths <- {doc, book, note},
    Handles <- 1 .. 4, Situations <- MegaSituations, MaxCalls <- 3,
    MaxFaults <- 3, place <- v1, content <- v2, run <- v3, calls <- v4,
    faults <- v5, situation <- v6, owed <- v7, overlapped <- v8,
    crossed <- v9, swept <- v10

Backup == INSTANCE LibraryBackup WITH
    Variants <- Shelf!Pair, Starts <- Shelf!PairStarts,
    Views <- Shelf!PairViews, MaxBooks <- 2, MaxArchiveEntries <- 5,
    MaxEvents <- 3, None <- Null, lib <- v1, covers <- v2, progress <- v3,
    marks <- v4, export <- v5, archive <- v6, restore <- v7, source <- v8,
    clock <- v9, events <- v10

\* The destination while another component is there.
Rest == Init /\ provider = "github" /\ old = PreviousRoot(Current)

PartsInit ==
    \/ part = "root" /\ Init
       /\ v1 = "absent" /\ v2 = "absent" /\ v3 = "absent" /\ v4 = "absent"
       /\ v5 = "absent" /\ v6 = "absent" /\ v7 = "absent" /\ v8 = "absent"
       /\ v9 = "absent" /\ v10 = "absent"
    \/ part = "storage" /\ Storage!Init /\ Rest
       /\ v8 = "absent" /\ v9 = "absent" /\ v10 = "absent"
    \/ part = "mega" /\ Mega!Init /\ Rest
    \/ part = "backup" /\ Backup!Init /\ Rest

PartsNext ==
    \/ part = "root" /\ Next /\ UNCHANGED <<part, v1, v2, v3, v4, v5, v6, v7, v8, v9, v10>>
    \/ part = "storage" /\ Storage!Next /\ UNCHANGED <<part, v8, v9, v10, vars>>
    \/ part = "mega" /\ Mega!Next /\ UNCHANGED <<part, vars>>
    \/ part = "backup" /\ Backup!Next /\ UNCHANGED <<part, vars>>

PartsSpec == PartsInit /\ [][PartsNext]_parts

------------------------------------------------------------------------------
\* What openHealthyVariant calls healthy is exactly the publication, and stored
\* bytes stay readable while stores, imports, opens and restores overlap.
BytesAreSound == part = "storage" => Storage!BytesAreSound

\* The moves that stand for a conditional write neither lose a document nor
\* leave a refused one under refused requests, lost answers and calls at other
\* paths, except with a staging folder that another call removed; under calls
\* at the same path they leave no refused document and keep an object that was
\* acknowledged (writeDocument, uploadObject).
DocumentsAreKept == part = "mega" => Mega!DocumentsAreKept

\* What an export writes is consistent, and restoring it takes nothing from
\* this device and loses nothing of the other (prepareBackup,
\* collectRestoreConflicts, mergeLogicalBooks, preferredProgress).
ArchivesAreSound == [][part = "backup" => Backup!ArchivesAreSoundStep]_parts

==============================================================================
