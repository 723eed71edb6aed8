------------------------- MODULE PublicationStorage -------------------------
(***************************************************************************)
(* The bytes of one publication in the browser: a reference in IndexedDB   *)
(* (BINARIES_STORE) next to the book record and its logical owner, and the *)
(* OPFS file the reference names, which every call for this content shares *)
(* because its name is the SHA-256 of the bytes.  Import, synchronisation, *)
(* recovery, opening, backup restore and removal run as calls of           *)
(* BrowserLibraryRepository that interleave at every await.                *)
(***************************************************************************)
EXTENDS Naturals, FiniteSets

CONSTANTS
    Callers,    \* calls that may be in progress at once
    Kinds,      \* the operations that are called
    MaxCalls,   \* calls made
    MaxFaults   \* failed writes, evictions, damaged records and crashes

VARIABLES
    db,         \* [record, owned, binary]: what one IndexedDB transaction sees
    file,       \* the OPFS file: "absent", "empty", "good" or "corrupt"
    quarantine, \* the references moved to QUARANTINE_STORE
    calls,      \* the calls in progress
    made, faults,
    story       \* what happened: are the bytes to be kept, was there a dangerous overlap

vars == <<db, file, quarantine, calls, made, faults, story>>

NoBinary == [at |-> "none"]
Malformed == [at |-> "malformed"]
Opfs == [at |-> "opfs"]
IndexedDb(content) == [at |-> "indexeddb", content |-> content]
Idle == [kind |-> "idle"]

Empty == [db |-> [record |-> FALSE, owned |-> FALSE, binary |-> NoBinary], file |-> "absent"]
(* A library of an earlier version keeps a Blob in the reference. *)
Legacy == [db |-> [record |-> TRUE, owned |-> TRUE, binary |-> IndexedDb("good")],
           file |-> "absent"]
Current == [db |-> [record |-> TRUE, owned |-> TRUE, binary |-> Opfs], file |-> "good"]
Starts == {Empty, Legacy, Current}

Init ==
    /\ \E s \in Starts : db = s.db /\ file = s.file /\ story = [kept |-> s.db.record, unsafe |-> FALSE]
    /\ quarantine = {} /\ calls = [c \in Callers |-> Idle]
    /\ made = 0 /\ faults = 0

Active == {c \in Callers : calls[c] # Idle}

(***************************************************************************)
(* Calls                                                                   *)
(***************************************************************************)
(* The library page offers recovery for a variant that is not healthy. *)
Offered(kind) ==
    kind = "replace" => db.record /\ ~(db.binary.at = "indexeddb" \/ (db.binary = Opfs /\ file = "good"))

Start(c, kind) ==
    /\ calls[c] = Idle /\ made < MaxCalls /\ Offered(kind)
    /\ made' = made + 1
    /\ calls' = [d \in Callers |->
                   IF d = c
                   THEN [kind |-> kind, alone |-> Active = {}, known |-> FALSE,
                         pc |-> CASE kind \in {"source", "remove"} -> "stored"
                                  [] kind = "restore" -> "commit"
                                  [] OTHER -> "book",
                         stored |-> NoBinary, blob |-> "none", ref |-> NoBinary]
                   ELSE IF calls[d] = Idle THEN Idle
                   ELSE [calls[d] EXCEPT !.alone = FALSE]]
    /\ story' = [story EXCEPT !.unsafe =
                   @ \/ (Active # {} /\ "remove" \in {kind} \cup {calls[d].kind : d \in Active})]
    /\ UNCHANGED <<db, file, quarantine, faults>>

Goto(c, pc) == calls' = [calls EXCEPT ![c].pc = pc]

(* A call is over.  A failure or a quarantine that overlapped another call *)
(* is remembered.                                                          *)
End(c, result, s) ==
    /\ calls' = [calls EXCEPT ![c] = Idle]
    /\ story' = [s EXCEPT !.unsafe =
                   @ \/ (~calls[c].alone /\ result \in {"failed", "quarantined"})]

Fault == faults < MaxFaults /\ faults' = faults + 1

(* getBook, or the checks of addVariant *)
GetBook(c) ==
    /\ calls[c] # Idle /\ calls[c].pc = "book"
    /\ LET k == calls[c].kind
           next == CASE k \in {"import", "store"} -> IF db.record THEN "stored" ELSE "create"
                     [] k \in {"open", "resolve"} -> IF db.record THEN "reference" ELSE "end"
                     [] k = "replace" -> IF db.record THEN "create" ELSE "end"
                     [] k = "add" -> IF db.owned THEN "end" ELSE "create"
       IN  IF next = "end" THEN End(c, "unknown", story)
           ELSE /\ calls' = [calls EXCEPT ![c].pc = next, ![c].known = db.record]
                /\ story' = [story EXCEPT !.unsafe = @ \/ (k = "add" /\ db.record)]
    /\ UNCHANGED <<db, file, quarantine, made, faults>>

(* getStoredBinary, of getBookSource and of removeBook and deleteVariant *)
GetStoredBinary(c) ==
    /\ calls[c] # Idle /\ calls[c].pc = "stored"
    /\ calls' = [calls EXCEPT
                   ![c].stored = IF db.binary = Malformed THEN NoBinary ELSE db.binary,
                   ![c].pc = IF db.binary = Malformed THEN "quarantine"
                             ELSE IF calls[c].kind = "remove" THEN "delete"
                             ELSE IF db.binary = NoBinary THEN "sourced" ELSE "having"]
    /\ UNCHANGED <<db, file, quarantine, made, faults, story>>

(* getBookSource reads the record after the reference; migrate writes a    *)
(* reference that still holds bytes to OPFS.                               *)
GetRecord(c) ==
    /\ calls[c] # Idle /\ calls[c].pc = "having"
    /\ Goto(c, IF ~db.record THEN "sourced"
               ELSE IF calls[c].stored.at = "indexeddb" THEN "create" ELSE "read")
    /\ UNCHANGED <<db, file, quarantine, made, faults, story>>

(* resolveVariantAvailability and openHealthyVariant read the reference. *)
ReadReference(c) ==
    /\ calls[c] # Idle /\ calls[c].pc = "reference"
    /\ IF db.binary = NoBinary \/ (calls[c].kind = "resolve" /\ db.binary # Malformed)
       THEN End(c, "unavailable", story)
       ELSE /\ calls' = [calls EXCEPT ![c].stored = db.binary,
                                      ![c].pc = IF db.binary = Malformed THEN "quarantine" ELSE "read"]
            /\ UNCHANGED story
    /\ UNCHANGED <<db, file, quarantine, made, faults>>

(* quarantineInvalidRecord: the transaction reads the record again.        *)
(* quarantineStoredBinary accepts no value as valid, getStoredBinary every *)
(* reference that parses.                                                  *)
Quarantine(c) ==
    /\ calls[c] # Idle /\ calls[c].pc = "quarantine"
    /\ LET any == calls[c].kind \in {"open", "resolve"}
           taken == db.binary # NoBinary /\ (any \/ db.binary = Malformed)
       IN  /\ db' = IF taken THEN [db EXCEPT !.binary = NoBinary] ELSE db
           /\ quarantine' = IF taken THEN quarantine \cup {db.binary} ELSE quarantine
           /\ IF any THEN End(c, "quarantined", story)
              ELSE /\ Goto(c, IF calls[c].kind = "remove" THEN "delete" ELSE "sourced")
                   /\ UNCHANGED story
    /\ UNCHANGED <<file, made, faults>>

(* PublicationBinaryStorage.open compares sizes. *)
OpenStored(c) ==
    /\ calls[c] # Idle /\ calls[c].pc = "read"
    /\ LET blob == IF calls[c].stored.at = "indexeddb" THEN calls[c].stored.content
                   ELSE IF file \in {"good", "corrupt"} THEN file ELSE "none"
       IN  IF calls[c].kind = "open" /\ blob = "none" THEN End(c, "unavailable", story)
           ELSE /\ calls' = [calls EXCEPT ![c].blob = blob,
                                          ![c].pc = IF calls[c].kind = "open" THEN "verify" ELSE "sourced"]
                /\ UNCHANGED story
    /\ UNCHANGED <<db, file, quarantine, made, faults>>

(* openHealthyVariant: format and digest of the bytes *)
Verify(c) ==
    /\ calls[c] # Idle /\ calls[c].pc = "verify"
    /\ Goto(c, IF calls[c].blob = "corrupt" THEN "quarantine"
               ELSE IF calls[c].stored.at = "indexeddb" THEN "create" ELSE "healthy")
    /\ UNCHANGED <<db, file, quarantine, made, faults, story>>

ReturnSource(c) ==
    /\ calls[c] # Idle /\ calls[c].pc = "healthy"
    /\ End(c, "healthy", story)
    /\ UNCHANGED <<db, file, quarantine, made, faults>>

(* What getBookSource returned decides whether the bytes are stored again. *)
Sourced(c) ==
    /\ calls[c] # Idle /\ calls[c].pc = "sourced"
    /\ IF calls[c].kind \in {"import", "store"} /\ calls[c].blob = "none"
       THEN calls' = [calls EXCEPT ![c].pc = "create", ![c].stored = NoBinary] /\ UNCHANGED story
       ELSE IF calls[c].kind = "import" THEN Goto(c, "own") /\ UNCHANGED story
       ELSE End(c, "found", story)
    /\ UNCHANGED <<db, file, quarantine, made, faults>>

(***************************************************************************)
(* save and migrate                                                        *)
(***************************************************************************)
Migrates(c) == calls[c].stored # NoBinary

(* removeEntry: the file may be locked by a call that is writing it. *)
Removed(c) ==
    IF \E d \in Active \ {c} : calls[d].pc = "write" THEN {file, "absent"} ELSE {"absent"}

(* Where a call goes on once its bytes are in a reference. *)
Wrote(c, ref) ==
    [calls EXCEPT ![c].ref = ref,
                  ![c].pc = IF ~Migrates(c) THEN "commit"
                            ELSE IF ref # calls[c].stored THEN "swap"
                            ELSE IF calls[c].kind = "open" THEN "healthy" ELSE "read"]

(* What a call has when OPFS fails: save falls back to IndexedDB, migrate  *)
(* keeps what is stored.                                                   *)
Fallback(c) == IF Migrates(c) THEN calls[c].stored ELSE IndexedDb("good")

(* writeOpfs: getFileHandle with create.  Where there is no directory the  *)
(* file stays as it is; a later failure removes the entry.                 *)
CreateFile(c) ==
    /\ calls[c] # Idle /\ calls[c].pc = "create"
    /\ \/ /\ file' = IF file = "absent" THEN "empty" ELSE file
          /\ Goto(c, "write") /\ UNCHANGED faults
       \/ /\ Fault /\ calls' = Wrote(c, Fallback(c)) /\ file' \in {file} \cup Removed(c)
    /\ story' = [story EXCEPT !.unsafe = @ \/ (~calls[c].alone /\ faults' # faults)]
    /\ UNCHANGED <<db, quarantine, made>>

\* Mutant: the size of the written file is not compared.
WriteUnchecked(c) ==
    /\ calls[c] # Idle /\ calls[c].pc = "write"
    /\ \/ /\ file # "absent" /\ file' = "good" /\ UNCHANGED faults
       \/ /\ file # "absent" /\ Fault /\ UNCHANGED file
    /\ calls' = Wrote(c, Opfs)
    /\ UNCHANGED <<db, quarantine, made, story>>

(* The stream replaces the file when it is closed; a failure, or a file    *)
(* that has gone, removes the entry.                                       *)
WriteFile(c) ==
    /\ calls[c] # Idle /\ calls[c].pc = "write"
    /\ \/ /\ file # "absent" /\ file' = "good" /\ calls' = Wrote(c, Opfs) /\ UNCHANGED faults
       \/ /\ file = "absent" /\ calls' = Wrote(c, Fallback(c)) /\ UNCHANGED <<file, faults>>
       \/ /\ file # "absent" /\ Fault /\ file' \in Removed(c) /\ calls' = Wrote(c, Fallback(c))
    /\ story' = [story EXCEPT !.unsafe = @ \/ (~calls[c].alone /\ faults' # faults)]
    /\ UNCHANGED <<db, quarantine, made>>

(* The migrated reference replaces the stored one; when that fails the     *)
(* file is removed.                                                        *)
Swap(c) ==
    /\ calls[c] # Idle /\ calls[c].pc = "swap"
    /\ LET next == IF calls[c].kind = "open" THEN "healthy" ELSE "read"
       IN  \/ /\ db' = [db EXCEPT !.binary = calls[c].ref]
              /\ calls' = [calls EXCEPT ![c].stored = calls[c].ref, ![c].pc = next]
              /\ UNCHANGED <<faults, story>>
           \/ /\ Fault /\ Goto(c, "undo") /\ UNCHANGED db
              /\ story' = [story EXCEPT !.unsafe = @ \/ ~calls[c].alone]
    /\ UNCHANGED <<file, quarantine, made>>

Undo(c) ==
    /\ calls[c] # Idle /\ calls[c].pc = "undo"
    /\ file' \in IF calls[c].ref = Opfs THEN Removed(c) ELSE {file}
    /\ IF Migrates(c)
       THEN /\ Goto(c, IF calls[c].kind = "open" THEN "healthy" ELSE "read")
            /\ story' = [story EXCEPT !.unsafe = @ \/ ~calls[c].alone]
       ELSE End(c, "failed", story)
    /\ UNCHANGED <<db, quarantine, made, faults>>

Stored == [story EXCEPT !.kept = TRUE]

(* The transaction of importBook, storeSyncedBook, replaceStoredBinary,    *)
(* addVariant and restoreLibraryBackupAtomically *)
Commit(c) ==
    /\ calls[c] # Idle /\ calls[c].pc = "commit"
    /\ LET k == calls[c].kind
           whole == k \in {"add", "restore"} \/ (k \in {"import", "store"} /\ ~calls[c].known)
           refused == k = "add" /\ (db.record \/ db.binary # NoBinary)
       IN  \/ /\ ~refused
              /\ db' = [record |-> db.record \/ whole, owned |-> db.owned \/ whole,
                        binary |-> IF k = "restore" THEN IndexedDb("good") ELSE calls[c].ref]
              /\ IF k = "import" /\ calls[c].known
                 THEN Goto(c, "own") /\ story' = Stored
                 ELSE End(c, "stored", Stored)
              /\ UNCHANGED faults
           \/ /\ k # "restore" /\ (refused \/ faults < MaxFaults)
              /\ faults' = IF refused THEN faults ELSE faults + 1
              /\ Goto(c, "undo")
              /\ story' = [story EXCEPT !.unsafe = @ \/ ~calls[c].alone]
              /\ UNCHANGED db
    /\ UNCHANGED <<file, quarantine, made>>

(* importBook gives a record without owner its logical book. *)
Own(c) ==
    /\ calls[c] # Idle /\ calls[c].pc = "own"
    /\ db' = [db EXCEPT !.owned = TRUE]
    /\ End(c, "stored", story)
    /\ UNCHANGED <<file, quarantine, made, faults>>

(***************************************************************************)
(* removeBook and deleteVariant                                            *)
(***************************************************************************)
Delete(c) ==
    /\ calls[c] # Idle /\ calls[c].pc = "delete"
    /\ db' = [record |-> FALSE, owned |-> FALSE, binary |-> NoBinary]
    /\ IF calls[c].stored = Opfs
       THEN Goto(c, "erase") /\ story' = [story EXCEPT !.kept = FALSE]
       ELSE End(c, "removed", [story EXCEPT !.kept = FALSE])
    /\ UNCHANGED <<file, quarantine, made, faults>>

EraseFile(c) ==
    /\ calls[c] # Idle /\ calls[c].pc = "erase"
    /\ file' \in Removed(c)
    /\ End(c, "removed", story)
    /\ UNCHANGED <<db, quarantine, made, faults>>

(***************************************************************************)
(* Faults                                                                  *)
(***************************************************************************)
Disturbed == [c \in Callers |-> IF calls[c] = Idle THEN Idle ELSE [calls[c] EXCEPT !.alone = FALSE]]

(* The browser evicts the file, or the disk returns other bytes. *)
LoseFile ==
    /\ Fault /\ file \in {"good", "corrupt"}
    /\ file' \in {"absent", "corrupt"} \ {file}
    /\ calls' = Disturbed
    /\ story' = [kept |-> FALSE, unsafe |-> story.unsafe \/ Active # {}]
    /\ UNCHANGED <<db, quarantine, made>>

DamageReference ==
    /\ Fault /\ db.binary \notin {NoBinary, Malformed}
    /\ db' = [db EXCEPT !.binary = Malformed]
    /\ calls' = Disturbed
    /\ story' = [kept |-> FALSE, unsafe |-> story.unsafe \/ Active # {}]
    /\ UNCHANGED <<file, quarantine, made>>

(* A synchronisation took over the deletion made on another device. *)
Disown ==
    /\ Fault /\ db.owned
    /\ db' = [db EXCEPT !.owned = FALSE]
    /\ calls' = Disturbed
    /\ UNCHANGED <<file, quarantine, made, story>>

Crash ==
    /\ Fault /\ Active # {}
    /\ calls' = [c \in Callers |-> Idle]
    /\ UNCHANGED <<db, file, quarantine, made, story>>

Next ==
    \/ \E c \in Callers :
         \/ \E kind \in Kinds : Start(c, kind)
         \/ GetBook(c) \/ GetStoredBinary(c) \/ GetRecord(c) \/ ReadReference(c)
         \/ Quarantine(c) \/ OpenStored(c) \/ Verify(c) \/ ReturnSource(c) \/ Sourced(c)
         \/ CreateFile(c) \/ WriteFile(c) \/ Swap(c) \/ Undo(c) \/ Commit(c) \/ Own(c)
         \/ Delete(c) \/ EraseFile(c)
    \/ LoseFile \/ DamageReference \/ Disown \/ Crash

Spec == Init /\ [][Next]_vars

(***************************************************************************)
(* Properties                                                              *)
(***************************************************************************)
Readable ==
    \/ db.binary.at = "indexeddb"
    \/ db.binary = Opfs /\ file \in {"good", "corrupt"}

(* openHealthyVariant calls nothing healthy whose digest is not the        *)
(* publication's, whatever is written or lost while it runs.               *)
HealthyIsExact ==
    \A c \in Active : calls[c].pc = "healthy" => calls[c].blob = "good"

(* Bytes that were stored can be read again: imports, synchronisations,    *)
(* migrations, opens and restores may overlap in any way and the           *)
(* application may stop at any point, as long as no removal, quarantine or *)
(* failed write ran beside another call and no format was added whose      *)
(* record is there without an owner.                                       *)
BytesKept ==
    Active = {} /\ story.kept /\ ~story.unsafe => db.record /\ Readable

(* The same without the exception. *)
BytesDurable == Active = {} /\ story.kept => db.record /\ Readable

StoringRepairsStep ==
    \A c \in Callers :
      (/\ calls[c] # Idle /\ calls[c].alone
       /\ calls[c].pc \in {"own", "commit"} \/ (calls[c].pc = "sourced" /\ calls[c].kind = "store")
       /\ calls'[c] = Idle /\ faults' = faults)
      => db'.record /\ Readable'

(* An import, a synchronisation, a recovery or a restore that finishes     *)
(* undisturbed leaves a record with bytes that can be read, whatever the   *)
(* faults before it left behind.                                           *)
StoringRepairs == [][StoringRepairsStep]_vars

NothingLeftBehindStep ==
    \A c \in Callers :
      (/\ calls[c] # Idle /\ calls[c].alone
       /\ calls[c].pc = "erase" \/ (calls[c].pc = "undo" /\ calls[c].ref = Opfs)
       /\ calls'[c] = Idle /\ faults' = faults)
      => file' = "absent"

(* No file is left without a reference by what ran alone: a removal erases *)
(* the file its reference named, a failed store the file it wrote.         *)
NothingLeftBehind == [][NothingLeftBehindStep]_vars

\* What openHealthyVariant calls healthy is exactly the publication, and stored
\* bytes stay readable while stores, imports, opens and restores overlap.
BytesAreSound ==
    /\ HealthyIsExact
    /\ BytesKept
=============================================================================
