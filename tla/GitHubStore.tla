------------------------------ MODULE GitHubStore ------------------------------
(***************************************************************************)
(* The document and object calls of the GitHub adapter of the              *)
(* synchronization gateway (apps/sync-gateway/src/github-adapter.ts) on    *)
(* one branch of one repository.  Every request to GitHub is one step.     *)
(*                                                                         *)
(* GitHub itself is external: a contents request commits one file when the *)
(* blob it names is the one the branch holds, a reference update is        *)
(* accepted when it is a fast forward, and an LFS upload stores one        *)
(* object.  A blob is identified by its content, so a revision is the      *)
(* content.  A request may fail before or after GitHub carried it out.     *)
(***************************************************************************)
EXTENDS Naturals, FiniteSets

CONSTANTS Clients,     \* requests the gateway serves at the same time
          Paths,       \* document and object paths below .omnia-reader
          Contents,    \* blobs of documents
          Pointers,    \* blobs that are Git LFS pointers, named by their object
          Requests,    \* the calls that are made
          Absent, Unchecked,
          Lines,       \* .gitattributes lines that are not Omnia Reader's
          MaxCalls,    \* bound on the calls that are begun
          MaxAttempts  \* attempts of ensureGitAttributes

\* The values of a call's fields.
Operations == {"read", "download", "list", "write", "delete", "entry", "entries", "upload"}

ASSUME RequestAssumption ==
    \A r \in Requests :
        /\ r.op \in Operations
        /\ r.op \notin {"list", "entries"} => r.path \in Paths
        /\ r.op = "entries" => DOMAIN r.wanted \subseteq Paths
        /\ r.op = "upload" => r.content \in Pointers
        /\ r.op = "write" => r.content \in Contents

ASSUME BlobAssumption ==
    /\ Absent \notin Contents \cup Pointers
    /\ Contents \cap Pointers = {}

VARIABLES head,        \* number of commits on the branch; 0: still empty
          tree,        \* the blob at each path of the head commit
          attributes,  \* .gitattributes of the head commit
          lfs,         \* the objects Git LFS stores
          run,         \* the call each client is making
          calls,       \* calls begun so far
          pushed       \* lines other Git clients added to .gitattributes

vars == <<head, tree, attributes, lfs, run, calls, pushed>>

Blobs == Contents \cup Pointers

\* .gitattributes: whether it exists, holds the rules for the current and for
\* the earlier layout, and the lines of others.
NoAttributes == [file |-> FALSE, rules |-> FALSE, legacy |-> FALSE, lines |-> {}]

reconciledGitAttributes(a) == [file |-> TRUE, rules |-> TRUE, legacy |-> FALSE, lines |-> a.lines]

NeedsReconciling(a) == a.legacy \/ ~a.rules

\* parseLfsPointer refuses a file that is not a pointer.
parseLfsPointer(blob) == blob \in Pointers

NoPaths == [p \in Paths |-> Absent]

\* The handler of a request: what it was asked, what it read last (a blob,
\* .gitattributes, or a commit with its tree) and what it returns.
Handler(phase, request, seen, attempt, result) ==
    [phase |-> phase, request |-> request, seen |-> seen, attempt |-> attempt, result |-> result]

Answers == {"ok", "conflict", "error"}

\* A commit on the branch.
Commit(t, a) == head' = head + 1 /\ tree' = t /\ attributes' = a

NoCommit == UNCHANGED <<head, tree, attributes>>

\* The handler of c goes on as r.
Goes(c, r) == run' = [run EXCEPT ![c] = r] /\ UNCHANGED <<calls, pushed>>

\* It goes on to phase s; nothing it read is needed after its answer.
Moved(r, s) ==
    IF s \in Answers THEN Handler(s, r.request, Absent, 0, r.result)
    ELSE Handler(s, r.request, r.seen, r.attempt, r.result)

\* It goes on to phase s with what it read.
Saw(r, s, seen) == Handler(s, r.request, seen, r.attempt, r.result)

Answer(c, s) == Goes(c, Moved(run[c], s))

\* GitHub carried a request out; its response may be lost.
Carried(c, s) == Answer(c, s) \/ Answer(c, "error")

--------------------------------------------------------------------------------

Init ==
    /\ head \in {0, 1}
    /\ tree = NoPaths
    /\ attributes \in (IF head = 0 THEN {NoAttributes}
                       ELSE {NoAttributes, [NoAttributes EXCEPT !.file = TRUE, !.legacy = TRUE]})
    /\ lfs = {}
    /\ run = [c \in Clients |-> Handler("ok", Absent, Absent, 0, NoPaths)]
    /\ calls = 0
    /\ pushed = {}

FirstPhase(op) ==
    CASE op = "write" -> "put"
      [] op \in {"read", "download"} -> "get"
      [] op = "list" -> "tree"
      [] op \in {"delete", "entry"} -> "current"
      [] op = "entries" -> "reference"
      [] op = "upload" -> "existing"

Begin(c) ==
    /\ run[c].phase \in Answers
    /\ calls < MaxCalls
    /\ \E r \in Requests :
          run' = [run EXCEPT ![c] = Handler(FirstPhase(r.op), r, Absent, 0, NoPaths)]
    /\ calls' = calls + 1
    /\ NoCommit
    /\ UNCHANGED <<lfs, pushed>>

\* readDocument, headObject and the first half of downloadObject: readFile.
Get(c) ==
    /\ run[c].phase = "get"
    /\ LET r == run[c].request
           file == tree[r.path]
           next == IF r.op = "read" \/ file = Absent THEN "ok"
                   ELSE IF parseLfsPointer(file) THEN "bytes" ELSE "error" IN
         Goes(c, Handler(next, r, file, 0, tree))
    /\ NoCommit /\ UNCHANGED lfs

\* lfsBatch finds the objects Git LFS has.
lfsBatch(pointer) == pointer \in lfs

\* downloadObject: lfsBatch names the object of the pointer and its bytes are
\* verified while they stream.
Download(c) ==
    /\ run[c].phase = "bytes"
    /\ Answer(c, IF lfsBatch(run[c].seen) THEN "ok" ELSE "error")
    /\ NoCommit /\ UNCHANGED lfs

\* listDocuments and listEntries name the branch once; the blobs are then read
\* by their hash.
ListTree(c) ==
    /\ run[c].phase = "tree"
    /\ Goes(c, Handler("blobs", run[c].request, Absent, 0, tree))
    /\ NoCommit /\ UNCHANGED lfs

ReadBlobs(c) ==
    /\ run[c].phase = "blobs"
    /\ Answer(c, "ok")
    /\ NoCommit /\ UNCHANGED lfs

\* The contents request of writeFile.  Without a revision it only creates; 422
\* is mapped to 409.
ContentsPut(path, expected, content) ==
    /\ tree[path] = expected
    /\ Commit([tree EXCEPT ![path] = content], attributes)

\* writeDocument
writeDocument(c) ==
    /\ run[c].phase = "put"
    /\ LET r == run[c].request IN
         \/ ContentsPut(r.path, r.expected, r.content) /\ Carried(c, "ok")
         \/ tree[r.path] # r.expected /\ NoCommit /\ Answer(c, "conflict")
    /\ UNCHANGED lfs

\* deleteDocument, deleteObject and deleteEntry first read the file.
ReadCurrent(c) ==
    /\ run[c].phase = "current"
    /\ LET r == run[c].request
           current == tree[r.path] IN
         IF current = Absent THEN Answer(c, "ok")
         ELSE IF r.expected \notin {Unchecked, current} THEN Answer(c, "conflict")
         ELSE Goes(c, Saw(run[c], "delete", current))
    /\ NoCommit /\ UNCHANGED lfs

\* deleteFile: GitHub answers 404 when the file is gone and 409 when it is
\* another blob.  deleteEntry then reconciles .gitattributes.
deleteFile(c) ==
    /\ run[c].phase = "delete"
    /\ LET r == run[c].request IN
         \/ /\ tree[r.path] = run[c].seen
            /\ Commit([tree EXCEPT ![r.path] = Absent], attributes)
            /\ Carried(c, IF r.op = "entry" THEN "attributes" ELSE "ok")
         \/ tree[r.path] = Absent /\ NoCommit /\ Answer(c, "error")
         \/ tree[r.path] \notin {Absent, run[c].seen} /\ NoCommit /\ Answer(c, "conflict")
    /\ UNCHANGED lfs

\* What follows a successful ensureGitAttributes.
AfterAttributes(op) == IF op = "entry" THEN "ok" ELSE "pointer"

\* One attempt of ensureGitAttributes: read, ...
ReadAttributes(c) ==
    /\ run[c].phase = "attributes"
    /\ IF NeedsReconciling(attributes)
       THEN Goes(c, Saw(run[c], "configure", attributes))
       ELSE Answer(c, AfterAttributes(run[c].request.op))
    /\ NoCommit /\ UNCHANGED lfs

\* ... and write, on the revision that was read.
WriteAttributes(c) ==
    /\ run[c].phase = "configure"
    /\ \/ /\ attributes = run[c].seen
          /\ Commit(tree, reconciledGitAttributes(run[c].seen))
          /\ Carried(c, AfterAttributes(run[c].request.op))
       \/ /\ attributes # run[c].seen
          /\ NoCommit
          /\ IF run[c].attempt + 1 < MaxAttempts
             THEN Goes(c, Handler("attributes", run[c].request, Absent, run[c].attempt + 1, run[c].result))
             ELSE Answer(c, "conflict")
    /\ UNCHANGED lfs

\* deleteEntries reads the reference, its commit and that commit's tree, and
\* validates every request against it.
ReadReference(c) ==
    /\ run[c].phase = "reference"
    /\ LET wanted == run[c].request.wanted
           present == {p \in DOMAIN wanted : tree[p] # Absent} IN
         IF head = 0 THEN Answer(c, "ok")
         ELSE IF \E p \in present : wanted[p] # {tree[p]} THEN Answer(c, "conflict")
         ELSE IF present = {} /\ ~NeedsReconciling(attributes) THEN Answer(c, "ok")
         ELSE Goes(c, Saw(run[c], "patch", [head |-> head, tree |-> tree, attributes |-> attributes]))
    /\ NoCommit /\ UNCHANGED lfs

\* Mutant: the branch is moved with force.
PatchWithForce(c) ==
    /\ run[c].phase = "patch"
    /\ Commit([p \in Paths |-> IF p \in DOMAIN run[c].request.wanted THEN Absent
                               ELSE run[c].seen.tree[p]],
              IF NeedsReconciling(run[c].seen.attributes)
              THEN reconciledGitAttributes(run[c].seen.attributes) ELSE run[c].seen.attributes)
    /\ Carried(c, "ok")
    /\ UNCHANGED lfs

\* deleteEntries builds a commit on the tree it read and moves the branch to
\* it without force.
PatchReference(c) ==
    /\ run[c].phase = "patch"
    /\ \/ /\ head = run[c].seen.head
          /\ Commit([p \in Paths |-> IF p \in DOMAIN run[c].request.wanted THEN Absent
                                     ELSE run[c].seen.tree[p]],
                    IF NeedsReconciling(run[c].seen.attributes)
                    THEN reconciledGitAttributes(run[c].seen.attributes) ELSE run[c].seen.attributes)
          /\ Carried(c, "ok")
       \/ head # run[c].seen.head /\ NoCommit /\ Answer(c, "conflict")
    /\ UNCHANGED lfs

\* uploadObject: a pointer to the same object needs no upload.
ReadExisting(c) ==
    /\ run[c].phase = "existing"
    /\ LET r == run[c].request
           existing == tree[r.path] IN
         Answer(c, IF existing = Absent THEN "transfer"
                   ELSE IF ~parseLfsPointer(existing) THEN "error"
                   ELSE IF existing = r.content THEN "ok" ELSE "conflict")
    /\ NoCommit /\ UNCHANGED lfs

\* Mutant: the bytes are only announced to Git LFS.
TransferLater(c) ==
    /\ run[c].phase = "transfer"
    /\ Carried(c, "attributes")
    /\ NoCommit /\ UNCHANGED lfs

uploadLfsContent(pointer) == lfs' = lfs \cup {pointer}

\* uploadObject: lfsBatch, uploadLfsContent unless the object is there, verify.
Transfer(c) ==
    /\ run[c].phase = "transfer"
    /\ uploadLfsContent(run[c].request.content)
    /\ Carried(c, "attributes")
    /\ NoCommit

\* uploadObject: writeFile of the pointer, which only creates.
PutPointer(c) ==
    /\ run[c].phase = "pointer"
    /\ LET r == run[c].request IN
         \/ ContentsPut(r.path, Absent, r.content) /\ Carried(c, "ok")
         \/ tree[r.path] # Absent /\ NoCommit /\ Answer(c, "concurrent")
    /\ UNCHANGED lfs

\* uploadObject: after a 409 the same pointer of another client will do.
ReadConcurrent(c) ==
    /\ run[c].phase = "concurrent"
    /\ Answer(c, IF tree[run[c].request.path] = run[c].request.content THEN "ok" ELSE "conflict")
    /\ NoCommit /\ UNCHANGED lfs

\* GitHub refuses a request or it never arrives: the handler throws.  Requests
\* that change the repository are not retried.
Fail(c) ==
    /\ run[c].phase \notin Answers
    /\ Answer(c, "error")
    /\ NoCommit /\ UNCHANGED lfs

\* Another Git client pushes a commit that adds a line to .gitattributes.
Push ==
    /\ \E line \in Lines \ pushed :
          /\ Commit(tree, [attributes EXCEPT !.file = TRUE, !.lines = @ \cup {line}])
          /\ pushed' = pushed \cup {line}
    /\ UNCHANGED <<lfs, run, calls>>

Next ==
    \/ Push
    \/ \E c \in Clients :
          \/ Begin(c) \/ Get(c) \/ Download(c) \/ ListTree(c) \/ ReadBlobs(c)
          \/ writeDocument(c) \/ ReadCurrent(c) \/ deleteFile(c)
          \/ ReadAttributes(c) \/ WriteAttributes(c)
          \/ ReadReference(c) \/ PatchReference(c)
          \/ ReadExisting(c) \/ Transfer(c) \/ PutPointer(c) \/ ReadConcurrent(c)
          \/ Fail(c)

Spec == Init /\ [][Next]_vars

--------------------------------------------------------------------------------

TypeOK ==
    /\ head \in Nat
    /\ tree \in [Paths -> Blobs \cup {Absent}]
    /\ attributes \in [file : BOOLEAN, rules : BOOLEAN, legacy : BOOLEAN, lines : SUBSET Lines]
    /\ lfs \subseteq Pointers
    /\ pushed \subseteq Lines

\* How far a call is, as its caller could tell: removing an entry has taken
\* effect once its file is deleted, a read once the branch was named.
StatusOf(r) ==
    IF r.phase \in Answers THEN r.phase
    ELSE IF r.phase \in {"bytes", "blobs"}
            \/ (r.request.op = "entry" /\ r.phase \in {"attributes", "configure"})
         THEN "applied" ELSE "pending"

Store == INSTANCE DocumentStore WITH
    documents <- tree,
    request <- [c \in Clients |-> run[c].request],
    status <- [c \in Clients |-> StatusOf(run[c])],
    result <- [c \in Clients |-> run[c].result]

\* The adapter implements the store it promises: every call takes effect at one
\* instant, on the revision it named, or not at all, whatever other calls do
\* between its requests to GitHub.
Implements == Store!StoreSpec

\* uploadObject publishes a pointer only after Git LFS has its object, also when
\* requests fail on the way.
PointersHaveObjects == \A p \in Paths : tree[p] \in Pointers => tree[p] \in lfs

\* A pointer is only ever on the branch together with the rules that make Git
\* treat it as one: ensureGitAttributes comes before the pointer, and no later
\* commit takes the rules away.
PointersAreConfigured == (\E p \in Paths : tree[p] \in Pointers) => attributes.rules

\* ensureGitAttributes and deleteEntries rewrite .gitattributes from what they
\* read; lines other Git clients pushed meanwhile survive.
LinesOfOthersKept == pushed \subseteq attributes.lines

\* What uploadObject, ensureGitAttributes and deleteEntries make of the branch
\* can be used by every Git client: no pointer without its object or without
\* its rules, and nobody else's attributes lost.
LfsIsSound ==
    /\ PointersHaveObjects
    /\ PointersAreConfigured
    /\ LinesOfOthersKept
================================================================================
