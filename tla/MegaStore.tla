------------------------------- MODULE MegaStore -------------------------------
(***************************************************************************)
(* The document and object calls of the MEGA adapter of the                *)
(* synchronization gateway (apps/sync-gateway/src/mega-adapter.ts) through *)
(* the native bridge (tools/mega-sdk-bridge/src/mega_client.cpp).          *)
(*                                                                         *)
(* MEGA names files by handles, allows several of them at one path and has *)
(* no conditional write: writeDocument uploads to a staging folder, moves  *)
(* the current file there as a backup, and moves the upload to its path.   *)
(* Each request to the bridge is one step, a move is two (the bridge looks *)
(* for a file at the target, then moves), and removing the last file of a  *)
(* folder removes the folder in a further step.                            *)
(***************************************************************************)
EXTENDS Naturals, FiniteSets, FiniteSetsExt

CONSTANTS Clients,   \* requests the gateway serves at the same time
          Paths,     \* document and object paths; one folder each
          Handles,   \* handles MEGA gives to files, ordered as their texts are
          Absent, Unchecked,
          Divergent, \* files with different contents at one path
          MaxCalls,  \* bound on the calls that are begun
          MaxFaults, \* bound on the requests that fail
          Situations \* the callers, their requests, which of the bridge's answers fail,
                     \* and the documents that are there: [clients, requests, faults, files]

VARIABLES place,     \* the folder each file is in
          content,
          run,       \* the call each client is making
          calls, faults, situation,
          owed,      \* what each path was last acknowledged to hold, and later writes of it
          overlapped,\* clients whose call overlapped a deletion at its path
          crossed,   \* history: paths at which two changing calls overlapped
          swept      \* history: files that went with the folder they were in

vars == <<place, content, run, calls, faults, situation, owed, overlapped, crossed, swept>>

\* Handles MEGA has not given out, files in .staging, removed files.
Unused == "unused"
Staging == "staging"
Gone == "gone"

Answers == {"ok", "conflict", "error"}

Live(h) == place[h] \notin {Unused, Gone}

\* fileCandidates
fileCandidates(p) == {h \in Handles : place[h] = p}

\* resolveDocumentCandidates and resolveObject: of several files with the same
\* content the one with the smallest handle; different contents are a conflict.
Resolved(listed) ==
    IF listed = {} THEN Absent
    ELSE IF \E h, k \in listed : content[h] # content[k] THEN Divergent
    ELSE Min(listed)

Documents == {"read", "write", "delete"}
Reads == {"read", "download"}
Deletions == {"delete", "entry", "entries", "object"}

\* A handler: the phase it is in, which of its listings it is at, the files it
\* listed, read as current, staged and moved away, what it is removing and what
\* it does then, whether it is publishing or restoring, and its answer.
Handler(request) ==
    [phase |-> "list", request |-> request, stage |-> "first", listed |-> {}, current |-> Absent,
     staged |-> Absent, backup |-> Absent, targets |-> {}, then |-> "ok", moving |-> "publish",
     folder |-> TRUE, answer |-> "ok", failures |-> 0]

\* Nothing it read is needed after its answer.
Ended(r, s) == [Handler(r.request) EXCEPT !.phase = s, !.staged = r.staged]

\* It removes files one by one and goes on.
Removing(r, targets, then) ==
    IF targets = {} THEN IF then \in Answers THEN Ended(r, then) ELSE [r EXCEPT !.phase = then]
    ELSE [r EXCEPT !.phase = "remove", !.targets = targets, !.then = then]

Listing(r, stage) == [r EXCEPT !.phase = "list", !.stage = stage, !.listed = {}]

\* Mutant: the backup is removed together with the staged file.
CaughtDropping(r, s) == Removing(r, {r.staged, r.backup} \ {Absent}, s)

\* The catch block of publishing: the staged file is removed, the backup
\* restored.
Caught(r, s) ==
    Removing([r EXCEPT !.moving = "restore", !.answer = s], {r.staged},
             IF r.backup = Absent THEN s ELSE "vacant")

\* The catch block of verifying: the published file is removed, and what is
\* then at the path decides about the backup.
Withdrawn(r, s) == Removing([r EXCEPT !.stage = "remaining", !.answer = s], {r.staged}, "list")

\* What the handler does with the files it resolved.
Matches(r, found) == found \in Handles /\ content[found] = r.request.content

\* uploadObject: an object that exists is verified, never replaced.
AfterExisting(r, found) ==
    IF found = Absent THEN [r EXCEPT !.phase = "upload"]
    ELSE Ended(r, IF Matches(r, found) THEN "ok" ELSE "conflict")

AfterFirst(r, found) ==
    LET op == r.request.op IN
    CASE found = Divergent -> Ended(r, "conflict")
      [] op \in {"read", "download"} /\ found # Divergent -> Ended(r, "ok")
      [] op = "write" /\ found # Divergent ->
            IF r.request.expected # found THEN Ended(r, "conflict")
            ELSE Removing([r EXCEPT !.current = found], r.listed \ {found}, "upload")
      [] op = "upload" /\ found # Divergent -> AfterExisting(r, found)
      [] op \in {"delete", "object"} /\ found # Divergent ->
            IF found = Absent THEN Ended(r, "ok")
            ELSE IF r.request.expected \notin {Unchecked, found} THEN Ended(r, "conflict")
            ELSE IF op = "object" THEN Listing(r, "candidates")
            ELSE Removing(r, r.listed, "ok")

\* Before it publishes, the handler resolves the path again.
AfterLatest(r, found) ==
    CASE found = Divergent -> Ended(r, "conflict")
      [] r.request.op = "write" /\ found # Divergent ->
            IF found # r.current THEN Removing(r, {r.staged}, "conflict")
            ELSE [r EXCEPT !.phase = IF r.current = Absent THEN "vacant" ELSE "backup"]
      [] r.request.op = "upload" /\ found # Divergent ->
            IF found = Absent THEN [r EXCEPT !.phase = "vacant"]
            ELSE Removing(r, {r.staged}, IF Matches(r, found) THEN "ok" ELSE "conflict")

\* And after it published.
AfterVerify(r, found) ==
    IF Matches(r, found)
    THEN Removing(r, IF r.backup = Absent THEN {} ELSE {r.backup}, "ok")
    ELSE IF r.request.op = "write" THEN Withdrawn(r, "conflict")
    ELSE Removing(r, {r.staged}, "conflict")

\* What is left at the path once the published file is withdrawn.
AfterRemaining(r) ==
    IF r.backup # Absent /\ r.listed = {} THEN [r EXCEPT !.moving = "restore", !.phase = "vacant"]
    ELSE Removing(r, IF r.backup = Absent THEN {} ELSE {r.backup}, r.answer)

AfterResolving(r, found) ==
    CASE r.stage = "first" -> AfterFirst(r, found)
      [] r.stage = "latest" -> AfterLatest(r, found)
      [] r.stage = "verify" -> AfterVerify(r, found)

\* deleteEntry wants one of the revisions, deleteEntries all of them.
AfterCandidates(r) ==
    IF r.listed = {} THEN Ended(r, "ok")
    ELSE IF \/ r.request.op = "entry" /\ r.request.expected \notin r.listed
            \/ r.request.op = "entries" /\ r.request.expected # r.listed
         THEN Ended(r, "conflict")
    ELSE Removing(r, r.listed, "ok")

--------------------------------------------------------------------------------

NothingOwed == [last |-> Absent, later |-> {}]

\* An acknowledged write or upload is owed, unless a deletion overlapped it.
Owes(c, r) ==
    owed' = IF r.phase = "ok" /\ r.request.op \in {"write", "upload"}
            THEN [owed EXCEPT ![r.request.path] =
                    IF c \in overlapped THEN NothingOwed ELSE [last |-> r.request.content, later |-> {}]]
            ELSE owed

Owed(p) == IF owed[p] = NothingOwed THEN {} ELSE {owed[p].last} \cup owed[p].later

Goes(c, r) ==
    /\ run' = [run EXCEPT ![c] = r]
    /\ Owes(c, r)
    /\ UNCHANGED <<calls, faults, situation, overlapped, crossed>>

FilesStay == UNCHANGED <<place, content, swept>>
FileMoves(h, where) == place' = [place EXCEPT ![h] = where] /\ UNCHANGED <<content, swept>>

Init ==
    /\ situation \in Situations
    /\ place = [h \in Handles |-> IF h \in DOMAIN situation.files THEN situation.files[h].path ELSE Unused]
    /\ content = [h \in Handles |-> IF h \in DOMAIN situation.files THEN situation.files[h].content ELSE Absent]
    /\ run = [c \in Clients |-> Ended(Handler(Absent), "ok")]
    /\ calls = 0 /\ faults = 0
    /\ owed = [p \in Paths |-> IF fileCandidates(p) = {} THEN NothingOwed
                              ELSE [last |-> content[Min(fileCandidates(p))], later |-> {}]]
    /\ overlapped = {} /\ crossed = {} /\ swept = {}

Begin(c) ==
    /\ run[c].phase \in Answers
    /\ c \in situation.clients
    /\ calls < MaxCalls
    /\ \E r \in situation.requests :
          /\ run' = [run EXCEPT ![c] = Handler(r)]
          /\ owed' = [owed EXCEPT ![r.path] =
                        IF @ = NothingOwed \/ r.op \in Reads THEN @
                        ELSE IF r.op \in Deletions THEN NothingOwed
                        ELSE [@ EXCEPT !.later = @ \cup {r.content}]]
          /\ LET others == {d \in Clients \ {c} : run[d].phase \notin Answers /\ run[d].request.path = r.path} IN
             /\ overlapped' = (overlapped \ {c})
                \cup (IF r.op \in Deletions THEN others ELSE {})
                \cup (IF \E d \in others : run[d].request.op \in Deletions THEN {c} ELSE {})
             /\ crossed' = crossed \cup
                  {q \in {r.path} : /\ r.op \notin Reads
                                   /\ \E d \in others : run[d].request.op \notin Reads /\ {r.op, run[d].request.op} # {"upload"}}
    /\ calls' = calls + 1
    /\ FilesStay
    /\ UNCHANGED <<faults, situation>>

\* The bridge lists the files at the path.  The digest of an object comes with
\* the listing; a document is downloaded.
List(c) ==
    /\ run[c].phase = "list"
    /\ LET r == [run[c] EXCEPT !.listed = fileCandidates(run[c].request.path)] IN
         Goes(c, IF r.stage = "remaining" THEN AfterRemaining(r)
                 ELSE IF r.stage = "candidates" \/ r.request.op \in {"entry", "entries"}
                 THEN AfterCandidates(r)
                 ELSE IF r.request.op \in Documents /\ r.listed # {} THEN [r EXCEPT !.phase = "read"]
                 ELSE AfterResolving(r, Resolved(r.listed)))
    /\ FilesStay

\* readDocumentNode of every candidate; one that was removed meanwhile is 404,
\* which only the verification reports as a conflict.
ReadNodes(c) ==
    /\ run[c].phase = "read"
    /\ IF \A h \in run[c].listed : Live(h)
       THEN Goes(c, AfterResolving(run[c], Resolved(run[c].listed)))
       ELSE Goes(c, IF run[c].stage = "verify" THEN Withdrawn(run[c], "conflict")
                    ELSE Ended(run[c], "error"))
    /\ FilesStay

\* uploadFile to a new staging path.
Staged(c, h) == Listing([run[c] EXCEPT !.staged = h], "latest")

Store(h, x) ==
    place' = [place EXCEPT ![h] = Staging] /\ content' = [content EXCEPT ![h] = x] /\ UNCHANGED swept

Upload(c) ==
    /\ run[c].phase = "upload"
    /\ \E h \in Handles :
          /\ place[h] = Unused
          /\ Store(h, run[c].request.content)
          /\ Goes(c, Staged(c, h))

\* moveFile of the current file to a new staging path.
Backup(c) ==
    /\ run[c].phase = "backup"
    /\ LET h == run[c].current IN
         IF Live(h)
         THEN /\ FileMoves(h, Staging)
              /\ Goes(c, [run[c] EXCEPT !.phase = "vacant", !.backup = h])
         ELSE FilesStay /\ Goes(c, Caught(run[c], "conflict"))

Moved(r) == IF r.moving = "publish" THEN r.staged ELSE r.backup

\* How a move ends that MEGA or the bridge refuses.
MoveFailed(r, s) == IF r.moving = "publish" THEN Caught(r, s) ELSE Ended(r, r.answer)

\* mapWriteRace: only writeDocument reports a missing file as a conflict.
Missing(r) == IF r.request.op = "write" THEN "conflict" ELSE "error"

\* moveFile to the path: requireNode, resolveFolder, requireVacantName ...
RequireVacant(c) ==
    /\ run[c].phase = "vacant"
    /\ IF Live(Moved(run[c])) /\ fileCandidates(run[c].request.path) \subseteq {Moved(run[c])}
       THEN Goes(c, [run[c] EXCEPT !.phase = "move", !.folder = TRUE])
       ELSE Goes(c, MoveFailed(run[c], IF Live(Moved(run[c])) THEN "conflict" ELSE Missing(run[c])))
    /\ FilesStay

\* ... and moveNode.
Move(c) ==
    /\ run[c].phase = "move"
    /\ IF Live(Moved(run[c])) /\ run[c].folder
       THEN /\ FileMoves(Moved(run[c]), run[c].request.path)
            /\ Goes(c, IF run[c].moving = "publish" THEN Listing(run[c], "verify")
                       ELSE Ended(run[c], run[c].answer))
       ELSE FilesStay /\ Goes(c, MoveFailed(run[c], Missing(run[c])))

\* safeRemove goes on after a failure.
SafeRemoval(r) == r.request.op \notin {"entry", "entries", "object"}

Removed(r, h) == Removing(r, r.targets \ {h}, r.then)

\* removeFile; one that is gone is 404.  When it was the last of its folder the
\* folder follows.
Remove(c) ==
    /\ run[c].phase = "remove"
    /\ LET h == Min(run[c].targets) IN
         IF ~Live(h)
         THEN /\ FilesStay
              /\ Goes(c, IF SafeRemoval(run[c]) THEN Removed(run[c], h) ELSE Ended(run[c], "error"))
         ELSE /\ FileMoves(h, Gone)
              /\ Goes(c, IF fileCandidates(place[h]) = {h}
                         THEN [run[c] EXCEPT !.phase = "sweep", !.listed = {place[h]}]
                         ELSE Removed(run[c], h))

\* The folder that was found empty is removed with what it holds by now, also
\* from under a move that found it.
Sweep(c) ==
    /\ run[c].phase = "sweep"
    /\ \E f \in run[c].listed :
          /\ place' = [h \in Handles |-> IF place[h] = f THEN Gone ELSE place[h]]
          /\ swept' = swept \cup {h \in Handles : place[h] = f}
          /\ run' = [d \in Clients |->
                        IF d = c THEN Removed([run[c] EXCEPT !.listed = {}], Min(run[c].targets))
                        ELSE IF run[d].phase = "move" /\ run[d].request.path = f
                        THEN [run[d] EXCEPT !.folder = FALSE] ELSE run[d]]
          /\ Owes(c, run'[c])
    /\ UNCHANGED <<content, calls, faults, situation, overlapped, crossed>>

\* How a handler goes on after a request that failed.
Failed(r) ==
    CASE r.phase \in {"list", "read"} /\ r.stage = "verify" ->
            IF r.request.op = "write" THEN Withdrawn(r, "error") ELSE Removing(r, {r.staged}, "error")
      [] r.phase \in {"list", "read"} /\ r.stage # "verify" -> Ended(r, "error")
      [] r.phase = "upload" -> Ended(r, "error")
      [] r.phase = "backup" -> Caught(r, "error")
      [] r.phase \in {"vacant", "move"} -> MoveFailed(r, "error")
      [] r.phase \in {"remove", "sweep"} ->
            IF SafeRemoval(r) THEN Removed([r EXCEPT !.listed = {}], Min(r.targets))
            ELSE Ended(r, "error")

\* In which situations a request of the handler may still fail.
MayFail(r) ==
    /\ r.phase \notin Answers
    /\ faults < MaxFaults
    /\ situation.faults = "any" \/ (situation.faults = "one" /\ r.failures = 0)

Failing(c, r) ==
    /\ run' = [run EXCEPT ![c] = IF r.phase \in Answers THEN r ELSE [r EXCEPT !.failures = 1]]
    /\ Owes(c, r)
    /\ faults' = faults + 1
    /\ UNCHANGED <<calls, situation, overlapped, crossed>>

\* The bridge or MEGA refuses a request, or it never arrives.
Fail(c) ==
    /\ MayFail(run[c])
    /\ Failing(c, Failed(run[c]))
    /\ FilesStay

\* A request is carried out and its answer is lost.
Lose(c) ==
    /\ MayFail(run[c])
    /\ situation.faults = "any"
    /\ Failing(c, Failed(run[c]))
    /\ \/ /\ run[c].phase = "upload"
          /\ \E h \in Handles : place[h] = Unused /\ Store(h, run[c].request.content)
       \/ /\ run[c].phase = "backup" /\ Live(run[c].current)
          /\ FileMoves(run[c].current, Staging)
       \/ /\ run[c].phase = "move" /\ Live(Moved(run[c])) /\ run[c].folder
          /\ FileMoves(Moved(run[c]), run[c].request.path)
       \/ /\ run[c].phase = "remove" /\ Live(Min(run[c].targets))
          /\ FileMoves(Min(run[c].targets), Gone)

Next ==
    \E c \in Clients :
       \/ Begin(c) \/ List(c) \/ ReadNodes(c) \/ Upload(c) \/ Backup(c)
       \/ RequireVacant(c) \/ Move(c) \/ Remove(c) \/ Sweep(c)
       \/ Fail(c) \/ Lose(c)

Spec == Init /\ [][Next]_vars

--------------------------------------------------------------------------------

\* writeDocument withdraws what it published when it reports a conflict: without
\* failing requests, nothing of a refused write is left at the path.
RefusedLeavesNothing ==
    \A c \in Clients :
        run[c].phase = "conflict" /\ run[c].staged # Absent /\ situation.faults = "none" =>
            place[run[c].staged] \notin Paths

\* Whatever requests fail, whatever answers are lost and whatever another call
\* does at other paths, writeDocument never destroys the last copy: what was
\* acknowledged, or a later write's content, is at the path or in the staging
\* folder.  Two things can: a second call that changes the same path at the same
\* time, and the removal of the staging folder that another call found empty,
\* which takes what was put there since (removeFile).
NeverEmptied ==
    \A p \in Paths \ crossed : Owed(p) # {} =>
        \E h \in Handles : (Live(h) \/ h \in swept) /\ content[h] \in Owed(p)

\* If no answer is lost and at most one request of each call is refused, the
\* document is back at its path when the calls have ended, with the same two
\* exceptions: the catch blocks of writeDocument restore it.
RefusalKeepsDocument ==
    situation.faults # "any" /\ (\A c \in Clients : run[c].phase \in Answers) =>
        \A p \in Paths \ crossed : Owed(p) # {} =>
            LET found == Resolved(fileCandidates(p)) IN
            \/ found \in Handles /\ content[found] \in Owed(p)
            \/ \E h \in swept : content[h] \in Owed(p)

\* Two devices upload the same publication: once one upload is acknowledged the
\* object stays, whatever the other still does.
ObjectStays ==
    \A p \in {r.path : r \in {q \in situation.requests : q.op = "upload"}} :
        Owed(p) # {} => fileCandidates(p) # {}

\* A create is acknowledged only where no acknowledged document was, the
\* revision mismatch the API answers with 409.
CreatesOnlyWhereAbsent ==
    [][\A c \in Clients :
          run[c].phase \notin Answers /\ run'[c].phase = "ok"
          /\ run[c].request.op = "write" /\ run[c].request.expected = Absent =>
              owed[run[c].request.path].last \in {Absent, run[c].request.content}]_vars

\* The moves that stand for a conditional write neither lose a document nor
\* leave a refused one under refused requests, lost answers and calls at other
\* paths, except with a staging folder that another call removed; under calls at
\* the same path they leave no refused document and keep an object that was
\* acknowledged (writeDocument, uploadObject).
DocumentsAreKept ==
    /\ RefusedLeavesNothing
    /\ NeverEmptied
    /\ RefusalKeepsDocument
    /\ ObjectStays
================================================================================
