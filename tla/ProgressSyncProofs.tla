-------------------------- MODULE ProgressSyncProofs --------------------------
(***************************************************************************)
(* The documents of reading progress only grow in the destination, and an  *)
(* acknowledged save was pushed, for any number of devices, places, times, *)
(* runs and failures.                                                      *)
(*                                                                         *)
(* What a push knows of the destination may be old.  It is never ahead of  *)
(* the destination, which is what the invariant says of every document a   *)
(* device remembers or has read.  A write therefore merges into a document *)
(* that still is what was read, and once it is through the document covers *)
(* the operations that were captured before.                               *)
(***************************************************************************)
EXTENDS ProgressSync, TLAPS

\* What was acknowledged is in the destination.
AcknowledgedIsPushed ==
    \A d \in Devices : \A op \in acked[d] : remote[d].at >= op.at

\* The phases after PushDocuments has merged the captured operations.
Captured == {"snapshot", "push", "read", "merge", "saveDocument", "acknowledge"}

\* What holds of a run of device d while the documents are rem.
RunSound(d, run, rem) ==
    /\ run.phase \in Captured => \A op \in run.ops : run.docs[d].at >= op.at
    /\ run.phase = "merge" => Covers(rem[run.path], run.current)
    /\ run.phase \in {"saveDocument", "acknowledge"} => Covers(rem[run.path], run.docs[run.path])

\* The inductive invariant.
Sound ==
    /\ TypeOK
    /\ AcknowledgedIsPushed
    /\ \A d, e \in Devices : Covers(remote[e], known[d][e])
    /\ \A d \in Devices : RunSound(d, sync[d], remote)

-----------------------------------------------------------------------------
\* Merging two versions of a document gives one that covers both
\* (mergeProgressDocument).
LEMMA MergeCovers ==
    ASSUME NEW l \in Document, NEW r \in Document
    PROVE  /\ mergeProgressDocument(l, r) \in Document
           /\ Covers(mergeProgressDocument(l, r), l)
           /\ Covers(mergeProgressDocument(l, r), r)
BY DEF Document, mergeProgressDocument, Covers, Larger

\* Covering is reflexive and transitive, and nothing is covered by everything.
LEMMA CoversOrder ==
    ASSUME NEW x \in Document, NEW y \in Document, NEW z \in Document
    PROVE  /\ Covers(x, x)
           /\ Covers(x, y) /\ Covers(y, z) => Covers(x, z)
           /\ Covers(x, NoDocument)
BY DEF Document, Covers, NoDocument

\* The empty document is one.
LEMMA NothingIsADocument == NoDocument \in Document /\ NoDocuments \in Documents
BY DEF Document, NoDocument, NoDocuments, Documents

\* What was read of the destination before it grew is still covered by it.
LEMMA GrowthKeepsRun ==
    ASSUME NEW d \in Devices, NEW run \in Run, NEW rem \in Documents, NEW new \in Documents,
           \A e \in Devices : Covers(new[e], rem[e]),
           RunSound(d, run, rem)
    PROVE  RunSound(d, run, new)
<1> DEFINE p == run.path
<1>1. p \in Devices /\ run.current \in Document /\ run.docs[p] \in Document
  BY DEF Run, Documents
<1>2. rem[p] \in Document /\ new[p] \in Document /\ Covers(new[p], rem[p])
  BY <1>1 DEF Documents
<1>3. /\ Covers(rem[p], run.current) => Covers(new[p], run.current)
      /\ Covers(rem[p], run.docs[p]) => Covers(new[p], run.docs[p])
  BY <1>1, <1>2, CoversOrder
<1> QED
  BY <1>3 DEF RunSound

\* An idle run, and one that has captured nothing, are sound.
LEMMA IdleSound ==
    ASSUME NEW d \in Devices
    PROVE  /\ Idle(d) \in Run
           /\ \A rem : RunSound(d, Idle(d), rem)
<1>1. NoProgress(d) \in Progress
  BY DEF NoProgress, Progress
<1>2. Idle(d) \in Run
  BY <1>1, NothingIsADocument DEF Idle, Run, Phases
<1> QED
  BY <1>2 DEF Idle, RunSound, Captured

\* A step that leaves the destination alone or lets it grow, in which one
\* device changes its run and what it knows, and acknowledges only operations
\* that the destination covers, keeps the invariant.
LEMMA StepKeepsSound ==
    ASSUME Sound, TypeOK', NEW d \in Devices,
           \A e \in Devices : Covers(remote'[e], remote[e]),
           \A c \in Devices \ {d} : known'[c] = known[c] /\ sync'[c] = sync[c] /\ acked'[c] = acked[c],
           \A e \in Devices : Covers(remote'[e], known'[d][e]),
           RunSound(d, sync'[d], remote'),
           \A op \in acked'[d] : remote'[d].at >= op.at
    PROVE  Sound'
<1>1. remote \in Documents /\ remote' \in Documents
  BY DEF Sound, TypeOK
<1>2. AcknowledgedIsPushed'
  <2> SUFFICES ASSUME NEW c \in Devices, NEW op \in acked'[c]
               PROVE  remote'[c].at >= op.at
    BY DEF AcknowledgedIsPushed
  <2>1. CASE c = d
    BY <2>1
  <2>2. CASE c # d
    <3>1. op \in acked[c]
      BY <2>2
    <3>2. op \in Document
      BY <3>1 DEF Sound, TypeOK
    <3>3. remote[c].at >= op.at /\ Covers(remote'[c], remote[c])
      BY <3>1 DEF Sound, AcknowledgedIsPushed
    <3>4. remote[c] \in Document /\ remote'[c] \in Document
      BY <1>1 DEF Documents
    <3> QED
      BY <3>2, <3>3, <3>4 DEF Document, Covers
  <2> QED
    BY <2>1, <2>2
<1>3. \A c, e \in Devices : Covers(remote'[e], known'[c][e])
  <2> SUFFICES ASSUME NEW c \in Devices, NEW e \in Devices
               PROVE  Covers(remote'[e], known'[c][e])
    OBVIOUS
  <2>1. CASE c = d
    BY <2>1
  <2>2. CASE c # d
    <3>1. known'[c] = known[c] /\ Covers(remote[e], known[c][e]) /\ Covers(remote'[e], remote[e])
      BY <2>2 DEF Sound
    <3>2. remote[e] \in Document /\ remote'[e] \in Document /\ known[c][e] \in Document
      BY <1>1 DEF Sound, TypeOK, Documents
    <3> QED
      BY <3>1, <3>2, CoversOrder
  <2> QED
    BY <2>1, <2>2
<1>4. \A c \in Devices : RunSound(c, sync'[c], remote')
  <2> SUFFICES ASSUME NEW c \in Devices
               PROVE  RunSound(c, sync'[c], remote')
    OBVIOUS
  <2>1. CASE c = d
    BY <2>1
  <2>2. CASE c # d
    <3>1. sync'[c] = sync[c] /\ RunSound(c, sync[c], remote) /\ sync[c] \in Run
      BY <2>2 DEF Sound, TypeOK
    <3> QED
      BY <3>1, <1>1, GrowthKeepsRun
  <2> QED
    BY <2>1, <2>2
<1> QED
  BY <1>2, <1>3, <1>4 DEF Sound

-----------------------------------------------------------------------------
\* The types of what a device keeps for itself.
OwnTypes ==
    /\ cache \in [Devices -> Documents]
    /\ local \in [Devices -> Progress]
    /\ hasBook \in [Devices -> BOOLEAN]
    /\ page \in [Devices -> Nat]
    /\ clock \in [Devices -> Nat]
    /\ editing \in [Devices -> Document]
    /\ journal \in [Devices -> SUBSET Document]

\* Those types follow from the invariant, and are kept when nothing changes.
LEMMA OwnTypesStay ==
    ASSUME Sound
    PROVE  /\ OwnTypes
           /\ UNCHANGED <<cache, journal, user>> => OwnTypes'
BY DEF Sound, TypeOK, OwnTypes, user

\* What Become does to the runs.
LEMMA BecomeFields ==
    ASSUME Sound, NEW d \in Devices, NEW run \in Run, Become(d, run)
    PROVE  /\ sync' \in [Devices -> Run]
           /\ sync'[d] = run
           /\ \A c \in Devices \ {d} : sync'[c] = sync[c]
BY DEF Sound, TypeOK, Become

\* A step of a run that leaves the destination, what is known of it and the
\* acknowledgements alone.
LEMMA RunKeepsSound ==
    ASSUME Sound, NEW d \in Devices, NEW run \in Run, Become(d, run),
           RunSound(d, run, remote), UNCHANGED <<remote, known, acked>>, OwnTypes'
    PROVE  Sound'
<1>1. TypeOK'
  BY BecomeFields DEF OwnTypes, Sound, TypeOK
<1>2. \A e \in Devices : remote[e] \in Document
  BY DEF Sound, TypeOK, Documents
<1>3. \A e \in Devices : Covers(remote'[e], remote[e])
  BY <1>2, CoversOrder
<1>4. \A op \in acked'[d] : remote'[d].at >= op.at
  BY DEF Sound, AcknowledgedIsPushed
<1>5. \A e \in Devices : Covers(remote'[e], known'[d][e])
  BY DEF Sound
<1>6. RunSound(d, sync'[d], remote')
  BY BecomeFields
<1>7. \A c \in Devices \ {d} : known'[c] = known[c] /\ sync'[c] = sync[c] /\ acked'[c] = acked[c]
  BY BecomeFields
<1> QED
  BY <1>1, <1>3, <1>4, <1>5, <1>6, <1>7, StepKeepsSound

\* A step outside the runs.
LEMMA OwnKeepsSound ==
    ASSUME Sound, UNCHANGED <<remote, known, sync, acked>>, OwnTypes'
    PROVE  Sound'
BY DEF Sound, TypeOK, OwnTypes, AcknowledgedIsPushed

-----------------------------------------------------------------------------
\* The reader page and the removal of a book.
LEMMA PageKeepsSound ==
    ASSUME Sound, NEW d \in Devices,
           \/ OpenPage(d) \/ JournalProgress(d) \/ RemoveBook(d)
           \/ \E place \in 0..MaxPlace, time \in 1..MaxTime : SaveProgress(d, place, time)
    PROVE  Sound'
<1>1. OwnTypes
  BY OwnTypesStay
<1>2. CASE OpenPage(d)
  <2>1. local[d].far \in Nat
    BY <1>1 DEF OwnTypes, Progress
  <2>2. OwnTypes'
    BY <1>1, <1>2, <2>1 DEF OwnTypes, OpenPage
  <2> QED
    BY <1>2, <2>2, OwnKeepsSound DEF OpenPage
<1>3. CASE JournalProgress(d)
  <2>1. NoDocument \in Document /\ editing[d] \in Document /\ journal[d] \in SUBSET Document
    BY <1>1, NothingIsADocument DEF OwnTypes
  <2>2. editing' \in [Devices -> Document]
    BY <1>1, <1>3, <2>1 DEF OwnTypes, JournalProgress
  <2>3. journal' \in [Devices -> SUBSET Document]
    BY <1>1, <1>3, <2>1 DEF OwnTypes, JournalProgress
  <2>4. OwnTypes'
    BY <1>1, <1>3, <2>2, <2>3 DEF OwnTypes, JournalProgress
  <2> QED
    BY <1>3, <2>4, OwnKeepsSound DEF JournalProgress
<1>4. CASE RemoveBook(d)
  <2>1. NoProgress(d) \in Progress /\ NoDocuments \in Documents
    BY NothingIsADocument DEF NoProgress, Progress
  <2>2. OwnTypes'
    BY <1>1, <1>4, <2>1 DEF OwnTypes, RemoveBook
  <2> QED
    BY <1>4, <2>2, OwnKeepsSound DEF RemoveBook
<1>5. ASSUME NEW place \in 0..MaxPlace, NEW time \in 1..MaxTime, SaveProgress(d, place, time)
      PROVE  Sound'
  <2> DEFINE far == Larger(page[d], place)
  <2>1. far \in Nat /\ time \in Nat
    BY <1>1 DEF OwnTypes, Larger
  <2> HIDE DEF far
  <2>2. [dev |-> d, at |-> time, far |-> far] \in Progress /\ [at |-> time, far |-> far] \in Document
    BY <2>1 DEF Progress, Document
  <2>3. /\ page' = [page EXCEPT ![d] = far]
        /\ local' = [local EXCEPT ![d] = [dev |-> d, at |-> time, far |-> far]]
        /\ editing' = [editing EXCEPT ![d] = [at |-> time, far |-> far]]
        /\ clock' = [clock EXCEPT ![d] = time]
    BY <1>5 DEF SaveProgress, far
  <2>4. OwnTypes'
    BY <1>1, <1>5, <2>1, <2>2, <2>3 DEF OwnTypes, SaveProgress
  <2> QED
    BY <1>5, <2>4, OwnKeepsSound DEF SaveProgress
<1> QED
  BY <1>2, <1>3, <1>4, <1>5

-----------------------------------------------------------------------------
\* A run that is not past PushDocuments has nothing to answer for.
LEMMA EarlySound ==
    ASSUME NEW d \in Devices, NEW run \in Run, run.phase \notin Captured, NEW rem
    PROVE  RunSound(d, run, rem)
BY DEF RunSound, Captured

\* The starts of a run, and the pull.
LEMMA StartKeepsSound ==
    ASSUME Sound, NEW d \in Devices, runSynchronization(d) \/ synchronizePending(d)
    PROVE  Sound'
<1>1. OwnTypes /\ journal[d] \in SUBSET Document /\ Idle(d) \in Run
  BY OwnTypesStay, IdleSound DEF OwnTypes
<1>2. OwnTypes'
  BY <1>1 DEF OwnTypes, runSynchronization, synchronizePending, user
<1>3. CASE runSynchronization(d)
  <2> DEFINE run == [Idle(d) EXCEPT !.phase = "pull"]
  <2>1. run \in Run /\ run.phase = "pull"
    BY <1>1 DEF Run, Phases
  <2>2. Become(d, run) /\ known' = [known EXCEPT ![d] = remote] /\ UNCHANGED <<remote, acked>>
    BY <1>3 DEF runSynchronization
  <2> HIDE DEF run
  <2>3. remote \in Documents /\ known \in [Devices -> Documents]
    BY DEF Sound, TypeOK
  <2>4. /\ known' \in [Devices -> Documents] /\ known'[d] = remote
        /\ \A c \in Devices \ {d} : known'[c] = known[c]
    BY <2>2, <2>3
  <2>5. TypeOK'
    BY <1>2, <2>1, <2>2, <2>4, BecomeFields DEF Sound, TypeOK, OwnTypes
  <2>6. \A e \in Devices : Covers(remote'[e], remote[e]) /\ Covers(remote'[e], known'[d][e])
    BY <2>2, <2>3, <2>4, CoversOrder DEF Documents
  <2>7. RunSound(d, sync'[d], remote')
    BY <2>1, <2>2, BecomeFields, EarlySound DEF Captured
  <2>8. \A op \in acked'[d] : remote'[d].at >= op.at
    BY <2>2 DEF Sound, AcknowledgedIsPushed
  <2>9. \A c \in Devices \ {d} : known'[c] = known[c] /\ sync'[c] = sync[c] /\ acked'[c] = acked[c]
    BY <2>1, <2>2, <2>4, BecomeFields
  <2> QED
    BY <2>5, <2>6, <2>7, <2>8, <2>9, StepKeepsSound
<1>4. CASE synchronizePending(d)
  <2> DEFINE run == [Idle(d) EXCEPT !.phase = "documents", !.targeted = TRUE, !.ops = journal[d]]
  <2>1. run \in Run /\ run.phase = "documents"
    BY <1>1, Zenon DEF Run, Phases
  <2>2. Become(d, run) /\ UNCHANGED <<remote, known, acked>>
    BY <1>4 DEF synchronizePending
  <2> HIDE DEF run
  <2>3. RunSound(d, run, remote)
    BY <2>1, EarlySound DEF Captured
  <2> QED
    BY <1>2, <2>1, <2>2, <2>3, RunKeepsSound
<1> QED
  BY <1>3, <1>4

\* The merge of a pull.
LEMMA PullMergeKeepsSound ==
    ASSUME Sound, NEW d \in Devices, PullMerge(d)
    PROVE  Sound'
<1> DEFINE docs == [e \in Devices |-> mergeProgressDocument(cache[d][e], known[d][e])]
           todo == {e \in Devices : known[d][e] # NoDocument}
           run == IF hasBook[d]
                  THEN [sync[d] EXCEPT !.phase = "pullSave", !.docs = docs, !.todo = todo]
                  ELSE [sync[d] EXCEPT !.phase = "pullSave"]
<1>1. OwnTypes /\ OwnTypes' /\ sync[d] \in Run
  BY OwnTypesStay DEF PullMerge, Sound, TypeOK
<1>2. \A e \in Devices : cache[d][e] \in Document /\ known[d][e] \in Document
  BY DEF Sound, TypeOK, Documents
<1>3. docs \in Documents /\ todo \in SUBSET Devices
  BY <1>2, MergeCovers DEF Documents
<1>4. Become(d, run) /\ UNCHANGED <<remote, known, acked>>
  BY DEF PullMerge
<1> HIDE DEF docs, todo
<1>5. run \in Run /\ run.phase = "pullSave"
  BY <1>1, <1>3, Zenon DEF Run, Phases
<1> HIDE DEF run
<1>6. RunSound(d, run, remote)
  BY <1>5, EarlySound DEF Captured
<1> QED
  BY <1>1, <1>4, <1>5, <1>6, RunKeepsSound

\* The documents and the progress that a pull stores.
LEMMA PullKeepsSound ==
    ASSUME Sound, NEW d \in Devices, PullSave(d) \/ PullRead(d) \/ PullStore(d) \/ PushPending(d)
    PROVE  Sound'
<1>1. OwnTypes /\ sync[d] \in Run /\ Idle(d) \in Run /\ UNCHANGED <<remote, known, acked>>
  BY OwnTypesStay, IdleSound, Zenon
  DEF PullSave, PullRead, PullStore, PushPending, Sound, TypeOK
<1>2. CASE PullSave(d)
  <2>1. PICK e \in sync[d].todo :
          IF hasBook[d]
          THEN /\ cache' = [cache EXCEPT ![d][e] = sync[d].docs[e]]
               /\ Become(d, [sync[d] EXCEPT !.todo = @ \ {e}])
          ELSE UNCHANGED cache /\ Become(d, Idle(d))
    BY <1>2, Zenon DEF PullSave
  <2>2. e \in Devices /\ sync[d].docs[e] \in Document /\ cache[d] \in Documents
    BY <1>1, <2>1 DEF Run, Documents, OwnTypes
  <2>3. [cache[d] EXCEPT ![e] = sync[d].docs[e]] \in Documents
    BY <2>2 DEF Documents
  <2>4. cache' \in [Devices -> Documents]
    BY <1>1, <2>1, <2>3 DEF OwnTypes
  <2>5. OwnTypes'
    BY <1>1, <1>2, <2>4 DEF OwnTypes, PullSave, user
  <2> DEFINE run == IF hasBook[d] THEN [sync[d] EXCEPT !.todo = @ \ {e}] ELSE Idle(d)
  <2>6. run \in Run /\ run.phase \in {"pullSave", "idle"}
    BY <1>1, <1>2, <2>2 DEF Run, Phases, Idle, PullSave
  <2>7. Become(d, run)
    BY <2>1
  <2> HIDE DEF run
  <2>8. RunSound(d, run, remote)
    BY <2>6, EarlySound DEF Captured
  <2> QED
    BY <1>1, <2>5, <2>6, <2>7, <2>8, RunKeepsSound
<1>3. CASE PullRead(d)
  <2> DEFINE documents == {[dev |-> e, at |-> sync[d].docs[e].at, far |-> sync[d].docs[e].far] :
                             e \in {f \in Devices : sync[d].docs[f] # NoDocument}}
             all == documents \cup {local[d]}
  <2>1. PICK merged \in mergeDeviceProgress(all) :
          Become(d, IF documents = {} \/ merged = local[d]
                    THEN [Idle(d) EXCEPT !.phase = "pending"]
                    ELSE [Idle(d) EXCEPT !.phase = "pullStore", !.store = merged])
    BY <1>3, Zenon DEF PullRead
  <2>1a. sync[d].docs \in Documents
    BY <1>1 DEF Run
  <2>2. \A e \in Devices : sync[d].docs[e].at \in Nat /\ sync[d].docs[e].far \in Nat
    BY SMTT(40), <2>1a DEF Documents, Document
  <2>3. all \in SUBSET Progress
    <3>1. local[d] \in Progress
      BY <1>1 DEF OwnTypes
    <3> QED
      BY SMTT(40), <2>2, <3>1 DEF Progress
  <2> HIDE DEF all, documents
  <2>4. merged \in Progress
    BY <2>1, <2>3 DEF mergeDeviceProgress, Progress
  <2> DEFINE run == IF documents = {} \/ merged = local[d]
                    THEN [Idle(d) EXCEPT !.phase = "pending"]
                    ELSE [Idle(d) EXCEPT !.phase = "pullStore", !.store = merged]
  <2>5. run \in Run /\ run.phase \in {"pending", "pullStore"}
    BY ZenonT(40), <1>1, <2>4 DEF Run, Phases
  <2>6. Become(d, run)
    BY <2>1
  <2> HIDE DEF run
  <2>7. OwnTypes'
    BY <1>3, OwnTypesStay, Zenon DEF PullRead
  <2>8. RunSound(d, run, remote)
    BY <2>5, EarlySound DEF Captured
  <2> QED
    BY <1>1, <2>5, <2>6, <2>7, <2>8, RunKeepsSound
<1>4. CASE PullStore(d)
  <2> DEFINE run == IF hasBook[d] THEN [Idle(d) EXCEPT !.phase = "pending"] ELSE Idle(d)
  <2>1. run \in Run /\ run.phase \in {"pending", "idle"}
    BY <1>1, Zenon DEF Run, Phases, Idle
  <2>2. Become(d, run)
    BY <1>4 DEF PullStore
  <2> HIDE DEF run
  <2>3. sync[d].store \in Progress
    BY <1>1 DEF Run
  <2>4. local' \in [Devices -> Progress]
    BY <1>1, <1>4, <2>3 DEF PullStore, OwnTypes
  <2>5. OwnTypes'
    BY <1>1, <1>4, <2>4 DEF OwnTypes, PullStore
  <2>6. RunSound(d, run, remote)
    BY <2>1, EarlySound DEF Captured
  <2> QED
    BY <1>1, <2>1, <2>2, <2>5, <2>6, RunKeepsSound
<1>5. CASE PushPending(d)
  <2> DEFINE run == [sync[d] EXCEPT !.phase = "documents", !.ops = journal[d]]
  <2>1. run \in Run /\ run.phase = "documents"
    BY <1>1, Zenon DEF Run, Phases, OwnTypes
  <2>2. Become(d, run)
    BY <1>5 DEF PushPending
  <2> HIDE DEF run
  <2>3. OwnTypes'
    BY <1>5, OwnTypesStay DEF PushPending
  <2>4. RunSound(d, run, remote)
    BY <2>1, EarlySound DEF Captured
  <2> QED
    BY <1>1, <2>1, <2>2, <2>3, <2>4, RunKeepsSound
<1> QED
  BY <1>2, <1>3, <1>4, <1>5

-----------------------------------------------------------------------------
\* The document to be pushed is at least as new as every captured operation.
LEMMA PushDocumentsKeepsSound ==
    ASSUME Sound, NEW d \in Devices, PushDocuments(d)
    PROVE  Sound'
<1>1. OwnTypes /\ OwnTypes' /\ sync[d] \in Run /\ UNCHANGED <<remote, known, acked>>
  BY OwnTypesStay DEF PushDocuments, Sound, TypeOK
<1> DEFINE merged(own) == [e \in Devices |->
                              IF e = d THEN mergeProgressDocument(own, cache[d][e])
                              ELSE IF sync[d].targeted THEN NoDocument ELSE cache[d][e]]
<1>2. PICK own \in coalesceProgressOperations(sync[d].ops) :
        Become(d, [sync[d] EXCEPT !.docs = merged(own),
                                  !.todo = {e \in Devices : merged(own)[e] # NoDocument},
                                  !.phase = IF sync[d].targeted THEN "push" ELSE "snapshot"])
  BY Zenon DEF PushDocuments
<1>3. own \in Document /\ \A op \in sync[d].ops : op \in Document /\ own.at >= op.at
  BY <1>1, <1>2, NothingIsADocument DEF coalesceProgressOperations, Run
<1>4. \A e \in Devices : cache[d][e] \in Document
  BY SMTT(40), <1>1 DEF OwnTypes, Documents
<1>5. merged(own) \in Documents /\ Covers(merged(own)[d], own)
  BY SMTT(40), <1>3, <1>4, MergeCovers, NothingIsADocument DEF Documents
<1> DEFINE docs == merged(own)
           todo == {e \in Devices : docs[e] # NoDocument}
           phase == IF sync[d].targeted THEN "push" ELSE "snapshot"
           run == [sync[d] EXCEPT !.docs = docs, !.todo = todo, !.phase = phase]
<1>6. /\ docs \in Documents /\ docs[d] \in Document /\ Covers(docs[d], own)
      /\ todo \in SUBSET Devices /\ phase \in {"push", "snapshot"}
  BY <1>5 DEF Documents
<1>7. Become(d, run)
  BY <1>2
<1> HIDE DEF docs, todo, phase, merged
<1>8. run \in Run
  BY <1>1, <1>6, Zenon DEF Run, Phases
<1>9. run.phase = phase /\ run.docs = docs /\ run.ops = sync[d].ops
  BY <1>1 DEF Run
<1>10. \A op \in sync[d].ops : docs[d].at >= op.at
  BY <1>3, <1>6 DEF Covers, Document
<1> HIDE DEF run
<1>11. RunSound(d, run, remote)
  BY <1>6, <1>9, <1>10 DEF RunSound
<1> QED
  BY <1>1, <1>7, <1>8, <1>11, RunKeepsSound

\* The progress that the reader sees is merged in.
LEMMA PushSnapshotKeepsSound ==
    ASSUME Sound, NEW d \in Devices, PushSnapshot(d)
    PROVE  Sound'
<1>1. OwnTypes /\ OwnTypes' /\ sync[d] \in Run /\ UNCHANGED <<remote, known, acked>>
  BY OwnTypesStay DEF PushSnapshot, Sound, TypeOK
<1> DEFINE e == local[d].dev
           docs == [sync[d].docs EXCEPT ![e] = mergeProgressDocument(@, Doc(local[d]))]
           todo == {f \in Devices : docs[f] # NoDocument}
           run == [sync[d] EXCEPT !.docs = docs, !.todo = todo, !.phase = "push"]
<1>2. e \in Devices /\ Doc(local[d]) \in Document
  BY <1>1 DEF OwnTypes, Progress, Doc, Document
<1>3. \A f \in Devices : sync[d].docs[f] \in Document
  BY <1>1 DEF Run, Documents
<1>4. /\ mergeProgressDocument(sync[d].docs[e], Doc(local[d])) \in Document
      /\ Covers(mergeProgressDocument(sync[d].docs[e], Doc(local[d])), sync[d].docs[e])
  BY SMTT(40), <1>2, <1>3, MergeCovers
<1>5. sync[d].docs \in Documents
  BY SMTT(40), <1>1 DEF Run
<1>6. docs \in Documents
  BY SMTT(40), <1>2, <1>4, <1>5 DEF Documents
<1>7. Covers(docs[d], sync[d].docs[d])
  <2>1. CASE e = d
    BY <2>1, <1>4, <1>5 DEF Documents
  <2>2. CASE e # d
    BY SMTT(40), <2>2, <1>3, <1>5, CoversOrder DEF Documents
  <2> QED
    BY <2>1, <2>2
<1>8. Become(d, run) /\ sync[d].phase = "snapshot"
  BY DEF PushSnapshot
<1>9. todo \in SUBSET Devices
  OBVIOUS
<1> HIDE DEF docs, todo, e
<1>10. run \in Run
  BY <1>1, <1>6, <1>9, ZenonT(30) DEF Run, Phases
<1>11. run.phase = "push" /\ run.docs = docs /\ run.ops = sync[d].ops
  BY <1>1 DEF Run
<1>12. \A op \in sync[d].ops : op \in Document /\ sync[d].docs[d].at >= op.at
  BY <1>1, <1>8 DEF Sound, RunSound, Captured, Run
<1>13. docs[d] \in Document /\ sync[d].docs[d] \in Document
  BY <1>3, <1>6 DEF Documents
<1>14. \A op \in sync[d].ops : docs[d].at >= op.at
  BY <1>7, <1>12, <1>13 DEF Covers, Document
<1> HIDE DEF run
<1>15. RunSound(d, run, remote)
  BY <1>11, <1>14 DEF RunSound
<1> QED
  BY <1>1, <1>8, <1>10, <1>15, RunKeepsSound

\* The next document is pushed from what is known of it.
LEMMA PushNextKeepsSound ==
    ASSUME Sound, NEW d \in Devices, PushNext(d)
    PROVE  Sound'
<1>1. OwnTypes' /\ sync[d] \in Run /\ UNCHANGED <<remote, known, acked>> /\ sync[d].phase = "push"
  BY OwnTypesStay, Zenon DEF PushNext, Sound, TypeOK
<1>2. CASE Become(d, Idle(d))
  BY <1>1, <1>2, IdleSound, RunKeepsSound
<1>3. ASSUME NEW e \in sync[d].todo,
             Become(d, [sync[d] EXCEPT
                           !.path = e, !.attempt = 0, !.current = known[d][e],
                           !.phase = IF sync[d].targeted /\ known[d][e] = NoDocument
                                     THEN "read" ELSE "merge"])
      PROVE  Sound'
  <2> DEFINE phase == IF sync[d].targeted /\ known[d][e] = NoDocument THEN "read" ELSE "merge"
             run == [sync[d] EXCEPT !.path = e, !.attempt = 0, !.current = known[d][e], !.phase = phase]
  <2>1. e \in Devices
    BY SMTT(40), <1>1 DEF Run
  <2>2. known[d][e] \in Document /\ Covers(remote[e], known[d][e]) /\ phase \in {"read", "merge"}
    BY <2>1 DEF Sound, TypeOK, Documents
  <2>3. Become(d, run)
    BY <1>3
  <2> HIDE DEF phase
  <2>4. run \in Run
    BY ZenonT(40), <1>1, <2>1, <2>2 DEF Run, Phases
  <2>5. /\ run.phase = phase /\ run.docs = sync[d].docs /\ run.ops = sync[d].ops
        /\ run.path = e /\ run.current = known[d][e]
    BY <1>1 DEF Run
  <2>6. \A op \in sync[d].ops : sync[d].docs[d].at >= op.at
    BY <1>1 DEF Sound, RunSound, Captured
  <2> HIDE DEF run
  <2>7. RunSound(d, run, remote)
    BY <2>2, <2>5, <2>6 DEF RunSound
  <2> QED
    BY <1>1, <2>3, <2>4, <2>7, RunKeepsSound
<1> QED
  BY <1>2, <1>3, Zenon DEF PushNext

\* A step of a run of d that changes what d knows of the document it pushes to
\* something that the destination covers, and lets the destination grow.
LEMMA KnowingKeepsSound ==
    ASSUME Sound, NEW d \in Devices, NEW run \in Run, Become(d, run),
           NEW p \in Devices, NEW doc \in Document,
           known' = [known EXCEPT ![d][p] = doc],
           remote' \in Documents,
           \A e \in Devices : Covers(remote'[e], remote[e]),
           Covers(remote'[p], doc),
           RunSound(d, run, remote'),
           OwnTypes', UNCHANGED acked
    PROVE  Sound'
<1>1. remote \in Documents /\ known \in [Devices -> Documents] /\ acked \in [Devices -> SUBSET Document]
  BY DEF Sound, TypeOK
<1>2. known[d] \in Documents
  BY <1>1
<1>3. [known[d] EXCEPT ![p] = doc] \in Documents
  BY <1>2 DEF Documents
<1>4. /\ known' \in [Devices -> Documents] /\ known'[d] = [known[d] EXCEPT ![p] = doc]
      /\ \A c \in Devices \ {d} : known'[c] = known[c]
  BY <1>1, <1>3
<1>5. TypeOK'
  BY <1>1, <1>4, BecomeFields DEF TypeOK, OwnTypes
<1>6. ASSUME NEW e \in Devices
      PROVE  Covers(remote'[e], known'[d][e])
  <2>1. CASE e = p
    BY <1>2, <1>4, <2>1 DEF Documents
  <2>2. CASE e # p
    <3>1. known'[d][e] = known[d][e]
      BY <1>2, <1>4, <2>2 DEF Documents
    <3>2. Covers(remote[e], known[d][e]) /\ Covers(remote'[e], remote[e])
      BY DEF Sound
    <3>3. remote[e] \in Document /\ remote'[e] \in Document /\ known[d][e] \in Document
      BY <1>1, <1>2 DEF Documents
    <3> QED
      BY <3>1, <3>2, <3>3, CoversOrder
  <2> QED
    BY <2>1, <2>2
<1>7. RunSound(d, sync'[d], remote')
  BY BecomeFields
<1>8. \A op \in acked'[d] : remote'[d].at >= op.at
  <2> SUFFICES ASSUME NEW op \in acked[d]
               PROVE  remote'[d].at >= op.at
    OBVIOUS
  <2>1. op \in Document /\ remote[d].at >= op.at /\ Covers(remote'[d], remote[d])
    BY <1>1 DEF Sound, AcknowledgedIsPushed
  <2>2. remote[d] \in Document /\ remote'[d] \in Document
    BY SMTT(40), <1>1 DEF Documents
  <2> QED
    BY <2>1, <2>2 DEF Document, Covers
<1>9. \A c \in Devices \ {d} : known'[c] = known[c] /\ sync'[c] = sync[c] /\ acked'[c] = acked[c]
  BY <1>4, BecomeFields
<1> QED
  BY <1>5, <1>6, <1>7, <1>8, <1>9, StepKeepsSound

-----------------------------------------------------------------------------
\* What is read of a document.
LEMMA PushReadKeepsSound ==
    ASSUME Sound, NEW d \in Devices, PushRead(d)
    PROVE  Sound'
<1> DEFINE p == sync[d].path
           run == [sync[d] EXCEPT !.phase = "merge", !.current = remote[p]]
<1>1. OwnTypes' /\ sync[d] \in Run /\ UNCHANGED <<remote, acked>> /\ sync[d].phase = "read"
  BY SMTT(40), OwnTypesStay DEF PushRead, Sound, TypeOK, OwnTypes, user
<1>2. p \in Devices /\ remote \in Documents
  BY <1>1 DEF Run, Sound, TypeOK
<1>3. remote[p] \in Document /\ \A e \in Devices : Covers(remote[e], remote[e])
  BY <1>2, CoversOrder DEF Documents
<1>4. Become(d, run) /\ known' = [known EXCEPT ![d][p] = remote[p]]
  BY DEF PushRead
<1>5. /\ run \in Run /\ run.phase = "merge" /\ run.docs = sync[d].docs /\ run.ops = sync[d].ops
      /\ run.path = p /\ run.current = remote[p]
  BY ZenonT(40), <1>1, <1>3 DEF Run, Phases
<1>6. \A op \in sync[d].ops : sync[d].docs[d].at >= op.at
  BY SMTT(40), <1>1 DEF Sound, RunSound, Captured
<1> HIDE DEF run, p
<1>7. RunSound(d, run, remote')
  BY SMTT(40), <1>1, <1>2, <1>3, <1>5, <1>6 DEF RunSound
<1> QED
  BY <1>1, <1>2, <1>3, <1>4, <1>5, <1>7, KnowingKeepsSound, Zenon

\* What pushProgress makes of the document it read covers that document, the
\* one it pushes and the captured operations.
LEMMA RunMerged ==
    ASSUME NEW d \in Devices, NEW r \in Run, NEW rem, RunSound(d, r, rem), r.phase = "merge"
    PROVE  /\ r.path \in Devices
           /\ Merged(r) \in Document
           /\ Covers(Merged(r), r.current)
           /\ Covers(rem[r.path], r.current)
           /\ Pushed(r) \in Run
           /\ Pushed(r).phase = "saveDocument"
           /\ Pushed(r).path = r.path
           /\ Pushed(r).docs[r.path] = Merged(r)
           /\ \A op \in Pushed(r).ops : Pushed(r).docs[d].at >= op.at
<1> DEFINE p == r.path
           docs == [r.docs EXCEPT ![p] = Merged(r)]
<1>1. p \in Devices /\ r.current \in Document /\ r.docs \in Documents /\ r.ops \in SUBSET Document
  BY DEF Run
<1>2. r.docs[p] \in Document /\ r.docs[d] \in Document
  BY SMTT(40), <1>1 DEF Documents
<1>3. Merged(r) \in Document /\ Covers(Merged(r), r.current) /\ Covers(Merged(r), r.docs[p])
  BY <1>1, <1>2, MergeCovers DEF Merged
<1>4. Covers(rem[p], r.current) /\ \A op \in r.ops : r.docs[d].at >= op.at
  BY DEF RunSound, Captured
<1>5. docs \in Documents /\ docs[p] = Merged(r)
  BY SMTT(40), <1>1, <1>3 DEF Documents
<1>6. Covers(docs[d], r.docs[d]) /\ docs[d] \in Document
  <2>1. CASE d = p
    BY <1>3, <1>5, <2>1
  <2>2. CASE d # p
    BY <1>1, <1>2, <2>2, CoversOrder DEF Documents
  <2> QED
    BY <2>1, <2>2
<1>7. Pushed(r) = [r EXCEPT !.phase = "saveDocument", !.docs = docs]
  BY DEF Pushed, Run
<1> HIDE DEF docs
<1>8. /\ Pushed(r) \in Run /\ Pushed(r).phase = "saveDocument" /\ Pushed(r).path = p
      /\ Pushed(r).docs = docs /\ Pushed(r).ops = r.ops
  BY ZenonT(40), <1>5, <1>7 DEF Run, Phases
<1>9. \A op \in r.ops : docs[d].at >= op.at
  BY <1>1, <1>2, <1>4, <1>6 DEF Covers, Document
<1> QED
  BY <1>1, <1>3, <1>4, <1>5, <1>8, <1>9

\* The same of the run of a device.
LEMMA MergedCovers ==
    ASSUME Sound, NEW d \in Devices, sync[d].phase = "merge"
    PROVE  /\ sync[d].path \in Devices
           /\ Merged(sync[d]) \in Document
           /\ Covers(Merged(sync[d]), sync[d].current)
           /\ Covers(remote[sync[d].path], sync[d].current)
           /\ Pushed(sync[d]) \in Run
           /\ Pushed(sync[d]).phase = "saveDocument"
           /\ Pushed(sync[d]).path = sync[d].path
           /\ Pushed(sync[d]).docs[sync[d].path] = Merged(sync[d])
           /\ \A op \in Pushed(sync[d]).ops : Pushed(sync[d]).docs[d].at >= op.at
<1>1. sync[d] \in Run /\ RunSound(d, sync[d], remote)
  BY SMTT(40) DEF Sound, TypeOK
<1> QED
  BY <1>1, RunMerged, Zenon

\* The document holds everything already.
LEMMA PushEqualKeepsSound ==
    ASSUME Sound, NEW d \in Devices, PushEqual(d)
    PROVE  Sound'
<1>1. /\ OwnTypes' /\ UNCHANGED <<remote, known, acked>> /\ sync[d].phase = "merge"
      /\ Become(d, Pushed(sync[d])) /\ Merged(sync[d]) = sync[d].current
  BY SMTT(40), OwnTypesStay DEF PushEqual
<1> DEFINE run == Pushed(sync[d])
<1>2. /\ run \in Run /\ run.phase = "saveDocument" /\ run.path = sync[d].path
      /\ Covers(remote[run.path], run.docs[run.path])
      /\ \A op \in run.ops : run.docs[d].at >= op.at
  BY ZenonT(40), <1>1, MergedCovers
<1> HIDE DEF run
<1>3. RunSound(d, run, remote)
  BY SMTT(40), <1>2 DEF RunSound
<1>4. Become(d, run)
  BY <1>1 DEF run
<1> QED
  BY SMTT(40), <1>1, <1>2, <1>3, <1>4, RunKeepsSound

\* A write that the destination accepts lets it grow.
LEMMA WriteGrows ==
    ASSUME Sound, NEW d \in Devices, sync[d].phase = "merge", WriteDocument(sync[d])
    PROVE  /\ remote' \in Documents
           /\ remote'[sync[d].path] = Merged(sync[d])
           /\ \A e \in Devices : Covers(remote'[e], remote[e])
<1> DEFINE p == sync[d].path
           m == Merged(sync[d])
<1>1. p \in Devices /\ m \in Document /\ Covers(m, sync[d].current)
  BY MergedCovers
<1>2. remote[p] = sync[d].current /\ remote' = [remote EXCEPT ![p] = m]
  BY DEF WriteDocument
<1>3. remote \in Documents /\ \A e \in Devices : remote[e] \in Document
  BY DEF Sound, TypeOK, Documents
<1> HIDE DEF p, m
<1>4. remote' \in Documents /\ remote'[p] = m /\ \A e \in Devices \ {p} : remote'[e] = remote[e]
  BY SMTT(40), <1>1, <1>2, <1>3 DEF Documents
<1>5. \A e \in Devices : Covers(remote'[e], remote[e])
  BY <1>1, <1>2, <1>3, <1>4, CoversOrder
<1> QED
  BY SMTT(40), <1>4, <1>5 DEF p, m

\* The write of a push, accepted or refused.
LEMMA PushWriteKeepsSound ==
    ASSUME Sound, NEW d \in Devices, PushWrite(d)
    PROVE  Sound'
<1>1. OwnTypes' /\ UNCHANGED acked /\ sync[d].phase = "merge" /\ sync[d] \in Run
  BY OwnTypesStay DEF PushWrite, Sound, TypeOK, OwnTypes, user
<1>2. CASE /\ WriteDocument(sync[d])
           /\ known' = [known EXCEPT ![d][sync[d].path] = Merged(sync[d])]
           /\ Become(d, Pushed(sync[d]))
  <2> DEFINE run == Pushed(sync[d])
             p == sync[d].path
             m == Merged(sync[d])
  <2>1. /\ p \in Devices /\ m \in Document /\ run \in Run /\ run.phase = "saveDocument" /\ run.path = p
        /\ run.docs[p] = m
        /\ \A op \in run.ops : run.docs[d].at >= op.at
    BY <1>1, MergedCovers
  <2>2. remote' \in Documents /\ remote'[p] = m /\ \A e \in Devices : Covers(remote'[e], remote[e])
    BY <1>1, <1>2, WriteGrows
  <2>3. Become(d, run) /\ known' = [known EXCEPT ![d][p] = m]
    BY SMTT(40), <1>2
  <2> HIDE DEF run, p, m
  <2>4. Covers(remote'[p], m)
    BY SMTT(40), <2>1, <2>2, CoversOrder
  <2>5. RunSound(d, run, remote')
    BY <2>1, <2>4 DEF RunSound
  <2> QED
    BY ZenonT(40), <1>1, <2>1, <2>2, <2>3, <2>4, <2>5, KnowingKeepsSound
<1>3. CASE /\ Become(d, IF sync[d].attempt < MaxConflictRetries
                        THEN [sync[d] EXCEPT !.phase = "read", !.attempt = @ + 1] ELSE Idle(d))
           /\ UNCHANGED <<remote, known>>
  <2>1. CASE Become(d, Idle(d))
    BY <1>1, <1>3, <2>1, IdleSound, RunKeepsSound
  <2>2. CASE Become(d, [sync[d] EXCEPT !.phase = "read", !.attempt = @ + 1])
    <3> DEFINE run == [sync[d] EXCEPT !.phase = "read", !.attempt = @ + 1]
    <3>0. sync[d].attempt + 1 \in Nat
      BY <1>1 DEF Run
    <3>1. run \in Run /\ run.phase = "read" /\ run.docs = sync[d].docs /\ run.ops = sync[d].ops
      BY ZenonT(40), <1>1, <3>0 DEF Run, Phases
    <3>2. \A op \in sync[d].ops : sync[d].docs[d].at >= op.at
      BY ZenonT(40), <1>1 DEF Sound, RunSound, Captured
    <3> HIDE DEF run
    <3>3. RunSound(d, run, remote)
      BY <3>1, <3>2 DEF RunSound
    <3>4. Become(d, run)
      BY <2>2 DEF run
    <3> QED
      BY SMTT(40), <1>1, <1>3, <3>1, <3>3, <3>4, RunKeepsSound
  <2> QED
    BY <1>3, <2>1, <2>2
<1> QED
  BY <1>2, <1>3 DEF PushWrite

\* The document is stored on the device.
LEMMA SaveDocumentKeepsSound ==
    ASSUME Sound, NEW d \in Devices, SaveDocument(d)
    PROVE  Sound'
<1> DEFINE p == sync[d].path
<1>1. /\ OwnTypes /\ sync[d] \in Run /\ sync[d].phase = "saveDocument" /\ UNCHANGED <<remote, known, acked>>
  BY SMTT(40), OwnTypesStay DEF SaveDocument, Sound, TypeOK
<1>2. p \in Devices /\ sync[d].docs[p] \in Document /\ cache[d] \in Documents
  BY SMTT(40), <1>1 DEF Run, Documents, OwnTypes
<1>3. CASE hasBook[d]
  <2> DEFINE run == [sync[d] EXCEPT !.phase = "acknowledge"]
  <2>1. [cache[d] EXCEPT ![p] = sync[d].docs[p]] \in Documents
    BY <1>2 DEF Documents
  <2>2. cache' \in [Devices -> Documents]
    BY <1>1, <1>3, <2>1, ZenonT(30) DEF SaveDocument, OwnTypes
  <2>3. OwnTypes'
    BY <1>1, <2>2 DEF SaveDocument, OwnTypes, user
  <2>4. /\ run \in Run /\ run.phase = "acknowledge" /\ run.docs = sync[d].docs /\ run.ops = sync[d].ops
        /\ run.path = p
    BY SMTT(40), <1>1 DEF Run, Phases
  <2>5. /\ \A op \in sync[d].ops : sync[d].docs[d].at >= op.at
        /\ Covers(remote[p], sync[d].docs[p])
    BY <1>1 DEF Sound, RunSound, Captured
  <2>6. Become(d, run)
    BY SMTT(40), <1>3 DEF SaveDocument
  <2> HIDE DEF run, p
  <2>7. RunSound(d, run, remote)
    BY SMTT(40), <2>4, <2>5 DEF RunSound
  <2> QED
    BY SMTT(40), <1>1, <2>3, <2>4, <2>6, <2>7, RunKeepsSound
<1>4. CASE ~hasBook[d]
  <2>1. UNCHANGED cache /\ Become(d, Idle(d))
    BY <1>4 DEF SaveDocument
  <2>2. OwnTypes'
    BY <2>1, OwnTypesStay, SMTT(30) DEF SaveDocument
  <2> QED
    BY Zenon, <1>1, <2>1, <2>2, IdleSound, RunKeepsSound
<1> QED
  BY <1>3, <1>4

\* What is acknowledged was captured before the document was merged.
LEMMA AcknowledgeKeepsSound ==
    ASSUME Sound, NEW d \in Devices, Acknowledge(d)
    PROVE  Sound'
<1> DEFINE p == sync[d].path
           run == [sync[d] EXCEPT !.phase = "push", !.todo = @ \ {p}]
<1>1. /\ OwnTypes /\ sync[d] \in Run /\ sync[d].phase = "acknowledge" /\ UNCHANGED <<remote, known>>
      /\ Become(d, run)
  BY OwnTypesStay DEF Acknowledge, Sound, TypeOK
<1>2. /\ p \in Devices /\ sync[d].docs[d] \in Document
      /\ sync[d].ops \in SUBSET Document /\ journal[d] \in SUBSET Document
  BY <1>1 DEF Run, Documents, OwnTypes
<1>3. /\ \A op \in sync[d].ops : sync[d].docs[d].at >= op.at
      /\ Covers(remote[p], sync[d].docs[p])
  BY <1>1 DEF Sound, RunSound, Captured
<1>4. /\ run \in Run /\ run.phase = "push" /\ run.docs = sync[d].docs /\ run.ops = sync[d].ops
  BY <1>1, <1>2, Zenon DEF Run, Phases
<1>5. remote \in Documents /\ known \in [Devices -> Documents] /\ acked \in [Devices -> SUBSET Document]
  BY SMTT(30) DEF Sound, TypeOK
<1> HIDE DEF run
<1>6. RunSound(d, run, remote)
  BY ZenonT(40), <1>3, <1>4 DEF RunSound
<1>7. \A e \in Devices : remote[e] \in Document /\ Covers(remote[e], remote[e])
  BY <1>5, CoversOrder DEF Documents
<1>8. p = d => \A op \in sync[d].ops : remote[d].at >= op.at
  <2> SUFFICES ASSUME p = d, NEW op \in sync[d].ops
               PROVE  remote[d].at >= op.at
    OBVIOUS
  <2>1. op \in Document /\ sync[d].docs[d].at >= op.at /\ Covers(remote[d], sync[d].docs[d])
    BY <1>2, <1>3
  <2> QED
    BY <1>2, <1>7, <2>1 DEF Document, Covers
<1>9. \A op \in acked[d] : remote[d].at >= op.at
  BY DEF Sound, AcknowledgedIsPushed
<1>10. /\ journal' \in [Devices -> SUBSET Document] /\ acked' \in [Devices -> SUBSET Document]
       /\ \A c \in Devices \ {d} : acked'[c] = acked[c]
       /\ \A op \in acked'[d] : remote[d].at >= op.at
  <2>1. CASE p = d
    <3>1. /\ journal' = [journal EXCEPT ![d] = @ \ sync[d].ops]
          /\ acked' = [acked EXCEPT ![d] = @ \cup sync[d].ops]
      BY <2>1 DEF Acknowledge
    <3> QED
      BY <1>1, <1>2, <1>5, <1>8, <1>9, <2>1, <3>1 DEF OwnTypes
  <2>2. CASE p # d
    BY <1>1, <1>5, <1>9, <2>2 DEF Acknowledge, OwnTypes
  <2> QED
    BY SMTT(40), <2>1, <2>2
<1>11. OwnTypes'
  BY SMTT(40), <1>1, <1>10 DEF Acknowledge, OwnTypes, user
<1>12. TypeOK'
  BY ZenonT(40), <1>1, <1>4, <1>5, <1>10, <1>11, BecomeFields DEF TypeOK, OwnTypes
<1>13. \A e \in Devices : Covers(remote'[e], known'[d][e])
  BY SMTT(40), <1>1 DEF Sound
<1>14. RunSound(d, sync'[d], remote')
  BY SMTT(40), <1>1, <1>4, <1>6, BecomeFields
<1>15. \A c \in Devices \ {d} : known'[c] = known[c] /\ sync'[c] = sync[c] /\ acked'[c] = acked[c]
  BY SMTT(40), <1>1, <1>4, <1>10, BecomeFields
<1>16. /\ \A e \in Devices : Covers(remote'[e], remote[e])
       /\ \A op \in acked'[d] : remote'[d].at >= op.at
  BY <1>1, <1>7, <1>10
<1> QED
  BY <1>12, <1>13, <1>14, <1>15, <1>16, StepKeepsSound, Zenon

\* A call that fails, carried out or not, and a restart.
LEMMA FailKeepsSound ==
    ASSUME Sound, NEW d \in Devices, Fail(d)
    PROVE  /\ Sound'
           /\ \A e \in Devices : Covers(remote'[e], remote[e])
<1>0. /\ Become(d, Idle(d)) /\ UNCHANGED <<cache, journal, acked, user>>
      /\ (known' = [known EXCEPT ![d] = NoDocuments] \/ known' = known)
  BY Zenon DEF Fail
<1>1. remote \in Documents /\ known \in [Devices -> Documents] /\ acked \in [Devices -> SUBSET Document]
  BY DEF Sound, TypeOK
<1>2. remote' \in Documents /\ \A e \in Devices : Covers(remote'[e], remote[e])
  <2>1. CASE UNCHANGED remote
    BY SMTT(40), <1>1, <2>1, CoversOrder DEF Documents
  <2>2. CASE sync[d].phase = "merge" /\ WriteDocument(sync[d])
    BY <2>2, WriteGrows
  <2> QED
    BY <2>1, <2>2 DEF Fail
<1>3. /\ known' \in [Devices -> Documents]
      /\ \A c \in Devices \ {d} : known'[c] = known[c]
      /\ known'[d] \in {known[d], NoDocuments}
  BY <1>0, <1>1, NothingIsADocument
<1>4. Become(d, Idle(d)) /\ Idle(d) \in Run /\ UNCHANGED acked
  BY <1>0, IdleSound, Zenon
<1>5. OwnTypes'
  BY <1>0, OwnTypesStay DEF OwnTypes, user
<1>6. sync' \in [Devices -> Run]
  BY <1>4, BecomeFields, Zenon
<1>6a. TypeOK'
  BY <1>1, <1>2, <1>3, <1>4, <1>5, <1>6 DEF TypeOK, OwnTypes
<1>7. ASSUME NEW e \in Devices
      PROVE  Covers(remote'[e], known'[d][e])
  <2>1. remote[e] \in Document /\ remote'[e] \in Document /\ known[d][e] \in Document
    BY SMTT(40), <1>1, <1>2 DEF Documents
  <2>2. Covers(remote[e], known[d][e]) /\ Covers(remote'[e], remote[e])
    BY <1>2 DEF Sound
  <2>3. Covers(remote'[e], known[d][e]) /\ Covers(remote'[e], NoDocument)
    BY <2>1, <2>2, CoversOrder
  <2> QED
    BY <1>3, <2>3 DEF NoDocuments
<1>8. RunSound(d, sync'[d], remote')
  BY <1>4, BecomeFields, IdleSound
<1>9. \A op \in acked'[d] : remote'[d].at >= op.at
  <2> SUFFICES ASSUME NEW op \in acked[d]
               PROVE  remote'[d].at >= op.at
    BY SMTT(40), <1>4
  <2>1. op \in Document /\ remote[d].at >= op.at /\ Covers(remote'[d], remote[d])
    BY <1>1, <1>2 DEF Sound, AcknowledgedIsPushed
  <2>2. remote[d] \in Document /\ remote'[d] \in Document
    BY SMTT(40), <1>1, <1>2 DEF Documents
  <2> QED
    BY SMTT(40), <2>1, <2>2 DEF Document, Covers
<1>10. \A c \in Devices \ {d} : known'[c] = known[c] /\ sync'[c] = sync[c] /\ acked'[c] = acked[c]
  BY <1>3, <1>4, BecomeFields
<1>11. Sound'
  BY <1>2, <1>6a, <1>7, <1>8, <1>9, <1>10, StepKeepsSound, Zenon
<1> QED
  BY <1>2, <1>11

-----------------------------------------------------------------------------
\* Every step keeps the invariant, and lets the documents grow.
LEMMA NextKeepsSound ==
    ASSUME Sound, [Next]_vars
    PROVE  Sound' /\ [DocumentsGrow]_vars
<1>1. CASE UNCHANGED vars
  <2>1. UNCHANGED <<remote, known, sync, acked>> /\ OwnTypes'
    BY SMTT(40), <1>1, OwnTypesStay DEF vars, user
  <2> QED
    BY <1>1, <2>1, OwnKeepsSound
<1>2. ASSUME NEW d \in Devices,
             \/ OpenPage(d)
             \/ \E place \in 0..MaxPlace, time \in 1..MaxTime : SaveProgress(d, place, time)
             \/ JournalProgress(d) \/ RemoveBook(d)
             \/ SyncStep(d) \/ Fail(d)
      PROVE  Sound' /\ [DocumentsGrow]_vars
  <2>1. Sound'
    BY ZenonT(40), <1>2, PageKeepsSound, StartKeepsSound, PullMergeKeepsSound,
       PullKeepsSound, PushDocumentsKeepsSound,
       PushSnapshotKeepsSound, PushNextKeepsSound, PushReadKeepsSound, PushEqualKeepsSound,
       PushWriteKeepsSound, SaveDocumentKeepsSound, AcknowledgeKeepsSound, FailKeepsSound
       DEF SyncStep
  <2>2. \A e \in Devices : remote[e] \in Document
    BY DEF Sound, TypeOK, Documents
  <2>3. remote' = remote => DocumentsGrow
    BY SMTT(40), <2>2, CoversOrder DEF DocumentsGrow
  <2>4. sync[d].phase = "merge" /\ WriteDocument(sync[d]) => DocumentsGrow
    BY WriteGrows, SMTT(30) DEF DocumentsGrow
  <2>5. UNCHANGED remote \/ (sync[d].phase = "merge" /\ WriteDocument(sync[d]))
    BY ZenonT(40), <1>2
    DEF OpenPage, SaveProgress, JournalProgress, RemoveBook, SyncStep, Fail,
       runSynchronization, synchronizePending, PullMerge, PullSave, PullRead, PullStore, PushPending,
       PushDocuments, PushSnapshot, PushNext, PushRead, PushEqual, PushWrite, SaveDocument, Acknowledge
  <2> QED
    BY <2>1, <2>3, <2>4, <2>5, SMTT(30)
<1> QED
  BY <1>1, <1>2 DEF Next

\* Nothing is known, captured or acknowledged at first.
LEMMA InitSound ==
    ASSUME Init
    PROVE  Sound
<1>1. /\ NoDocument \in Document /\ NoDocuments \in Documents
      /\ \A d \in Devices : Idle(d) \in Run /\ NoProgress(d) \in Progress
  BY NothingIsADocument, IdleSound DEF NoProgress, Progress
<1>2. TypeOK
  BY <1>1 DEF Init, TypeOK
<1>3. \A e \in Devices : Covers(NoDocuments[e], NoDocuments[e])
  BY <1>1, CoversOrder, SMTT(30) DEF Documents
<1> QED
  BY ZenonT(40), <1>2, <1>3, IdleSound DEF Init, Sound, AcknowledgedIsPushed

\* An acknowledged save was pushed, and no document of the destination becomes
\* older or less far, however many devices push, fail and restart at once
\* (ProgressSyncService.pushProgress, mergeProgressDocument).
THEOREM ProgressIsNeverLost == Spec => ProgressIsKept
<1>1. Sound => \A d \in Devices : \A op \in acked[d] : remote[d].at >= op.at
  BY DEF Sound, AcknowledgedIsPushed
<1> QED
  BY <1>1, InitSound, NextKeepsSound, PTL DEF Spec, ProgressIsKept
=============================================================================
