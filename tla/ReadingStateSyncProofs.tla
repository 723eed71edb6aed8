----------------------- MODULE ReadingStateSyncProofs -----------------------
(***************************************************************************)
(* Proofs for ReadingStateSync, for every set of devices and all bounds.   *)
(***************************************************************************)
EXTENDS ReadingStateSync, TLAPS

\* AtLeast is the reflexive order that preferredBookmark follows.
LEMMA AtLeastReflexive ==
    ASSUME NEW a \in Record
    PROVE  AtLeast(a, a)
  BY DevicesAssumption, BoundsAssumption DEF Record, Version, NoRecord, AtLeast, Newer

\* AtLeast is transitive: what supersedes a superseding version supersedes it too.
LEMMA AtLeastTransitive ==
    ASSUME NEW a \in Record, NEW b \in Record, NEW c \in Record,
           AtLeast(a, b), AtLeast(b, c)
    PROVE  AtLeast(a, c)
  BY DevicesAssumption, BoundsAssumption DEF Record, Version, NoRecord, AtLeast, Newer

\* A version that compareBookmarks ranks higher is at least the other.
LEMMA NewerIsAtLeast ==
    ASSUME NEW a \in Record, NEW b \in Record, Newer(a, b)
    PROVE  AtLeast(a, b)
  BY DevicesAssumption, BoundsAssumption DEF Record, Version, NoRecord, AtLeast, Newer

\* A write of the candidate raises the document, and a remote record that is
\* kept is at least the candidate.
LEMMA PreferredKeepsOrder ==
    ASSUME NEW kept \in Record, NEW incoming \in Record
    PROVE  /\ Preferred(kept, incoming) = kept => AtLeast(kept, incoming)
           /\ Preferred(kept, incoming) # kept => Newer(incoming, kept)
  BY AtLeastReflexive, NewerIsAtLeast DEF Preferred, AtLeast

\* The locals of a run stay of their type when the run moves on.
LEMMA IdleTyped == Idle \in SyncState
  BY BoundsAssumption DEF Idle, SyncState, Phases, Record

\* A typed new state of one run keeps all runs typed.
LEMMA BecomeTyped ==
    ASSUME TypeOK, NEW d \in Devices, NEW state \in SyncState, Become(d, state)
    PROVE  sync' \in [Devices -> SyncState]
  BY DEF TypeOK, Become

\* The field updates that the steps of a run make keep its locals typed.
LEMMA MoveTyped ==
    ASSUME NEW state \in SyncState, NEW phase \in Phases,
           NEW current \in Record, NEW candidate \in Record,
           NEW ops \in SUBSET Operation
    PROVE  /\ [state EXCEPT !.phase = phase] \in SyncState
           /\ [state EXCEPT !.phase = phase, !.current = current] \in SyncState
           /\ [state EXCEPT !.phase = phase, !.ops = ops] \in SyncState
           /\ [state EXCEPT !.phase = phase, !.targeted = TRUE, !.ops = ops]
                \in SyncState
           /\ [state EXCEPT !.candidate = candidate, !.targeted = FALSE, !.phase = phase]
                \in SyncState
  BY Zenon DEF SyncState

\* So does the step to the acknowledgement.
LEMMA WrittenTyped ==
    ASSUME NEW state \in SyncState
    PROVE  Written(state) \in SyncState
<1>1. 0 \in 0..MaxConflictRetries
  BY BoundsAssumption
<1>2. "acknowledge" \in Phases /\ NoRecord \in Record
  BY DEF Phases, Record
<1>3. QED
  BY Zenon, <1>1, <1>2 DEF Written, SyncState

\* Every step keeps the state typed.
LEMMA TypeStep ==
    ASSUME TypeOK, [Next]_vars
    PROVE  TypeOK'
<1> USE BoundsAssumption, DevicesAssumption
<1>1. ASSUME NEW d \in Devices, NEW version \in Version, EditSave(d, version)
      PROVE  TypeOK'
  BY <1>1 DEF EditSave, TypeOK, Record, Version
<1>2. ASSUME NEW d \in Devices, EditJournal(d)  PROVE  TypeOK'
  <2>1. editing[d] \in Version
    BY <1>2 DEF EditJournal, TypeOK, Record
  <2>2. [version |-> editing[d], revision |-> revision[d] + 1] \in Operation
    BY <2>1 DEF TypeOK, Operation
  <2>3. QED
    BY <1>2, <2>2 DEF EditJournal, TypeOK, Record
<1>3. ASSUME NEW d \in Devices, EditJournalFails(d)  PROVE  TypeOK'
  BY <1>3 DEF EditJournalFails, TypeOK, Record
<1>4. ASSUME NEW d \in Devices, RemoveBook(d)  PROVE  TypeOK'
  BY <1>4 DEF RemoveBook, TypeOK, Record
<1>5. ASSUME NEW d \in Devices, SyncStep(d)  PROVE  TypeOK'
  <2> sync[d] \in SyncState /\ local[d] \in Record /\ journal[d] \in SUBSET Operation
    BY DEF TypeOK
  <2> remote \in Record /\ sync[d].current \in Record /\ sync[d].candidate \in Record
    BY DEF TypeOK, SyncState
  <2> Phases = {"idle", "pull", "pullSave", "pending", "snapshot", "read", "merge",
                "acknowledge"}
    BY DEF Phases
  <2>1. CASE StartFull(d)
    <3>1. sync' \in [Devices -> SyncState]
      BY Zenon, <2>1, IdleTyped, MoveTyped, BecomeTyped DEF StartFull
    <3>2. QED
      BY <2>1, <3>1 DEF StartFull, TypeOK
  <2>2. CASE StartTargeted(d)
    <3>1. sync' \in [Devices -> SyncState]
      BY ZenonT(40), <2>2, IdleTyped, MoveTyped, BecomeTyped DEF StartTargeted
    <3>2. QED
      BY SMTT(40), <2>2, <3>1 DEF StartTargeted, TypeOK
  <2>3. CASE PullRead(d)
    <3>1. sync' \in [Devices -> SyncState]
      BY ZenonT(40), <2>3, MoveTyped, BecomeTyped DEF PullRead
    <3>2. QED
      BY <2>3, <3>1 DEF PullRead, TypeOK
  <2>4. CASE PullSave(d)
    <3>1. sync' \in [Devices -> SyncState]
      BY ZenonT(40), <2>4, IdleTyped, MoveTyped, BecomeTyped DEF PullSave
    <3>2. QED
      BY <2>4, <3>1 DEF PullSave, TypeOK
  <2>5. CASE PushPending(d)
    <3>1. sync' \in [Devices -> SyncState]
      BY ZenonT(40), <2>5, MoveTyped, BecomeTyped DEF PushPending
    <3>2. QED
      BY <2>5, <3>1 DEF PushPending, TypeOK
  <2>6. CASE PushSnapshot(d)
    <3>1. Candidates(d) \subseteq Record
      BY SMTT(40) DEF Candidates, SyncState, Versions, Operation, Record
    <3>2. sync' \in [Devices -> SyncState]
      BY ZenonT(40), <2>6, <3>1, IdleTyped, MoveTyped, BecomeTyped DEF PushSnapshot
    <3>3. QED
      BY Zenon, <2>6, <3>2 DEF PushSnapshot, TypeOK
  <2>7. CASE PushRead(d)
    <3>1. sync' \in [Devices -> SyncState]
      BY ZenonT(40), <2>7, MoveTyped, BecomeTyped DEF PushRead
    <3>2. QED
      BY <2>7, <3>1 DEF PushRead, TypeOK
  <2>8. CASE PushRemoteWins(d)
    <3>1. sync' \in [Devices -> SyncState]
      BY ZenonT(40), <2>8, IdleTyped, WrittenTyped, BecomeTyped DEF PushRemoteWins
    <3>2. QED
      BY <2>8, <3>1 DEF PushRemoteWins, TypeOK
  <2>9. CASE PushWrite(d)
    <3>1. sync[d].attempt < MaxConflictRetries =>
            [sync[d] EXCEPT !.phase = "read", !.attempt = @ + 1, !.current = NoRecord]
              \in SyncState
      <4>1. sync[d].attempt < MaxConflictRetries =>
              sync[d].attempt + 1 \in 0..MaxConflictRetries
        BY DEF SyncState
      <4>2. QED
        BY Zenon, <4>1 DEF SyncState, Record
    <3>2. sync' \in [Devices -> SyncState]
      <4>1. Written(sync[d]) \in SyncState
        BY Zenon, WrittenTyped
      <4>2. \E state \in SyncState : Become(d, state)
        BY <2>9, <3>1, <4>1, IdleTyped DEF PushWrite
      <4>3. QED
        BY <4>2, BecomeTyped
    <3>3. remote' \in Record
      BY <2>9 DEF PushWrite
    <3>4. QED
      BY <2>9, <3>2, <3>3 DEF PushWrite, TypeOK
  <2>10. CASE Acknowledge(d)
    <3>1. sync' \in [Devices -> SyncState]
      BY <2>10, IdleTyped, BecomeTyped DEF Acknowledge
    <3>2. Versions(sync[d].ops) \subseteq Version
      BY DEF SyncState, Versions, Operation
    <3>3. QED
      BY Zenon, <2>10, <3>1, <3>2 DEF Acknowledge, TypeOK
  <2>11. QED
    BY <1>5, <2>1, <2>2, <2>3, <2>4, <2>5, <2>6, <2>7, <2>8, <2>9, <2>10
    DEF SyncStep, Pull, Push, PushDocument
<1>6. ASSUME NEW d \in Devices, PushWriteLost(d)  PROVE  TypeOK'
  <2>1. sync' \in [Devices -> SyncState]
    BY <1>6, IdleTyped, BecomeTyped DEF PushWriteLost
  <2>2. QED
    BY <1>6, <2>1 DEF PushWriteLost, TypeOK, SyncState
<1>7. ASSUME NEW d \in Devices, Abort(d)  PROVE  TypeOK'
  <2>1. sync' \in [Devices -> SyncState]
    BY <1>7, IdleTyped, BecomeTyped DEF Abort
  <2>2. QED
    BY <1>7, <2>1 DEF Abort, TypeOK
<1>8. CASE UNCHANGED vars
  BY <1>8 DEF vars, TypeOK
<1>9. QED
  BY <1>1, <1>2, <1>3, <1>4, <1>5, <1>6, <1>7, <1>8 DEF Next

\* Type correctness: every reachable state is of its declared type.
THEOREM TypeCorrect == Spec => []TypeOK
<1>1. Init => TypeOK
  BY BoundsAssumption, DevicesAssumption, IdleTyped DEF Init, TypeOK, Record
<1>2. TypeOK /\ [Next]_vars => TypeOK'
  BY TypeStep
<1>3. QED
  BY <1>1, <1>2, PTL DEF Spec

\* The document never goes back: a write needs the revision that was merged
\* with, and what is written is newer than it.
LEMMA RemoteStep ==
    ASSUME TypeOK, [Next]_vars
    PROVE  AtLeast(remote', remote)
<1> remote \in Record
  BY DEF TypeOK
<1>1. ASSUME NEW d \in Devices,
             Preferred(sync[d].current, sync[d].candidate) # sync[d].current,
             remote = sync[d].current, remote' = sync[d].candidate
      PROVE  AtLeast(remote', remote)
  <2>1. sync[d].current \in Record /\ sync[d].candidate \in Record
    BY DEF TypeOK, SyncState
  <2>2. QED
    BY <1>1, <2>1, PreferredKeepsOrder, NewerIsAtLeast
<1>2. ASSUME UNCHANGED remote
      PROVE  AtLeast(remote', remote)
  BY <1>2, AtLeastReflexive
<1>3. ASSUME NEW d \in Devices, PushWrite(d)
      PROVE  AtLeast(remote', remote)
  BY <1>1, <1>2, <1>3 DEF PushWrite
<1>4. ASSUME NEW d \in Devices, PushWriteLost(d)
      PROVE  AtLeast(remote', remote)
  BY SMTT(40), <1>1, <1>4 DEF PushWriteLost
<1>5. ASSUME NEW d \in Devices, SyncStep(d), ~PushWrite(d)
      PROVE  UNCHANGED remote
  BY ZenonT(40), <1>5 DEF SyncStep, Pull, Push, PushDocument, StartFull, StartTargeted, PullRead, PullSave,
              PushPending, PushSnapshot, PushRead, PushRemoteWins, Acknowledge
<1>6. ASSUME NEW d \in Devices,
             \/ \E version \in Version : EditSave(d, version)
             \/ EditJournal(d) \/ EditJournalFails(d) \/ RemoveBook(d)
             \/ Abort(d)
      PROVE  UNCHANGED remote
  BY <1>6 DEF EditSave, EditJournal, EditJournalFails, RemoveBook, Abort
<1>7. QED
  BY <1>2, <1>3, <1>4, <1>5, <1>6 DEF Next, vars

\* The remote never regresses (RemoteNeverRegresses), for every instance.
THEOREM NeverRegresses == Spec => RemoteNeverRegresses
<1>1. TypeOK /\ [Next]_vars => [AtLeast(remote', remote)]_vars
  BY RemoteStep
<1>2. QED
  BY <1>1, TypeCorrect, PTL DEF Spec, RemoteNeverRegresses

-----------------------------------------------------------------------------
\* A run that does not move stays covered, because the document only grows.
LEMMA CoveredStays ==
    ASSUME TypeOK, [Next]_vars, NEW d \in Devices,
           RunIsCovered(sync[d]), sync'[d] = sync[d]
    PROVE  RunIsCovered(sync[d])'
<1>1. AtLeast(remote', remote) /\ TypeOK'
  BY RemoteStep, TypeStep
<1>2. /\ remote \in Record /\ remote' \in Record
      /\ sync[d].current \in Record /\ sync[d].candidate \in Record
  BY <1>1 DEF TypeOK, SyncState
<1>3. QED
  BY <1>1, <1>2, AtLeastTransitive DEF RunIsCovered

\* An idle run, and a run that has just read the document, are covered.
LEMMA FreshRunIsCovered ==
    ASSUME TypeOK, NEW state \in SyncState,
           state.current = remote \/ state.current = NoRecord,
           state.phase \notin {"read", "merge", "acknowledge"}
    PROVE  RunIsCovered(state)
<1>1. remote \in Record
  BY DEF TypeOK
<1>2. AtLeast(remote, remote)
  BY <1>1, AtLeastReflexive
<1>3. AtLeast(remote, NoRecord)
  BY <1>1, BoundsAssumption, DevicesAssumption
  DEF Record, Version, NoRecord, AtLeast, Newer
<1>4. QED
  BY <1>2, <1>3 DEF RunIsCovered

\* Every step of the run of d leaves it covered.
LEMMA SyncStepCovered ==
    ASSUME PushInvariant, NEW d \in Devices, SyncStep(d)
    PROVE  RunIsCovered(sync[d])'
<1> DEFINE s == sync[d]
<1> TypeOK /\ RunIsCovered(s)
  BY DEF PushInvariant
<1> [Next]_vars
  BY DEF Next
<1> TypeOK' /\ AtLeast(remote', remote)
  BY TypeStep, RemoteStep
<1> s \in SyncState /\ sync \in [Devices -> SyncState]
  BY SMTT(40) DEF TypeOK
<1>a. /\ remote \in Record /\ remote' \in Record
      /\ s.current \in Record /\ s.candidate \in Record /\ local[d] \in Record
      /\ \A op \in s.ops : op.version \in Record
  BY DEF TypeOK, SyncState, Operation, Record
<1>c. AtLeast(remote', NoRecord)
  BY <1>a, BoundsAssumption, DevicesAssumption
  DEF Record, Version, NoRecord, AtLeast, Newer
<1>b. ASSUME Become(d, Idle)  PROVE  RunIsCovered(sync[d])'
  <2>1. sync'[d] = Idle
    BY <1>b DEF Become
  <2>2. sync'[d].current = NoRecord /\ sync'[d].phase = "idle"
    BY <2>1 DEF Idle
  <2>3. QED
    BY <1>c, <2>2 DEF RunIsCovered
<1>d. /\ Written(s).current = NoRecord /\ Written(s).phase = "acknowledge"
      /\ Written(s).candidate = s.candidate /\ Written(s).ops = s.ops
  BY DEF Written, SyncState
<1>1. CASE StartFull(d)
  <2>1. sync'[d].current = remote' /\ sync'[d].phase = "pull"
    BY <1>1 DEF StartFull, Become, Idle
  <2>2. QED
    BY <1>a, <2>1, AtLeastReflexive DEF RunIsCovered
<1>2. CASE StartTargeted(d)
  <2>1. sync'[d].current = NoRecord /\ sync'[d].phase = "snapshot"
    BY <1>2 DEF StartTargeted, Become, Idle
  <2>2. QED
    BY <1>c, <2>1 DEF RunIsCovered
<1>3. CASE PullRead(d)
  <2>1. sync'[d].current = s.current /\ sync'[d].phase \in {"pullSave", "pending"}
        /\ remote' = remote
    BY <1>3 DEF PullRead, Become, SyncState
  <2>2. QED
    BY <2>1 DEF RunIsCovered
<1>4. CASE PullSave(d)
  <2>1. CASE ~hasBook[d]
    BY <1>4, <1>b, <2>1 DEF PullSave
  <2>2. CASE hasBook[d]
    <3>1. sync'[d].current = s.current /\ sync'[d].phase = "pending"
          /\ remote' = remote
      BY <1>4, <2>2 DEF PullSave, Become, SyncState
    <3>2. QED
      BY <3>1 DEF RunIsCovered
  <2>3. QED
    BY <2>1, <2>2
<1>5. CASE PushPending(d)
  <2>1. sync'[d].current = s.current /\ sync'[d].phase = "snapshot"
        /\ remote' = remote
    BY SMTT(40), <1>5 DEF PushPending, Become, SyncState
  <2>2. QED
    BY <2>1 DEF RunIsCovered
<1>6. CASE PushSnapshot(d)
  <2> DEFINE found == Candidates(d)
  <2>1. CASE Become(d, Idle)
    BY <1>b, <2>1
  <2>2. ASSUME NEW best \in found, \A version \in found : AtLeast(best, version),
               NEW phase \in {"read", "merge"},
               Become(d, [s EXCEPT !.candidate = best, !.targeted = FALSE, !.phase = phase])
        PROVE  RunIsCovered(sync[d])'
    <3>1. /\ sync'[d].current = s.current /\ sync'[d].phase = phase
          /\ sync'[d].candidate = best /\ sync'[d].ops = s.ops /\ remote' = remote
      BY ZenonT(40), <1>6, <2>2 DEF PushSnapshot, Become, SyncState
    <3>2. ASSUME NEW op \in s.ops  PROVE  AtLeast(best, op.version)
      <4>1. op.version \in Version
        BY DEF SyncState, Operation
      <4>2. op.version # NoRecord
        BY <4>1, BoundsAssumption DEF Version, NoRecord
      <4>3. op.version \in found
        BY SMTT(40), <4>2 DEF Candidates, Versions
      <4>4. QED
        BY <2>2, <4>3
    <3>3. QED
      BY SMTT(40), <3>1, <3>2 DEF RunIsCovered
  <2>3. QED
    BY Zenon, <1>6, <2>1, <2>2 DEF PushSnapshot
<1>7. CASE PushRead(d)
  <2>1. /\ sync'[d].current = remote' /\ sync'[d].phase = "merge"
        /\ sync'[d].candidate = s.candidate /\ sync'[d].ops = s.ops
        /\ s.phase = "read"
    BY <1>7 DEF PushRead, Become, SyncState
  <2>2. QED
    BY <1>a, <2>1, AtLeastReflexive DEF RunIsCovered
<1>8. CASE PushRemoteWins(d)
  <2>1. CASE ~hasBook[d]
    BY SMTT(40), <1>8, <1>b, <2>1 DEF PushRemoteWins
  <2>2. CASE hasBook[d]
    <3>1. /\ sync'[d].current = NoRecord /\ sync'[d].phase = "acknowledge"
          /\ sync'[d].candidate = s.candidate /\ sync'[d].ops = s.ops
          /\ s.phase = "merge" /\ remote' = remote
      <4>1. sync'[d] = Written(s) /\ s.phase = "merge" /\ remote' = remote
        BY <1>8, <2>2 DEF PushRemoteWins, Become
      <4>2. QED
        BY <4>1, <1>d
    <3>2. AtLeast(s.current, s.candidate)
      BY <1>8, <1>a, PreferredKeepsOrder DEF PushRemoteWins
    <3>3. AtLeast(remote, s.candidate)
      BY <1>a, <3>2, AtLeastTransitive DEF RunIsCovered
    <3>4. QED
      BY <1>c, <3>1, <3>3 DEF RunIsCovered
  <2>3. QED
    BY <2>1, <2>2
<1>9. CASE PushWrite(d)
  <2>1. CASE Become(d, Idle)
    BY <1>b, <2>1
  <2>2. CASE /\ remote' = s.candidate
             /\ Become(d, Written(s))
    <3>1. /\ sync'[d].current = NoRecord /\ sync'[d].phase = "acknowledge"
          /\ sync'[d].candidate = s.candidate /\ sync'[d].ops = s.ops
          /\ s.phase = "merge"
      <4>1. sync'[d] = Written(s) /\ s.phase = "merge"
        BY <1>9, <2>2 DEF PushWrite, Become
      <4>2. QED
        BY <4>1, <1>d
    <3>2. AtLeast(remote', s.candidate)
      BY <1>a, <2>2, AtLeastReflexive
    <3>3. QED
      BY <1>c, <3>1, <3>2 DEF RunIsCovered
  <2>3. CASE /\ remote' = remote
             /\ Become(d, [s EXCEPT !.phase = "read", !.attempt = @ + 1, !.current = NoRecord])
    <3>1. /\ sync'[d].current = NoRecord /\ sync'[d].phase = "read"
          /\ sync'[d].candidate = s.candidate /\ sync'[d].ops = s.ops
          /\ s.phase = "merge"
      BY SMTT(40), <1>9, <2>3 DEF PushWrite, Become, SyncState
    <3>2. QED
      BY <1>c, <2>3, <3>1 DEF RunIsCovered
  <2>4. QED
    BY SMTT(40), <1>9, <2>1, <2>2, <2>3 DEF PushWrite
<1>10. CASE Acknowledge(d)
  BY <1>b, <1>10 DEF Acknowledge
<1>11. QED
  BY <1>1, <1>2, <1>3, <1>4, <1>5, <1>6, <1>7, <1>8, <1>9, <1>10 DEF SyncStep, Pull, Push, PushDocument

\* A thrown request or a lost answer ends the run in the idle state.
LEMMA AbandonedRunIsCovered ==
    ASSUME TypeOK, TypeOK', NEW d \in Devices, Become(d, Idle)
    PROVE  RunIsCovered(sync[d])'
<1>1. sync'[d] = Idle /\ remote' \in Record
  BY DEF Become, TypeOK
<1>2. AtLeast(remote', NoRecord)
  BY <1>1, BoundsAssumption, DevicesAssumption
  DEF Record, Version, NoRecord, AtLeast, Newer
<1>3. QED
  BY <1>1, <1>2 DEF RunIsCovered, Idle

\* The inductive invariant: every run is covered, and so is what it acknowledges.
THEOREM PushInvariantHolds == Spec => []PushInvariant
<1>1. Init => PushInvariant
  <2> SUFFICES ASSUME Init PROVE PushInvariant
    OBVIOUS
  <2>1. TypeOK
    BY BoundsAssumption, DevicesAssumption, IdleTyped DEF Init, TypeOK, Record
  <2>2. ASSUME NEW d \in Devices  PROVE  RunIsCovered(sync[d])
    <3>1. sync[d] = Idle
      BY DEF Init
    <3>2. QED
      BY <2>1, <3>1, IdleTyped, FreshRunIsCovered DEF Idle
  <2>3. QED
    BY <2>1, <2>2 DEF Init, PushInvariant, AcknowledgedIsRemote
<1>2. PushInvariant /\ [Next]_vars => PushInvariant'
  <2> SUFFICES ASSUME PushInvariant, [Next]_vars PROVE PushInvariant'
    OBVIOUS
  <2>1. TypeOK /\ TypeOK' /\ AtLeast(remote', remote)
    BY TypeStep, RemoteStep DEF PushInvariant
  <2>2. ASSUME NEW d \in Devices  PROVE  RunIsCovered(sync[d])'
    <3>1. CASE sync'[d] = sync[d]
      BY <2>1, <3>1, CoveredStays DEF PushInvariant
    <3>2. CASE SyncStep(d)
      BY SMTT(40), <3>2, SyncStepCovered
    <3>3. CASE PushWriteLost(d) \/ Abort(d)
      BY <2>1, <3>3, AbandonedRunIsCovered DEF PushWriteLost, Abort
    <3>4. ASSUME NEW e \in Devices, e # d, SyncStep(e) \/ PushWriteLost(e) \/ Abort(e)
          PROVE  sync'[d] = sync[d]
      <4>1. \E state : Become(e, state)
        BY ZenonT(40), <3>4 DEF SyncStep, Pull, Push, PushDocument, StartFull, StartTargeted, PullRead, PullSave,
           PushPending, PushSnapshot, PushRead, PushRemoteWins, PushWrite,
           Acknowledge, PushWriteLost, Abort
      <4>2. QED
        BY SMTT(40), <2>1, <3>4, <4>1 DEF Become, TypeOK
    <3>5. ASSUME NEW e \in Devices,
                 \/ \E version \in Version : EditSave(e, version)
                 \/ EditJournal(e) \/ EditJournalFails(e) \/ RemoveBook(e)
          PROVE  sync' = sync
      BY <3>5 DEF EditSave, EditJournal, EditJournalFails, RemoveBook
    <3>6. QED
      BY <3>1, <3>2, <3>3, <3>4, <3>5 DEF Next, vars
  <2>3. AcknowledgedIsRemote'
    <3>1. /\ acked \subseteq Record /\ remote \in Record /\ remote' \in Record
      BY <2>1 DEF TypeOK, Record
    <3>2. \A version \in acked : AtLeast(remote', version)
      BY <2>1, <3>1, AtLeastTransitive DEF PushInvariant, AcknowledgedIsRemote
    <3>3. CASE acked' = acked
      BY <3>2, <3>3 DEF AcknowledgedIsRemote
    <3>4. ASSUME NEW d \in Devices, Acknowledge(d)  PROVE  AcknowledgedIsRemote'
      <4>1. /\ sync[d] \in SyncState /\ sync[d].phase = "acknowledge"
            /\ remote' = remote /\ acked' = acked \cup Versions(sync[d].ops)
            /\ RunIsCovered(sync[d])
        BY ZenonT(40), <2>1, <3>4 DEF Acknowledge, TypeOK, PushInvariant
      <4>2. ASSUME NEW op \in sync[d].ops  PROVE  AtLeast(remote', op.version)
        <5>1. op.version \in Record /\ sync[d].candidate \in Record
          BY SMTT(40), <4>1 DEF SyncState, Operation, Record
        <5>2. QED
          BY <3>1, <4>1, <5>1, AtLeastTransitive DEF RunIsCovered
      <4>3. QED
        BY SMTT(40), <3>2, <4>1, <4>2 DEF AcknowledgedIsRemote, Versions
    <3>5. ASSUME NEW d \in Devices, SyncStep(d), ~Acknowledge(d)
          PROVE  acked' = acked
      BY ZenonT(40), <3>5 DEF SyncStep, Pull, Push, PushDocument, StartFull, StartTargeted, PullRead, PullSave,
                  PushPending, PushSnapshot, PushRead, PushRemoteWins, PushWrite
    <3>6. ASSUME NEW d \in Devices,
                 \/ \E version \in Version : EditSave(d, version)
                 \/ EditJournal(d) \/ EditJournalFails(d) \/ RemoveBook(d)
                 \/ PushWriteLost(d) \/ Abort(d)
          PROVE  acked' = acked
      BY Zenon, <3>6 DEF EditSave, EditJournal, EditJournalFails, RemoveBook,
                  PushWriteLost, Abort
    <3>7. QED
      BY <3>3, <3>4, <3>5, <3>6 DEF Next, vars
  <2>4. QED
    BY <2>1, <2>2, <2>3 DEF PushInvariant
<1>3. QED
  BY <1>1, <1>2, PTL DEF Spec

\* Acknowledged work is remote (AcknowledgedIsRemote), for every instance.
THEOREM AcknowledgedWorkIsRemote == Spec => []AcknowledgedIsRemote
<1>1. PushInvariant => AcknowledgedIsRemote
  BY DEF PushInvariant
<1>2. QED
  BY <1>1, PushInvariantHolds, PTL

=============================================================================
