--------------------- MODULE ChangeAwareSyncWorkerProofs ---------------------
(* What holds of ChangeAwareSyncWorker for every set of domains, order of   *)
(* stages, set of contributions and bound.                                  *)
EXTENDS ChangeAwareSyncWorker, TLAPS

\* What a domain listed is still in the destination: nothing removes from it.
SeenIsRemote == \A d \in Domains : task[d].seen \subseteq remote[d]

\* TypeOK and SeenIsRemote together are inductive.
Listing == TypeOK /\ SeenIsRemote

\* Between two runs the record of a run is the idle one.
LEMMA IdleRunTyped == IdleRun \in RunType
  BY DEF IdleRun, RunType, Revision, NoRevision, Content, Fresh, Phases

\* An absent activeSync is a task.
LEMMA IdleTaskTyped == IdleTask \in TaskType /\ IdleTask.seen = {}
  BY DEF IdleTask, TaskType

\* Starting a pass keeps the record of a run typed.
LEMMA StartPassTyped ==
  ASSUME NEW r \in RunType, NEW p \in Phases
  PROVE  StartPass(r, p) \in RunType
  BY Zenon DEF StartPass, RunType, Fresh, Content

\* The revision that is probed, or null.
LEMMA ProbeTyped ==
  ASSUME NEW c \in Content
  PROVE  {c} \in Revision /\ NoRevision \in Revision
  BY DEF Revision

\* The initial state is typed.
LEMMA InitListing == Init => Listing
<1> SUFFICES ASSUME Init PROVE Listing
  OBVIOUS
<1>1. remote \in Content /\ local \in Content /\ journal \in Content
      /\ inflight \in Content
  BY DEF Init, Content
<1>2. task \in [Domains -> TaskType] /\ SeenIsRemote
  BY IdleTaskTyped DEF Init, SeenIsRemote
<1>3. checkpoint \in Revision /\ run \in RunType /\ continuation \in BOOLEAN
  BY Zenon, IdleRunTyped DEF Init, Revision
<1>4. failures \in 0..MaxFailures
  BY WorkerAssumption DEF Init
<1>5. domainFailed \in BOOLEAN
  BY Zenon DEF Init
<1> QED
  BY <1>1, <1>2, <1>3, <1>4, <1>5 DEF Listing, TypeOK

\* Every step keeps the state typed and every listing in the destination.
LEMMA ListingStep == Listing /\ [Next]_vars => Listing'
<1> SUFFICES ASSUME Listing, [Next]_vars PROVE Listing'
  OBVIOUS
<1> USE DEF Listing, TypeOK, SeenIsRemote, data, troubles
<1>1. CASE UNCHANGED vars
  BY <1>1 DEF vars
<1>2. ASSUME NEW d \in Domains, NEW c \in Own, Edit(d, c) PROVE Listing'
  BY <1>2 DEF Edit, Content
<1>3. ASSUME NEW d \in Domains, NEW c \in Others, OtherDeviceWrites(d, c)
      PROVE Listing'
  BY <1>3 DEF OtherDeviceWrites, Content
<1>4. ASSUME NEW full \in BOOLEAN, Begin(full) PROVE Listing'
  BY Zenon, <1>4, IdleRunTyped DEF Begin, RunType, Phases
<1>5. ASSUME NEW known \in BOOLEAN, ChoosePath(known) PROVE Listing'
  <2> DEFINE before == IF known THEN {remote} ELSE NoRevision
             state == [run EXCEPT !.before = before]
  <2>1. before \in Revision
    BY Zenon, ProbeTyped
  <2>2. state \in RunType
    BY Zenon, <2>1 DEF RunType
  <2>3. StartPass(state, "plain") \in RunType /\ StartPass(state, "targeted") \in RunType
        /\ StartPass(state, "pass") \in RunType
    BY <2>2, StartPassTyped DEF Phases
  <2>4. [state EXCEPT !.phase = "recheck"] \in RunType
    BY Zenon, <2>2 DEF RunType, Phases
  <2>5. run' \in RunType /\ continuation' \in BOOLEAN
    BY Zenon, <1>5, <2>3, <2>4 DEF ChoosePath
  <2> QED
    BY <1>5, <2>5 DEF ChoosePath
<1>6. CASE Recheck
  <2>1. StartPass(run, "pass") \in RunType
    BY StartPassTyped DEF Phases
  <2> QED
    BY ZenonT(40), <1>6, <2>1, IdleRunTyped DEF Recheck
<1>7. CASE TargetedStart
  BY <1>7 DEF TargetedStart, RunType, Content
<1>8. ASSUME NEW d \in Domains, NEW unclean \in BOOLEAN, TargetedPush(d, unclean)
      PROVE Listing'
  <2>1. run' \in RunType
    BY ZenonT(40), <1>8 DEF TargetedPush, RunType
  <2>2. remote' \in Content /\ journal' \in Content /\ inflight' \in Content
    BY <1>8 DEF TargetedPush, Content
  <2>3. SeenIsRemote'
    BY <1>8 DEF TargetedPush, Content
  <2> QED
    BY <1>8, <2>1, <2>2, <2>3 DEF TargetedPush
<1>9. ASSUME NEW d \in Domains, TargetedFails(d) PROVE Listing'
  <2>1. failures' \in 0..MaxFailures /\ domainFailed' \in BOOLEAN
    BY <1>9, WorkerAssumption DEF TargetedFails, DomainThrows
  <2>2. inflight' \in Content
    BY <1>9 DEF TargetedFails, Content
  <2> QED
    BY Zenon, <1>9, <2>1, <2>2, IdleRunTyped DEF TargetedFails
<1>10. CASE TargetedEnd
  BY <1>10, IdleRunTyped DEF TargetedEnd, Store, Revision
<1>11. ASSUME NEW d \in Domains, StartDomain(d) PROVE Listing'
  <2>1. run' \in RunType
    BY <1>11 DEF StartDomain, RunType
  <2>2. task' \in [Domains -> TaskType] /\ \A e \in Domains : task'[e].seen = task[e].seen
    BY <1>11 DEF StartDomain, TaskType
  <2> QED
    BY <1>11, <2>1, <2>2 DEF StartDomain
<1>12. ASSUME NEW d \in Domains, Pull(d) PROVE Listing'
  <2>1. local' \in Content
    BY <1>12 DEF Pull, Content
  <2>2. task' \in [Domains -> TaskType] /\ SeenIsRemote'
    BY <1>12 DEF Pull, TaskType, Content
  <2> QED
    BY <1>12, <2>1, <2>2 DEF Pull
<1>13. ASSUME NEW d \in Domains, NEW unclean \in BOOLEAN, Push(d, unclean)
       PROVE Listing'
  <2>1. run' \in RunType
    BY ZenonT(40), <1>13 DEF Push, RunType
  <2>2. remote' \in Content /\ journal' \in Content
    BY <1>13 DEF Push, Content
  <2>3. task' \in [Domains -> TaskType] /\ SeenIsRemote'
    BY <1>13, IdleTaskTyped DEF Push, Content
  <2> QED
    BY SMTT(40), <1>13, <2>1, <2>2, <2>3 DEF Push
<1>14. ASSUME NEW d \in Domains, DomainFails(d) PROVE Listing'
  <2>1. failures' \in 0..MaxFailures /\ domainFailed' \in BOOLEAN
    BY <1>14, WorkerAssumption DEF DomainFails, DomainThrows
  <2>2. task' \in [Domains -> TaskType] /\ SeenIsRemote'
    BY <1>14, IdleTaskTyped DEF DomainFails
  <2> QED
    BY <1>14, <2>1, <2>2, IdleRunTyped DEF DomainFails
<1>15. CASE PlainEnd
  BY <1>15, IdleRunTyped DEF PlainEnd
<1>16. CASE PassJournal
  <2>1. run' \in RunType
    BY ZenonT(40), <1>16 DEF PassJournal, RunType, Phases, Empty
  <2> QED
    BY SMTT(40), <1>16, <2>1 DEF PassJournal
<1>17. ASSUME NEW known \in BOOLEAN, PassRevision(known) PROVE Listing'
  <2> DEFINE after == IF known THEN {remote} ELSE NoRevision
  <2>1. after \in Revision /\ NoRevision \in Revision
    BY ProbeTyped
  <2>2. [StartPass(run, "verify") EXCEPT !.after = after] \in RunType
    <3>1. StartPass(run, "verify") \in RunType
      BY StartPassTyped DEF Phases
    <3> QED
      BY Zenon, <2>1, <3>1 DEF RunType
  <2>3. run' \in RunType /\ checkpoint' \in Revision
    BY Zenon, <1>17, <2>1, <2>2, IdleRunTyped DEF PassRevision, Store
  <2> QED
    BY <1>17, <2>3 DEF PassRevision
<1>18. ASSUME NEW known \in BOOLEAN, VerifyRevision(known) PROVE Listing'
  BY Zenon, <1>18, IdleRunTyped, ProbeTyped DEF VerifyRevision, Store
<1>19. CASE Fail
  <2>1. failures' \in 0..MaxFailures
    BY <1>19, WorkerAssumption DEF Fail
  <2> QED
    BY Zenon, <1>19, <2>1, IdleRunTyped DEF Fail
<1>20. CASE Restart
  <2>1. failures' \in 0..MaxFailures
    BY <1>20, WorkerAssumption DEF Restart
  <2>2. inflight' \in Content /\ task' \in [Domains -> TaskType] /\ SeenIsRemote'
    BY <1>20, IdleTaskTyped DEF Restart, Content
  <2> QED
    BY Zenon, <1>20, <2>1, <2>2, IdleRunTyped DEF Restart
<1> QED
  BY Zenon, <1>1, <1>2, <1>3, <1>4, <1>5, <1>6, <1>7, <1>8, <1>9, <1>10, <1>11, <1>12,
     <1>13, <1>14, <1>15, <1>16, <1>17, <1>18, <1>19, <1>20
  DEF Next, RunStep, DomainStep


\* Every reachable state is typed, and every listing is still in the
\* destination.
THEOREM ListingHolds == Spec => []Listing
  BY InitListing, ListingStep, PTL DEF Spec

\* Type correctness of the worker, its coordinator and the domain tasks.
THEOREM TypeCorrect == Spec => []TypeOK
  BY ListingHolds, PTL DEF Listing

-----------------------------------------------------------------------------
(* Acknowledgement.                                                         *)

\* One step takes an operation out of the journal only if its contribution is
\* in the destination after the step.
LEMMA AcknowledgeStep ==
  Listing /\ [Next]_vars =>
    \A d \in Domains : journal[d] \ journal'[d] \subseteq remote'[d]
<1> SUFFICES ASSUME Listing, [Next]_vars, NEW d \in Domains
             PROVE  journal[d] \ journal'[d] \subseteq remote'[d]
  OBVIOUS
<1> USE DEF Listing, TypeOK, SeenIsRemote, data, troubles
<1>1. ASSUME NEW e \in Domains, NEW c \in Own, Edit(e, c)
      PROVE journal[d] \subseteq journal'[d]
  BY <1>1 DEF Edit, Content
<1>2. ASSUME NEW e \in Domains, NEW unclean \in BOOLEAN, TargetedPush(e, unclean)
      PROVE journal[d] \ journal'[d] \subseteq remote'[d]
  BY <1>2 DEF TargetedPush, Content
<1>3. ASSUME NEW e \in Domains, NEW unclean \in BOOLEAN, Push(e, unclean)
      PROVE journal[d] \ journal'[d] \subseteq remote'[d]
  <2>1. task[e].seen \subseteq remote[e]
    OBVIOUS
  <2>2. local[e] \subseteq remote'[e]
    BY SMTT(40), <1>3, <2>1 DEF Push, Content
  <2> QED
    BY <1>3, <2>2 DEF Push, Content
<1>4. \/ journal' = journal
      \/ \E e \in Domains, c \in Own : Edit(e, c)
      \/ \E e \in Domains, unclean \in BOOLEAN : TargetedPush(e, unclean)
      \/ \E e \in Domains, unclean \in BOOLEAN : Push(e, unclean)
  BY Zenon DEF Next, RunStep, DomainStep, vars, OtherDeviceWrites, Begin, ChoosePath,
     Recheck, TargetedStart, TargetedFails, TargetedEnd, StartDomain, Pull,
     DomainFails, PlainEnd, PassJournal, PassRevision, VerifyRevision, Fail, Restart
<1> QED
  BY <1>1, <1>2, <1>3, <1>4

\* JournalledIsSafe for every instance, domain failures and abandoned domain
\* tasks included.
THEOREM JournalledWorkIsSafe == Spec => JournalledIsSafe
<1>1. Listing /\ [Next]_vars =>
        [\A d \in Domains : journal[d] \ journal'[d] \subseteq remote'[d]]_vars
  BY AcknowledgeStep
<1> QED
  BY <1>1, ListingHolds, PTL DEF Spec, JournalledIsSafe

-----------------------------------------------------------------------------
(* The checkpoint, until a domain fails while another runs.                 *)

\* The revision that the current pass is measured against.
Base == IF run.phase \in {"verify", "verifyRevision"} THEN run.after ELSE run.before

\* A probed revision is contained in the destination.
ProbedIsRemote ==
    \A content \in run.before \cup run.after :
        \A d \in Domains : content[d] \subseteq remote[d]

\* A domain task runs exactly while the current run waits for it.
Attached == \A d \in Domains : task[d].phase # "idle" <=> Joined(d)

\* A domain that has listed, or is done, has merged the revision the pass is
\* measured against; the phases after a pass have every domain done.
PassMerged ==
    /\ run.phase \in {"pass", "verify", "passRevision", "verifyRevision"} =>
         \A d \in Domains :
            task[d].phase = "pulled" \/ run.progress[d] = "done" =>
                \A content \in Base : content[d] \subseteq local[d]
    /\ run.phase \in {"passRevision", "verifyRevision"} => PassDone

\* What the checkpoint names is merged.
Merged ==
    \A content \in checkpoint : \A d \in Domains : content[d] \subseteq local[d]

\* The inductive strengthening of CheckpointIsMerged is ~domainFailed =>
\* CheckpointInv.
CheckpointInv ==
    Listing /\ ProbedIsRemote /\ Attached /\ PassMerged /\ Merged

\* The fields of the idle run that the invariant reads.
LEMMA IdleRunFields ==
  IdleRun.phase = "idle" /\ IdleRun.before = {} /\ IdleRun.after = {}
  BY DEF IdleRun, NoRevision

\* The fields of a run that starts a pass.
LEMMA StartPassFields ==
  ASSUME NEW r \in RunType, NEW p \in Phases
  PROVE  /\ StartPass(r, p).phase = p
         /\ StartPass(r, p).before = r.before
         /\ StartPass(r, p).after = r.after
         /\ \A d \in Domains : StartPass(r, p).progress[d] = "todo"
  BY DEF StartPass, RunType, Fresh

\* A run may end whenever no domain task runs: only the checkpoint needs care.
LEMMA RunEnds ==
  ASSUME CheckpointInv, Listing', run' = IdleRun, UNCHANGED <<remote, local>>,
         \A d \in Domains : task'[d].phase = "idle", Merged'
  PROVE  CheckpointInv'
<1>1. ProbedIsRemote'
  BY IdleRunFields DEF ProbedIsRemote
<1>2. Attached'
  BY IdleRunFields DEF Attached, Joined, PassPhases
<1>3. PassMerged'
  BY IdleRunFields DEF PassMerged
<1> QED
  BY <1>1, <1>2, <1>3 DEF CheckpointInv

\* A pass starts with no domain task running.
LEMMA PassStarts ==
  ASSUME CheckpointInv, Listing', UNCHANGED <<remote, local, checkpoint, task>>,
         \A d \in Domains : task[d].phase = "idle",
         \A d \in Domains : run'.progress[d] = "todo",
         run'.phase \in PassPhases,
         run'.before \subseteq run.before \cup {remote},
         run'.after \subseteq run.after \cup {remote}
  PROVE  CheckpointInv'
<1>1. ProbedIsRemote'
  BY DEF ProbedIsRemote, CheckpointInv
<1>2. Attached'
  BY DEF Attached, Joined
<1>3. PassMerged'
  BY DEF PassMerged, PassPhases
<1>4. Merged'
  BY DEF CheckpointInv, Merged
<1> QED
  BY <1>1, <1>2, <1>3, <1>4 DEF CheckpointInv

\* Outside a pass no domain task runs.
LEMMA NoTask ==
  ASSUME CheckpointInv, run.phase \notin PassPhases
  PROVE  \A d \in Domains : task[d].phase = "idle"
  BY DEF CheckpointInv, Attached, Joined

\* A finished pass leaves no domain task.
LEMMA NoTaskWhenDone ==
  ASSUME CheckpointInv, PassDone
  PROVE  \A d \in Domains : task[d].phase = "idle"
  BY DEF CheckpointInv, Attached, Joined, PassDone

\* The initial state satisfies the invariant.
LEMMA CheckpointInit == Init => CheckpointInv
<1> SUFFICES ASSUME Init PROVE CheckpointInv
  OBVIOUS
<1>1. \A d \in Domains : task[d].phase = "idle"
  BY DEF Init, IdleTask
<1>2. ProbedIsRemote /\ Attached /\ PassMerged
  BY <1>1, IdleRunFields
  DEF Init, ProbedIsRemote, Attached, PassMerged, Joined, PassPhases
<1>3. Merged
  BY DEF Init, Merged, NoRevision
<1> QED
  BY <1>2, <1>3, InitListing DEF CheckpointInv

\* A checkpoint that is kept, cleared or replaced by a merged revision is merged.
LEMMA StoreMerged ==
  ASSUME CheckpointInv, NEW revision, Store(revision), UNCHANGED local,
         \A content \in revision : \A d \in Domains : content[d] \subseteq local[d]
  PROVE  Merged'
  BY SMTT(40) DEF Store, CheckpointInv, Merged

\* A failed domain is never forgotten.
LEMMA FailureStays == [Next]_vars /\ domainFailed => domainFailed'
  BY ZenonT(40)
  DEF Next, RunStep, DomainStep, vars, troubles, Edit, OtherDeviceWrites, Begin,
     ChoosePath, Recheck, TargetedStart, TargetedPush, TargetedFails, TargetedEnd,
     StartDomain, Pull, Push, DomainFails, DomainThrows, PlainEnd, PassJournal,
     PassRevision, VerifyRevision, Fail, Restart

\* Every step in which no domain fails keeps the invariant.
LEMMA CheckpointStep ==
  ASSUME ~domainFailed', CheckpointInv, [Next]_vars
  PROVE  CheckpointInv'
<1>0. Listing /\ Listing'
  BY ListingStep DEF CheckpointInv
<1>t. run \in RunType /\ task \in [Domains -> TaskType] /\ remote \in Content
      /\ local \in Content
  BY <1>0 DEF Listing, TypeOK
<1>c. UNCHANGED <<local, checkpoint>> => Merged'
  BY SMTT(40) DEF CheckpointInv, Merged
<1> USE DEF data, troubles
<1>1. CASE UNCHANGED vars
  BY SMTT(40), <1>1
  DEF vars, CheckpointInv, Listing, TypeOK, SeenIsRemote, ProbedIsRemote,
     Attached, Joined, PassMerged, PassDone, Base, Merged
<1>2. ASSUME NEW d \in Domains, NEW c \in Own, Edit(d, c) PROVE CheckpointInv'
  <2>1. \A e \in Domains : local[e] \subseteq local'[e]
    BY <1>2, <1>t DEF Edit, Content
  <2>2. UNCHANGED <<remote, run, task, checkpoint>>
    BY SMTT(40), <1>2 DEF Edit
  <2> QED
    BY <1>0, <2>1, <2>2 DEF CheckpointInv, ProbedIsRemote,
       Attached, Joined, PassMerged, PassDone, Base, Merged
<1>3. ASSUME NEW d \in Domains, NEW c \in Others, OtherDeviceWrites(d, c)
      PROVE CheckpointInv'
  <2>1. \A e \in Domains : remote[e] \subseteq remote'[e]
    BY <1>3, <1>t DEF OtherDeviceWrites, Content
  <2>2. UNCHANGED <<local, run, task, checkpoint>>
    BY <1>3 DEF OtherDeviceWrites
  <2> QED
    BY <1>0, <2>1, <2>2 DEF CheckpointInv, ProbedIsRemote,
       Attached, Joined, PassMerged, PassDone, Base, Merged
<1>4. ASSUME NEW full \in BOOLEAN, Begin(full) PROVE CheckpointInv'
  <2>1. \A d \in Domains : task'[d].phase = "idle"
    BY <1>4, NoTask DEF Begin, PassPhases
  <2>2. run'.phase = "revision" /\ run'.before = {} /\ run'.after = {}
    BY SMTT(40), <1>4, IdleRunFields, IdleRunTyped DEF Begin, RunType
  <2>3. ProbedIsRemote' /\ Attached' /\ PassMerged'
    BY <2>1, <2>2 DEF ProbedIsRemote, Attached, PassMerged, Joined, PassPhases
  <2> QED
    BY <1>0, <1>c, <1>4, <2>3 DEF Begin, CheckpointInv
<1>5. ASSUME NEW known \in BOOLEAN, ChoosePath(known) PROVE CheckpointInv'
  <2> DEFINE before == IF known THEN {remote} ELSE NoRevision
             state == [run EXCEPT !.before = before]
  <2>1. state \in RunType /\ state.before = before /\ state.after = run.after
    <3>1. before \in Revision
      BY Zenon, <1>t, ProbeTyped
    <3> QED
      BY Zenon, <1>t, <3>1 DEF RunType
  <2>2. \A d \in Domains : task[d].phase = "idle"
    BY <1>5, NoTask DEF ChoosePath, PassPhases
  <2>3. before \subseteq {remote}
    BY DEF NoRevision
  <2>4. UNCHANGED <<remote, local, checkpoint, task>>
    BY SMTT(40), <1>5 DEF ChoosePath
  <2> HIDE DEF before, state
  <2>5. CASE run' = StartPass(state, "plain") \/ run' = StartPass(state, "pass")
    <3>1. /\ run'.phase \in PassPhases
          /\ run'.before = before /\ run'.after = run.after
          /\ \A d \in Domains : run'.progress[d] = "todo"
      BY <2>1, <2>5, StartPassFields DEF Phases, PassPhases
    <3> QED
      BY SMTT(40), <1>0, <2>2, <2>3, <2>4, <3>1, PassStarts
  <2>6. CASE run' = [state EXCEPT !.phase = "recheck"] \/ run' = StartPass(state, "targeted")
    <3>1. /\ run'.phase \in {"recheck", "targeted"}
          /\ run'.before = before /\ run'.after = run.after
      <4>1. StartPass(state, "targeted").phase = "targeted"
            /\ StartPass(state, "targeted").before = before
            /\ StartPass(state, "targeted").after = run.after
        BY <2>1, StartPassFields DEF Phases
      <4>2. [state EXCEPT !.phase = "recheck"].phase = "recheck"
            /\ [state EXCEPT !.phase = "recheck"].before = before
            /\ [state EXCEPT !.phase = "recheck"].after = run.after
        BY <2>1 DEF RunType
      <4> QED
        BY ZenonT(40), <2>6, <4>1, <4>2
    <3>2. ProbedIsRemote'
      BY <2>3, <2>4, <3>1 DEF CheckpointInv, ProbedIsRemote
    <3>3. Attached' /\ PassMerged'
      BY <2>2, <2>4, <3>1 DEF Attached, PassMerged, Joined, PassPhases
    <3> QED
      BY <1>0, <1>c, <2>4, <3>2, <3>3 DEF CheckpointInv
  <2> QED
    BY <1>5, <2>5, <2>6 DEF ChoosePath, before, state
<1>6. CASE Recheck
  <2>1. \A d \in Domains : task[d].phase = "idle"
    BY <1>6, NoTask DEF Recheck, PassPhases
  <2>2. UNCHANGED <<remote, local, checkpoint, task>>
    BY <1>6 DEF Recheck
  <2>3. CASE run' = IdleRun
    BY SMTT(40), <1>0, <1>c, <2>1, <2>2, <2>3, RunEnds
  <2>4. CASE run' = StartPass(run, "pass")
    <3>1. /\ run'.phase \in PassPhases
          /\ run'.before = run.before /\ run'.after = run.after
          /\ \A d \in Domains : run'.progress[d] = "todo"
      BY <1>t, <2>4, StartPassFields DEF Phases, PassPhases
    <3> QED
      BY SMTT(40), <1>0, <2>1, <2>2, <3>1, PassStarts
  <2> QED
    BY <1>6, <2>3, <2>4 DEF Recheck
<1>7. CASE TargetedStart
  <2>1. UNCHANGED <<remote, local, checkpoint, task>> /\ run.phase = "targeted"
    BY <1>7 DEF TargetedStart
  <2>2. run'.phase = "targeted" /\ run'.before = run.before /\ run'.after = run.after
    BY SMTT(40), <1>7, <1>t DEF TargetedStart, RunType
  <2>3. ProbedIsRemote' /\ Attached' /\ PassMerged'
    BY <2>1, <2>2
    DEF CheckpointInv, ProbedIsRemote, Attached, PassMerged, Joined, PassPhases
  <2> QED
    BY <1>0, <1>c, <2>1, <2>3 DEF CheckpointInv
<1>8. ASSUME NEW d \in Domains, NEW unclean \in BOOLEAN, TargetedPush(d, unclean)
      PROVE CheckpointInv'
  <2>1. UNCHANGED <<local, checkpoint, task>>
        /\ \A e \in Domains : remote[e] \subseteq remote'[e]
    BY <1>8, <1>t DEF TargetedPush, Content
  <2>2. /\ run'.phase = run.phase /\ run'.before = run.before /\ run'.after = run.after
        /\ run.phase # "targeted" => run' = run
    BY SMTT(40), <1>8, <1>t DEF TargetedPush, RunType
  <2>3. ProbedIsRemote'
    BY SMTT(40), <2>1, <2>2 DEF CheckpointInv, ProbedIsRemote
  <2>4. Attached' /\ PassMerged'
    BY SMTT(40), <2>1, <2>2
    DEF CheckpointInv, Attached, PassMerged, PassDone, Base, Joined, PassPhases
  <2> QED
    BY <1>0, <1>c, <2>1, <2>3, <2>4 DEF CheckpointInv
<1>9. ASSUME NEW d \in Domains, TargetedFails(d) \/ DomainFails(d) PROVE FALSE
  BY SMTT(40), <1>9 DEF TargetedFails, DomainFails, DomainThrows
<1>10. CASE TargetedEnd
  <2>1. \A d \in Domains : task[d].phase = "idle"
    BY ZenonT(40), <1>10, NoTask DEF TargetedEnd, PassPhases
  <2>2. Merged'
    BY <1>10, <1>c, StoreMerged DEF TargetedEnd, NoRevision
  <2> QED
    BY ZenonT(40), <1>0, <1>10, <2>1, <2>2, RunEnds DEF TargetedEnd
<1>11. ASSUME NEW d \in Domains, StartDomain(d) PROVE CheckpointInv'
  <2>1. UNCHANGED <<remote, local, checkpoint>> /\ run.phase \in PassPhases
        /\ run.progress[d] = "todo"
    BY <1>11 DEF StartDomain
  <2>2. /\ run'.phase = run.phase /\ run'.before = run.before /\ run'.after = run.after
        /\ run'.progress = [run.progress EXCEPT ![d] = "running"]
    BY <1>11, <1>t DEF StartDomain, RunType
  <2>3. run.progress \in [Domains -> {"todo", "running", "done"}]
    BY <1>t DEF RunType
  <2>4. task[d].phase = "idle"
    BY <2>1 DEF CheckpointInv, Attached, Joined
  <2>5. /\ task'[d].phase = "started"
        /\ \A e \in Domains : e # d => task'[e] = task[e]
    BY <1>11, <1>t, <2>4 DEF StartDomain, TaskType
  <2>6. ProbedIsRemote'
    BY <2>1, <2>2 DEF CheckpointInv, ProbedIsRemote
  <2>7. Attached'
    BY SMTT(40), <2>1, <2>2, <2>3, <2>5 DEF CheckpointInv, Attached, Joined
  <2>8. PassMerged'
    BY <2>1, <2>2, <2>3, <2>5 DEF CheckpointInv, PassMerged, Base, PassPhases
  <2> QED
    BY <1>0, <1>c, <2>1, <2>6, <2>7, <2>8 DEF CheckpointInv
<1>12. ASSUME NEW d \in Domains, Pull(d) PROVE CheckpointInv'
  <2>1. UNCHANGED <<remote, run, checkpoint>> /\ task[d].phase = "started"
    BY SMTT(40), <1>12 DEF Pull
  <2>2. /\ task'[d].phase = "pulled"
        /\ \A e \in Domains : e # d => task'[e] = task[e]
    BY SMTT(40), <1>12, <1>t DEF Pull
  <2>3. /\ \A e \in Domains : local[e] \subseteq local'[e]
        /\ remote[d] \subseteq local'[d]
    BY SMTT(40), <1>12, <1>t DEF Pull, Content
  <2>4. ProbedIsRemote' /\ Attached'
    BY <2>1, <2>2 DEF CheckpointInv, ProbedIsRemote, Attached, Joined
  <2>5. \A content \in Base : content[d] \subseteq remote[d]
    BY SMTT(40) DEF CheckpointInv, ProbedIsRemote, Base
  <2>6. PassMerged'
    BY <2>1, <2>2, <2>3, <2>5 DEF CheckpointInv, PassMerged, PassDone, Base
  <2>7. Merged'
    BY SMTT(40), <2>1, <2>3 DEF CheckpointInv, Merged
  <2> QED
    BY SMTT(40), <1>0, <2>4, <2>6, <2>7 DEF CheckpointInv
<1>13. ASSUME NEW d \in Domains, NEW unclean \in BOOLEAN, Push(d, unclean)
       PROVE CheckpointInv'
  <2>1. UNCHANGED <<local, checkpoint>> /\ task[d].phase = "pulled"
        /\ \A e \in Domains : remote[e] \subseteq remote'[e]
    BY <1>13, <1>t DEF Push, Content
  <2>2. Joined(d)
    BY <2>1 DEF CheckpointInv, Attached
  <2>3. /\ run'.phase = run.phase /\ run'.before = run.before /\ run'.after = run.after
        /\ run'.progress = [run.progress EXCEPT ![d] = "done"]
    BY <1>13, <1>t, <2>2 DEF Push, RunType
  <2>4. run.progress \in [Domains -> {"todo", "running", "done"}]
    BY <1>t DEF RunType
  <2>5. /\ task'[d].phase = "idle"
        /\ \A e \in Domains : e # d => task'[e] = task[e]
    BY SMTT(40), <1>13, <1>t DEF Push, IdleTask
  <2>6. ProbedIsRemote'
    BY SMTT(40), <2>1, <2>3 DEF CheckpointInv, ProbedIsRemote
  <2>7. Attached'
    BY SMTT(40), <2>3, <2>4, <2>5 DEF CheckpointInv, Attached, Joined
  <2>8. PassMerged'
    BY SMTT(40), <2>1, <2>2, <2>3, <2>4, <2>5
    DEF CheckpointInv, PassMerged, Base, Joined, PassPhases
  <2> QED
    BY <1>0, <1>c, <2>1, <2>6, <2>7, <2>8 DEF CheckpointInv
<1>14. CASE PlainEnd
  BY <1>0, <1>c, <1>14, NoTaskWhenDone, RunEnds DEF PlainEnd
<1>15. CASE PassJournal
  <2>1. UNCHANGED <<remote, local, checkpoint, task>> /\ PassDone
        /\ run.phase \in {"pass", "verify"}
    BY <1>15 DEF PassJournal
  <2>2. /\ run'.before = run.before /\ run'.after = run.after
        /\ run'.progress = run.progress
        /\ run'.phase = IF run.phase = "pass" THEN "passRevision" ELSE "verifyRevision"
    BY SMTT(40), <1>15, <1>t DEF PassJournal, RunType
  <2>3. \A d \in Domains : task[d].phase = "idle"
    BY SMTT(40), <2>1, NoTaskWhenDone
  <2>4. Base' = Base
    BY SMTT(40), <2>1, <2>2 DEF Base
  <2>5. ProbedIsRemote' /\ Attached' /\ PassMerged'
    BY <2>1, <2>2, <2>3, <2>4
    DEF CheckpointInv, ProbedIsRemote, Attached, Joined, PassPhases, PassMerged, PassDone
  <2> QED
    BY <1>0, <1>c, <2>1, <2>5 DEF CheckpointInv
<1>16. ASSUME NEW known \in BOOLEAN, PassRevision(known) PROVE CheckpointInv'
  <2> DEFINE after == IF known THEN {remote} ELSE NoRevision
  <2>1. \A d \in Domains : task[d].phase = "idle"
    BY <1>16, NoTask DEF PassRevision, PassPhases
  <2>2. UNCHANGED <<remote, local, task>> /\ run.phase = "passRevision"
    BY <1>16 DEF PassRevision
  <2>3. CASE run' = [StartPass(run, "verify") EXCEPT !.after = after] /\ UNCHANGED checkpoint
    <3>1. StartPass(run, "verify") \in RunType
      BY SMTT(40), <1>t, StartPassTyped DEF Phases
    <3>2. /\ run'.phase = "verify" /\ run'.before = run.before /\ run'.after = after
          /\ \A d \in Domains : run'.progress[d] = "todo"
      <4>1. /\ run'.phase = StartPass(run, "verify").phase
            /\ run'.before = StartPass(run, "verify").before
            /\ run'.progress = StartPass(run, "verify").progress
            /\ run'.after = after
        BY <2>3, <3>1 DEF RunType
      <4>2. "verify" \in Phases
        BY Zenon DEF Phases
      <4>3. run \in RunType
        BY Zenon, <1>t
      <4>4. /\ StartPass(run, "verify").phase = "verify"
            /\ StartPass(run, "verify").before = run.before
            /\ \A d \in Domains : StartPass(run, "verify").progress[d] = "todo"
        BY Zenon, <4>2, <4>3, StartPassFields
      <4> QED
        BY SMTT(40), <4>1, <4>4
    <3>3. after \subseteq {remote}
      BY DEF NoRevision
    <3> QED
      BY <1>0, <2>1, <2>2, <2>3, <3>2, <3>3, PassStarts DEF PassPhases
  <2>4. CASE run' = IdleRun /\ \/ Store(NoRevision)
                               \/ run.before = {remote} /\ Store({remote})
    <3>1. run.before = {remote} => \A d \in Domains : remote[d] \subseteq local[d]
      BY ZenonT(40), <2>2 DEF CheckpointInv, PassMerged, PassDone, Base
    <3>2. Merged'
      BY SMTT(40), <2>2, <2>4, <3>1, StoreMerged DEF NoRevision
    <3> QED
      BY <1>0, <2>1, <2>2, <2>4, <3>2, RunEnds
  <2> QED
    BY <1>16, <2>3, <2>4 DEF PassRevision
<1>17. ASSUME NEW known \in BOOLEAN, VerifyRevision(known) PROVE CheckpointInv'
  <2>1. \A d \in Domains : task[d].phase = "idle"
    BY SMTT(40), <1>17, NoTask DEF VerifyRevision, PassPhases
  <2>2. UNCHANGED <<remote, local, task>> /\ run.phase = "verifyRevision"
        /\ run' = IdleRun
    BY SMTT(40), <1>17 DEF VerifyRevision
  <2>3. run.after = {remote} => \A d \in Domains : remote[d] \subseteq local[d]
    BY SMTT(40), <2>2 DEF CheckpointInv, PassMerged, PassDone, Base
  <2>4. Store(NoRevision) \/ (run.after = {remote} /\ Store({remote}))
    BY SMTT(40), <1>17 DEF VerifyRevision
  <2>5. Merged'
    BY SMTT(40), <2>2, <2>3, <2>4, StoreMerged DEF NoRevision
  <2> QED
    BY SMTT(40), <1>0, <2>1, <2>2, <2>5, RunEnds
<1>18. CASE Fail
  <2>1. \A d \in Domains : task[d].phase = "idle"
    BY <1>18 DEF Fail, CheckpointInv, Attached, Joined
  <2> QED
    BY SMTT(40), <1>0, <1>c, <1>18, <2>1, RunEnds DEF Fail
<1>19. CASE Restart
  <2>1. \A d \in Domains : task'[d].phase = "idle"
    BY <1>19 DEF Restart, IdleTask
  <2> QED
    BY SMTT(40), <1>0, <1>c, <1>19, <2>1, RunEnds DEF Restart
<1> QED
  BY ZenonT(40), <1>1, <1>2, <1>3, <1>4, <1>5, <1>6, <1>7, <1>8, <1>9, <1>10, <1>11,
     <1>12,
     <1>13, <1>14, <1>15, <1>16, <1>17, <1>18, <1>19
  DEF Next, RunStep, DomainStep

\* CheckpointIsMerged for every instance: until a domain fails while the others
\* of its stage run, a stored checkpoint only names what this device has merged,
\* whatever other devices write during the awaits of a run, and through
\* cancellations, restarts and failed stores.
THEOREM CheckpointMerged == Spec => []CheckpointIsMerged
<1> DEFINE Inv == ~domainFailed => CheckpointInv
<1>1. Init => Inv
  BY CheckpointInit
<1>2. Inv /\ [Next]_vars => Inv'
  BY CheckpointStep, FailureStays
<1>3. Inv => CheckpointIsMerged
  BY DEF CheckpointInv, Merged, CheckpointIsMerged
<1> QED
  BY <1>1, <1>2, <1>3, PTL DEF Spec

=============================================================================
