----------------------- MODULE ChangeAwareSyncWorker -----------------------
(***************************************************************************)
(* Deciding how much to synchronize: ChangeAwareSyncWorker (checkpoint,    *)
(* unchanged shortcut, targeted reading-state path, verification pass) over*)
(* LibrarySyncCoordinator, which runs the domains in their order.          *)
(*                                                                         *)
(* A contribution (an edit of one document) is an opaque value that other  *)
(* devices only add, so the content of the destination identifies its      *)
(* revision.  The merge of two contributions to the same document is the   *)
(* subject of the domain modules (ReadingStateSync); here a domain holds a *)
(* set of contributions.                                                   *)
(***************************************************************************)
EXTENDS Naturals, FiniteSets

CONSTANTS
    Domains,        \* the workers of the coordinator
    Stage,          \* Stage[d]: domains run by increasing stage
    ReadingDomains, \* progress, bookmarks, annotations
    Own, Others,    \* contributions made here, and on other devices
    MaxFailures,    \* bound on cancelled runs, failed requests and domains,
                    \* and restarts
    AppendMayFail   \* may the journal reject an append of a saved edit?

ASSUME WorkerAssumption ==
    /\ Stage \in [Domains -> Nat]
    /\ ReadingDomains \subseteq Domains
    /\ Own \cap Others = {}
    /\ MaxFailures \in Nat
    /\ AppendMayFail \in BOOLEAN

VARIABLES
    remote,         \* remote[d]: contributions in the destination
    local,          \* local[d]: contributions in the local repository
    journal,        \* journal[d]: pending own contributions
    checkpoint,     \* the stored revision, or NoRevision
    continuation,   \* readingStateContinuationScope is the destination's scope
    run,            \* the locals of runSynchronization
    task,           \* task[d]: the domain's activeSync
    inflight,       \* inflight[d]: operations in a running synchronizePending
    failures,
    domainFailed    \* has a domain failed, and others perhaps run on?

vars == <<remote, local, journal, checkpoint, continuation, run, task, inflight,
          failures, domainFailed>>
data == <<remote, local, journal>>
troubles == <<failures, domainFailed>>

Content == [Domains -> SUBSET (Own \cup Others)]
\* A revision that may be null: a set of at most one content.
NoRevision == {}
Revision == {{c} : c \in Content} \cup {NoRevision}

Used == UNION {remote[d] \cup local[d] : d \in Domains}

Phases == {"idle", "revision", "recheck", "targeted", "plain", "pass",
           "passRevision", "verify", "verifyRevision"}
PassPhases == {"plain", "pass", "verify"}

\* activeSync = null, or a pass of the domain and what it listed.
IdleTask == [phase |-> "idle", seen |-> {}]

Fresh == [d \in Domains |-> "todo"]

IdleRun == [phase |-> "idle", full |-> FALSE, before |-> NoRevision,
            after |-> NoRevision, ops |-> [d \in Domains |-> {}],
            progress |-> Fresh, pushed |-> FALSE, unclean |-> FALSE,
            settled |-> FALSE]

RunType == [phase: Phases, full: BOOLEAN, before: Revision, after: Revision,
            ops: Content, progress: [Domains -> {"todo", "running", "done"}],
            pushed: BOOLEAN, unclean: BOOLEAN, settled: BOOLEAN]
TaskType == [phase: {"idle", "started", "pulled"}, seen: SUBSET (Own \cup Others)]

TypeOK ==
    /\ remote \in Content /\ local \in Content /\ journal \in Content
    /\ inflight \in Content
    /\ task \in [Domains -> TaskType]
    /\ checkpoint \in Revision
    /\ continuation \in BOOLEAN
    /\ run \in RunType
    /\ failures \in 0..MaxFailures
    /\ domainFailed \in BOOLEAN

Init ==
    /\ remote = [d \in Domains |-> {}] /\ local = remote /\ journal = remote
    /\ inflight = remote
    /\ task = [d \in Domains |-> IdleTask]
    /\ checkpoint = NoRevision
    /\ continuation = FALSE
    /\ run = IdleRun
    /\ failures = 0 /\ domainFailed = FALSE

-----------------------------------------------------------------------------
(* Contributions.                                                           *)

\* The edit is saved and journalled; the reader page goes on when the journal
\* rejects the append.
Edit(d, c) ==
    /\ c \in Own \ Used
    /\ local' = [local EXCEPT ![d] = @ \cup {c}]
    /\ \/ journal' = [journal EXCEPT ![d] = @ \cup {c}]
       \/ AppendMayFail /\ d \in ReadingDomains /\ UNCHANGED journal
    /\ UNCHANGED <<remote, checkpoint, continuation, run, task, inflight, troubles>>

OtherDeviceWrites(d, c) ==
    /\ c \in Others \ Used
    /\ remote' = [remote EXCEPT ![d] = @ \cup {c}]
    /\ UNCHANGED <<local, journal, checkpoint, continuation, run, task, inflight, troubles>>

-----------------------------------------------------------------------------
(* runSynchronization, from one await to the next.                          *)

Empty(ops) == \A d \in Domains : ops[d] = {}

ReadingStateOnly(ops) ==
    ~Empty(ops) /\ \A d \in Domains : ops[d] # {} => d \in ReadingDomains

\* pendingBefore.
Begin(full) ==
    /\ run.phase = "idle"
    /\ run' = [IdleRun EXCEPT !.phase = "revision", !.full = full, !.ops = journal]
    /\ UNCHANGED <<data, checkpoint, continuation, task, inflight, troubles>>

\* The locals that the chosen path no longer reads are forgotten.
StartPass(state, phase) ==
    [state EXCEPT !.phase = phase, !.progress = Fresh, !.pushed = FALSE,
                  !.unclean = FALSE, !.full = FALSE,
                  !.ops = IF phase = "targeted" THEN @ ELSE [d \in Domains |-> {}]]

\* revisionBefore is read (null when the provider has none), the checkpoint is
\* loaded and the path chosen.
ChoosePath(known) ==
    LET before == IF known THEN {remote} ELSE NoRevision
        trusted == checkpoint = before
        state == [run EXCEPT !.before = before]
    IN
    /\ run.phase = "revision"
    /\ \/ /\ ~known
          /\ run' = StartPass(state, "plain")
          /\ UNCHANGED continuation
       \/ /\ known /\ ~run.full /\ Empty(run.ops) /\ trusted
          /\ run' = [state EXCEPT !.phase = "recheck"]
          /\ UNCHANGED continuation
       \/ /\ known /\ ~run.full /\ ReadingStateOnly(run.ops)
          /\ trusted \/ continuation
          /\ run' = StartPass(state, "targeted")
          /\ UNCHANGED continuation
       \/ /\ known
          /\ ~(~run.full /\ Empty(run.ops) /\ trusted)
          /\ ~(~run.full /\ ReadingStateOnly(run.ops) /\ (trusted \/ continuation))
          /\ run' = StartPass(state, "pass")
          /\ continuation' = FALSE
    /\ UNCHANGED <<data, checkpoint, task, inflight, troubles>>

\* pendingAfterProbe: return UNCHANGED_RESULT, or go on to a complete pass.
Recheck ==
    /\ run.phase = "recheck"
    /\ IF Empty(journal)
       THEN run' = IdleRun /\ UNCHANGED continuation
       ELSE run' = StartPass(run, "pass") /\ continuation' = FALSE
    /\ UNCHANGED <<data, checkpoint, task, inflight, troubles>>

\* A checkpoint is stored best effort: a storage error keeps the old one.
Store(revision) == checkpoint' \in {revision, checkpoint}

-----------------------------------------------------------------------------
(* ReadingStateSyncCoordinator: synchronizePending of every represented     *)
(* domain, concurrently; it is not single-flight within a domain.           *)

TargetedStart ==
    /\ run.phase = "targeted"
    /\ run.progress = Fresh
    /\ inflight' = [d \in Domains |-> inflight[d] \cup run.ops[d]]
    /\ run' = [run EXCEPT !.progress =
                 [d \in Domains |-> IF run.ops[d] = {} THEN "done" ELSE "running"]]
    /\ UNCHANGED <<data, checkpoint, continuation, task, troubles>>

\* The operations of one domain are pushed and acknowledged; a document that
\* another device changed is a conflict.
TargetedPush(d, unclean) ==
    /\ inflight[d] # {}
    /\ unclean => {remote} # run.before
    /\ remote' = [remote EXCEPT ![d] = @ \cup inflight[d]]
    /\ journal' = [journal EXCEPT ![d] = @ \ inflight[d]]
    /\ inflight' = [inflight EXCEPT ![d] = {}]
    /\ run' = IF run.phase = "targeted" /\ run.progress[d] = "running"
              THEN [run EXCEPT !.progress[d] = "done",
                               !.pushed = @ \/ ~(inflight[d] \subseteq remote[d]),
                               !.unclean = @ \/ unclean]
              ELSE run
    /\ UNCHANGED <<local, checkpoint, continuation, task, troubles>>

DomainThrows ==
    /\ failures < MaxFailures
    /\ failures' = failures + 1
    /\ domainFailed' = TRUE

\* One domain throws: the run rejects at once and forgets the continuation,
\* while the other domains run on.
TargetedFails(d) ==
    /\ inflight[d] # {}
    /\ DomainThrows
    /\ inflight' = [inflight EXCEPT ![d] = {}]
    /\ IF run.phase = "targeted" /\ run.progress[d] = "running"
       THEN run' = IdleRun /\ continuation' = FALSE
       ELSE UNCHANGED <<run, continuation>>
    /\ UNCHANGED <<data, checkpoint, task>>

PassDone == \A d \in Domains : run.progress[d] = "done"

\* Mutant: a targeted push is taken for a complete synchronization.
TargetedEndTrusted ==
    /\ run.phase = "targeted" /\ PassDone
    /\ continuation' = ~run.unclean
    /\ Store({remote})
    /\ run' = IdleRun
    /\ UNCHANGED <<data, task, inflight, troubles>>

\* pendingAfter and the end of the targeted path.
TargetedEnd ==
    /\ run.phase = "targeted" /\ PassDone
    /\ continuation' = ~run.unclean
    /\ IF run.pushed \/ run.unclean \/ ~Empty(journal)
       THEN Store(NoRevision) ELSE UNCHANGED checkpoint
    /\ run' = IdleRun
    /\ UNCHANGED <<data, task, inflight, troubles>>

-----------------------------------------------------------------------------
(* LibrarySyncCoordinator: one complete pass.  The domains of a stage run   *)
(* concurrently (Promise.all); a domain whose activeSync is set is joined.  *)

StartDomain(d) ==
    /\ run.phase \in PassPhases
    /\ run.progress[d] = "todo"
    /\ \A e \in Domains : Stage[e] < Stage[d] => run.progress[e] = "done"
    /\ run' = [run EXCEPT !.progress[d] = "running"]
    /\ task' = IF task[d].phase = "idle"
               THEN [task EXCEPT ![d].phase = "started"] ELSE task
    /\ UNCHANGED <<data, checkpoint, continuation, inflight, troubles>>

\* The listing, and the merge of every document into the repository.
Pull(d) ==
    /\ task[d].phase = "started"
    /\ task' = [task EXCEPT ![d] = [phase |-> "pulled", seen |-> remote[d]]]
    /\ local' = [local EXCEPT ![d] = @ \cup remote[d]]
    /\ UNCHANGED <<remote, journal, checkpoint, continuation, run, inflight, troubles>>

Joined(d) == run.phase \in PassPhases /\ run.progress[d] = "running"

\* Mutant: operations are acknowledged before the write.
PushAcknowledgesOnly(d, unclean) ==
    /\ task[d].phase = "pulled"
    /\ journal' = [journal EXCEPT ![d] = @ \ local[d]]
    /\ task' = [task EXCEPT ![d] = IdleTask]
    /\ run' = IF Joined(d) THEN [run EXCEPT !.progress[d] = "done"] ELSE run
    /\ UNCHANGED <<remote, local, checkpoint, continuation, inflight, troubles>>

\* Everything local that the listing lacked is written and the journal's
\* operations are acknowledged.  A document created since the listing is a
\* conflict, and so may be one that another device changed.
Push(d, unclean) ==
    LET missing == local[d] \ task[d].seen IN
    /\ task[d].phase = "pulled"
    /\ unclean => missing # {} /\ remote[d] # task[d].seen
    /\ missing \cap remote[d] # {} => unclean
    /\ remote' = [remote EXCEPT ![d] = @ \cup missing]
    /\ journal' = [journal EXCEPT ![d] = @ \ local[d]]
    /\ task' = [task EXCEPT ![d] = IdleTask]
    /\ run' = IF Joined(d)
              THEN [run EXCEPT !.progress[d] = "done",
                               !.pushed = @ \/ ~(missing \subseteq remote[d]),
                               !.unclean = @ \/ unclean]
              ELSE run
    /\ UNCHANGED <<local, checkpoint, continuation, inflight, troubles>>

\* A domain throws: the pass and the run reject, and the other domains of the
\* stage run on with no run waiting for them.
DomainFails(d) ==
    /\ task[d].phase # "idle"
    /\ DomainThrows
    /\ task' = [task EXCEPT ![d] = IdleTask]
    /\ run' = IF Joined(d) THEN IdleRun ELSE run
    /\ UNCHANGED <<data, checkpoint, continuation, inflight>>

\* The provider has no revision: the result is returned as it is.
PlainEnd ==
    /\ run.phase = "plain" /\ PassDone
    /\ run' = IdleRun
    /\ UNCHANGED <<data, checkpoint, continuation, task, inflight, troubles>>

\* pendingAfter, pendingAfterVerification.
PassJournal ==
    /\ run.phase \in {"pass", "verify"} /\ PassDone
    /\ run' = [run EXCEPT !.settled = Empty(journal),
                          !.phase = IF @ = "pass" THEN "passRevision"
                                    ELSE "verifyRevision"]
    /\ UNCHANGED <<data, checkpoint, continuation, task, inflight, troubles>>

\* Mutant: a pass that pushed is trusted without the verification pass.
PassRevisionTrustsPush(known) ==
    /\ run.phase = "passRevision"
    /\ Store(IF run.settled /\ ~run.unclean THEN {remote} ELSE NoRevision)
    /\ run' = IdleRun
    /\ UNCHANGED <<data, continuation, task, inflight, troubles>>

\* revisionAfter: verify a pass that changed the destination or saw it
\* change, else store the checkpoint of a stable one.
PassRevision(known) ==
    LET after == IF known THEN {remote} ELSE NoRevision
        verify == /\ known /\ run.settled /\ ~run.unclean
                  /\ run.pushed \/ run.before # after
        stable == /\ known /\ run.before = after /\ run.settled
                  /\ ~run.pushed /\ ~run.unclean
    IN
    /\ run.phase = "passRevision"
    /\ \/ /\ verify
          /\ run' = [StartPass(run, "verify") EXCEPT !.after = after]
          /\ UNCHANGED checkpoint
       \/ /\ ~verify
          /\ Store(IF stable THEN after ELSE NoRevision)
          /\ run' = IdleRun
    /\ UNCHANGED <<data, continuation, task, inflight, troubles>>

\* revisionAfterVerification.
VerifyRevision(known) ==
    LET stable == /\ known /\ run.after = {remote} /\ run.settled
                  /\ ~run.pushed /\ ~run.unclean
    IN
    /\ run.phase = "verifyRevision"
    /\ Store(IF stable THEN {remote} ELSE NoRevision)
    /\ run' = IdleRun
    /\ UNCHANGED <<data, continuation, task, inflight, troubles>>

\* A read of the journal or of the revision fails, or the run is cancelled:
\* throwIfSyncAborted throws once the domains that were started are done.
Fail ==
    /\ run.phase # "idle"
    /\ \A d \in Domains : run.progress[d] # "running"
    /\ failures < MaxFailures
    /\ failures' = failures + 1
    /\ run' = IdleRun
    /\ continuation' \in {continuation, continuation /\ run.phase # "targeted"}
    /\ UNCHANGED <<data, checkpoint, task, inflight, domainFailed>>

\* The application is closed and opened again.
Restart ==
    /\ failures < MaxFailures
    /\ failures' = failures + 1
    /\ run' = IdleRun
    /\ task' = [d \in Domains |-> IdleTask]
    /\ inflight' = [d \in Domains |-> {}]
    /\ continuation' = FALSE
    /\ UNCHANGED <<data, checkpoint, domainFailed>>

RunStep ==
    \/ ChoosePath(TRUE) \/ Recheck \/ TargetedStart \/ TargetedEnd
    \/ PlainEnd \/ PassJournal \/ PassRevision(TRUE) \/ VerifyRevision(TRUE)
    \/ \E d \in Domains : StartDomain(d)

DomainStep(d) ==
    \/ Pull(d)
    \/ \E unclean \in BOOLEAN : Push(d, unclean) \/ TargetedPush(d, unclean)

Next ==
    \/ \E d \in Domains, c \in Own : Edit(d, c)
    \/ \E d \in Domains, c \in Others : OtherDeviceWrites(d, c)
    \/ \E full \in BOOLEAN : Begin(full)
    \/ RunStep
    \/ ChoosePath(FALSE) \/ PassRevision(FALSE) \/ VerifyRevision(FALSE)
    \/ \E d \in Domains : DomainStep(d) \/ DomainFails(d) \/ TargetedFails(d)
    \/ Fail \/ Restart

\* The scheduler keeps starting runs (AutoSyncScheduler), automatic ones
\* without fullReconciliation, and a started run goes on.
Fairness ==
    /\ WF_vars(Begin(FALSE))
    /\ WF_vars(RunStep)
    /\ \A d \in Domains : WF_vars(DomainStep(d))

Spec == Init /\ [][Next]_vars /\ Fairness

-----------------------------------------------------------------------------
(* Properties.                                                              *)

\* The stored checkpoint only names a revision that this device has merged
\* completely and that holds everything the device had journalled: a run that
\* finds the destination at its checkpoint has nothing to pull.  Once a domain
\* has failed this no longer holds: the domains of its stage run on, and a later
\* run joins one that listed before the revision the run starts from.
CheckpointIsMerged ==
    ~domainFailed =>
      \A content \in checkpoint : \A d \in Domains : content[d] \subseteq local[d]

\* A pending contribution leaves the journal only for the destination, on the
\* targeted path as on the complete one.
JournalledIsSafe ==
    [][\A d \in Domains : journal[d] \ journal'[d] \subseteq remote'[d]]_vars

\* Neither the checkpoint nor the targeted path permanently prevents
\* convergence: once edits stop, the device and the destination hold the same
\* contributions, with automatic (never full) runs only, unless a domain failed
\* and left the checkpoint that CheckpointIsMerged excludes.
Converges == []~domainFailed => <>[](local = remote /\ Empty(journal))

\* The coordinator is bypassed only when both local durable work and remote
\* changes are absent.
BypassOnlyWhenNothingToDo ==
    [][run.phase = "recheck" /\ run'.phase = "idle" /\ failures' = failures =>
         \A d \in Domains : local[d] \subseteq remote[d]]_vars

=============================================================================
