------------------------- MODULE AutoSyncScheduler -------------------------
(***************************************************************************)
(* When the application synchronizes by itself: AutoSyncScheduler, the     *)
(* sync settings page that shares its worker (manual synchronization,      *)
(* provider choice, cancellation) and the single-flight worker promise     *)
(* that both await.                                                        *)
(*                                                                         *)
(* Time is kept as the waits of the running timers and deadlines, which    *)
(* Tick counts down; a timer fires some time after its wait has reached 0. *)
(* mergeReasons tells only 'reading-quiet' from the other reasons, so a    *)
(* reason is "quiet" or "now".                                             *)
(***************************************************************************)
EXTENDS Integers

CONSTANTS
    Providers,      \* the providers the user switches between
    QuietDelay,     \* quietIntervalMs, interactiveQuietIntervalMs
    RetryDelay,     \* the Retry-After of a rate-limited answer
    PollDelay,      \* revisionCheckIntervalMs
    MaxChanges,     \* bound on the local changes
    MaxTroubles     \* bound on failed runs, cancellations and switches

ASSUME SchedulerAssumption ==
    /\ Providers \subseteq {"git", "mega"}
    /\ {QuietDelay, RetryDelay, PollDelay} \subseteq Nat \ {0}
    /\ MaxChanges \in Nat /\ MaxTroubles \in Nat

VARIABLES
    online,     \* navigator.onLine
    notice,     \* the online / offline event that is not yet delivered
    hidden,     \* document.visibilityState = 'hidden'
    provider,   \* the selected provider, or "none"
    sched,      \* the fields of AutoSyncScheduler, and what it persists: the
                \* Retry-After deadlines and the last result of each provider
    runs,       \* runs[i]: a runAutomatic awaiting the worker
    worker,     \* ChangeAwareSyncWorker: the promise in flight
    page,       \* what the settings page is busy with
    pending,    \* the journal holds a change that no worker has read
    captured,   \* the worker in flight has read pending changes
    changes, troubles

vars == <<online, notice, hidden, provider, sched, runs,
          worker, page, pending, captured, changes, troubles>>

environment == <<online, notice, hidden>>
journal == <<pending, captured, changes>>

-----------------------------------------------------------------------------
Selections == Providers \cup {"none"}
Reasons == {"none", "quiet", "now"}
Results == {"none", "clean", "maintenance"}
Outcomes == {"none", "ok", "maintenance", "failed", "limited"}
Slots == 1..2

NoTimer == -1

NoRun == [awaiting |-> FALSE, provider |-> "none", reason |-> "none",
          aborted |-> FALSE, outcome |-> "none"]

IdleWorker == [phase |-> "idle", owner |-> 0, aborted |-> FALSE]

FreePage == [busy |-> "no", outcome |-> "none"]

SchedType ==
    [started: BOOLEAN, reason: Reasons, wait: Nat \cup {NoTimer},
     queued: Reasons, quietFor: Nat \cup {NoTimer},
     phase: {"idle", "scheduled", "syncing", "cancelling", "cancelled",
             "offline", "error"},
     poll: Nat \cup {NoTimer}, shown: Selections, lastResult: Results,
     active: {0} \cup Slots, retryAfter: [Providers -> Nat],
     history: [Providers -> Results]]

RunType == [awaiting: BOOLEAN, provider: Selections, reason: Reasons,
            aborted: BOOLEAN, outcome: Outcomes]

TypeOK ==
    /\ online \in BOOLEAN /\ hidden \in BOOLEAN
    /\ notice \in {"none", "online", "offline"}
    /\ provider \in Selections
    /\ sched \in SchedType
    /\ runs \in [Slots -> RunType]
    /\ worker \in [phase: {"idle", "started", "pushed"},
                   owner: {0} \cup Slots, aborted: BOOLEAN]
    /\ page \in [busy: {"no", "choosing", "manual"}, outcome: Outcomes]
    /\ pending \in BOOLEAN /\ captured \in BOOLEAN
    /\ changes \in 0..MaxChanges /\ troubles \in 0..MaxTroubles

Init ==
    /\ online = TRUE /\ hidden = FALSE /\ notice = "none"
    /\ provider \in Selections
    /\ sched = [started |-> FALSE, reason |-> "none", wait |-> NoTimer,
                queued |-> "none", quietFor |-> NoTimer, phase |-> "idle",
                poll |-> NoTimer, shown |-> provider, lastResult |-> "none",
                active |-> 0, retryAfter |-> [p \in Providers |-> 0],
                history |-> [p \in Providers |-> "none"]]
    /\ runs = [i \in Slots |-> NoRun]
    /\ worker = IdleWorker
    /\ page = FreePage
    /\ pending = FALSE /\ captured = FALSE
    /\ changes = 0 /\ troubles = 0

-----------------------------------------------------------------------------
(* The methods of the scheduler, as functions on its fields.                *)

MergeReasons(current, incoming) ==
    IF current \in {"none", "quiet"} THEN incoming ELSE current

ActivateHistory(s) ==
    IF provider \in {"none", s.shown} THEN s
    ELSE [s EXCEPT !.shown = provider, !.lastResult = s.history[provider]]

ClearScheduledTimer(s) == [s EXCEPT !.wait = NoTimer, !.reason = "none"]

Schedule(s, reason, delay) ==
    [s EXCEPT !.reason = reason, !.wait = delay, !.phase = "scheduled"]

\* requestImmediate and requestQuiet without a connection.
QueueOffline(s, reason) ==
    [ClearScheduledTimer(s) EXCEPT !.queued = MergeReasons(@, reason),
                                   !.phase = "offline"]

\* The Retry-After deadlines, kept in memory and in the browser's storage (where
\* that fails, in memory alone).  One that has passed is cleared when it is read.
readProviderRetryDelay(s, p) == s.retryAfter[p]
persistProviderRetryAfter(s, p) == [s EXCEPT !.retryAfter[p] = RetryDelay]
clearProviderRetryAfter(s, p) == [s EXCEPT !.retryAfter[p] = 0]

\* Mutant: an immediate request does not wait for the Retry-After deadline.
RequestImmediateAtOnce(fields) ==
    LET s == ActivateHistory(fields) IN
    IF ~s.started \/ provider = "none" THEN fields
    ELSE IF ~online THEN QueueOffline(s, "now")
    ELSE IF s.active # 0 THEN [s EXCEPT !.queued = MergeReasons(@, "now")]
    ELSE Schedule(s, "now", 0)

RequestImmediate(fields) ==
    LET s == ActivateHistory(fields) IN
    IF ~s.started \/ provider = "none" THEN fields
    ELSE IF ~online THEN QueueOffline(s, "now")
    ELSE IF s.active # 0 THEN [s EXCEPT !.queued = MergeReasons(@, "now")]
    ELSE Schedule(s, "now", readProviderRetryDelay(s, provider))

RequestQuiet(fields, delay) ==
    LET s == ActivateHistory(fields) IN
    IF ~s.started \/ provider = "none" THEN fields
    ELSE IF ~online THEN QueueOffline(s, "quiet")
    ELSE IF s.active # 0
         THEN [s EXCEPT !.queued = MergeReasons(@, "quiet"), !.quietFor = delay]
    ELSE IF s.reason = "now" THEN s
    ELSE Schedule(s, "quiet", IF readProviderRetryDelay(s, provider) > delay
                              THEN readProviderRetryDelay(s, provider) ELSE delay)

RevisionPollingEnabled(s, selected, background) ==
    /\ s.started /\ online /\ ~background
    /\ \/ selected = "git"
       \/ selected = "mega" /\ s.lastResult = "maintenance"

ScheduleRevisionCheck(s, selected, background) ==
    [s EXCEPT !.poll = IF RevisionPollingEnabled(s, selected, background)
                       THEN PollDelay ELSE NoTimer]

RecordSuccess(s, p, result) ==
    LET recorded == [s EXCEPT !.phase = "idle", !.lastResult = result,
                              !.history[p] = result] IN
    IF p = "mega" THEN ScheduleRevisionCheck(recorded, provider, hidden)
    ELSE recorded

ClearHistory(s, p) ==
    [s EXCEPT !.history[p] = "none",
              !.lastResult = IF s.shown = p THEN "none" ELSE @]

HandleOffline(s) ==
    IF ~s.started \/ provider = "none" THEN s
    ELSE [ClearScheduledTimer(s) EXCEPT
            !.queued = IF s.reason = "none" THEN @ ELSE MergeReasons(@, s.reason),
            !.phase = "offline"]

-----------------------------------------------------------------------------
(* Lifecycle, local changes and the browser's events.                       *)

Start ==
    /\ ~sched.started
    /\ sched' = ScheduleRevisionCheck(
                    RequestImmediate(
                        ActivateHistory([sched EXCEPT !.started = TRUE])),
                    provider, hidden)
    /\ UNCHANGED <<environment, journal, provider, runs,
                   worker, page, troubles>>

AbortRun(i) == runs' = [runs EXCEPT ![i].aborted = TRUE]

\* The abort signal reaches the worker only if the aborting caller started it.
AbortWorker(i) ==
    worker' = IF worker.phase # "idle" /\ worker.owner = i
              THEN [worker EXCEPT !.aborted = TRUE] ELSE worker

\* Mutant: stop forgets the run that is still in flight.
StopForgetsRun ==
    /\ sched.started
    /\ troubles < MaxTroubles
    /\ troubles' = troubles + 1
    /\ sched' = [ClearScheduledTimer(sched) EXCEPT
                    !.started = FALSE, !.poll = NoTimer, !.queued = "none",
                    !.quietFor = NoTimer, !.phase = "idle", !.active = 0]
    /\ UNCHANGED <<environment, journal, provider, runs, worker,
                   page>>

Stop ==
    /\ sched.started
    /\ troubles < MaxTroubles
    /\ troubles' = troubles + 1
    /\ sched' = [ClearScheduledTimer(sched) EXCEPT
                    !.started = FALSE, !.poll = NoTimer, !.queued = "none",
                    !.quietFor = NoTimer, !.phase = "idle"]
    /\ IF sched.active = 0 THEN UNCHANGED <<runs, worker>>
       ELSE AbortRun(sched.active) /\ AbortWorker(sched.active)
    /\ UNCHANGED <<environment, journal, provider, page>>

\* NotifyingSyncOperationJournal.append, then the activity subscription.
LocalChange(kind) ==
    /\ changes < MaxChanges
    /\ changes' = changes + 1
    /\ pending' = TRUE
    /\ sched' = IF kind = "book" \/ hidden THEN RequestImmediate(sched)
                ELSE RequestQuiet(sched, QuietDelay)
    /\ UNCHANGED <<environment, provider, runs, worker, page,
                   captured, troubles>>

\* navigator.onLine changes before its event is dispatched.
ConnectivityChanges ==
    /\ notice = "none"
    /\ online' = ~online
    /\ notice' = IF online THEN "offline" ELSE "online"
    /\ UNCHANGED <<hidden, provider, sched, runs, worker,
                   page, journal, troubles>>

\* Mutant: the offline handler drops the timer and leaves the status as it was.
OnConnectivityQuiet ==
    /\ notice # "none"
    /\ notice' = "none"
    /\ sched' = ClearScheduledTimer(sched)
    /\ UNCHANGED <<online, hidden, provider, runs, worker,
                   page, journal, troubles>>

\* The onOnline and onOffline subscriptions (none while stopped).
OnConnectivity ==
    /\ notice # "none"
    /\ notice' = "none"
    /\ sched' =
        IF ~sched.started THEN sched
        ELSE IF notice = "online"
        THEN ScheduleRevisionCheck(
                RequestImmediate([sched EXCEPT !.queued = "none"]),
                provider, hidden)
        ELSE HandleOffline([sched EXCEPT !.poll = NoTimer])
    /\ UNCHANGED <<online, hidden, provider, runs, worker,
                   page, journal, troubles>>

OnVisibilityChange ==
    /\ hidden' = ~hidden
    /\ sched' =
        IF ~sched.started THEN sched
        ELSE IF ~hidden THEN [sched EXCEPT !.poll = NoTimer]
        ELSE ScheduleRevisionCheck(
                IF provider = "git" THEN RequestImmediate(sched) ELSE sched,
                provider, FALSE)
    /\ UNCHANGED <<online, notice, provider, runs, worker,
                   page, journal, troubles>>

-----------------------------------------------------------------------------
(* Timers.                                                                  *)

\* synchronize() of the worker: a caller joins the run in flight, if any.
CallWorker(i) ==
    worker' = IF worker.phase = "idle"
              THEN [phase |-> "started", owner |-> i, aborted |-> FALSE]
              ELSE worker

\* The scheduled timer fires: runAutomatic up to its await.
TimerFires ==
    LET s == ClearScheduledTimer(sched)
        queue == [s EXCEPT !.queued = MergeReasons(@, sched.reason)]
        i == IF runs[1].awaiting THEN 2 ELSE 1
    IN
    /\ sched.wait = 0
    /\ IF s.started /\ provider # "none" /\ online /\ s.active = 0
       THEN /\ runs' = [runs EXCEPT ![i] =
                    [awaiting |-> TRUE, provider |-> provider,
                     reason |-> sched.reason, aborted |-> FALSE,
                     outcome |-> "none"]]
            /\ sched' = [s EXCEPT !.phase = "syncing", !.active = i]
            /\ CallWorker(i)
       ELSE /\ sched' = IF ~s.started \/ provider = "none"
                        THEN [s EXCEPT !.phase = "idle"]
                        ELSE IF ~online THEN [queue EXCEPT !.phase = "offline"]
                        ELSE queue
            /\ UNCHANGED <<runs, worker>>
    /\ UNCHANGED <<environment, journal, provider, page, troubles>>

\* Mutant: the revision check is not armed again.
PollFiresOnce ==
    LET due == [sched EXCEPT !.poll = NoTimer] IN
    /\ sched.poll = 0
    /\ sched' = IF /\ RevisionPollingEnabled(due, provider, hidden)
                   /\ due.wait = NoTimer /\ due.active = 0
                THEN RequestImmediate(due) ELSE due
    /\ UNCHANGED <<environment, journal, provider, runs, worker, page, troubles>>

PollFires ==
    LET due == [sched EXCEPT !.poll = NoTimer] IN
    /\ sched.poll = 0
    /\ sched' = ScheduleRevisionCheck(
                    IF /\ RevisionPollingEnabled(due, provider, hidden)
                       /\ due.wait = NoTimer /\ due.active = 0
                    THEN RequestImmediate(due) ELSE due,
                    provider, hidden)
    /\ UNCHANGED <<environment, journal, provider, runs,
                   worker, page, troubles>>

\* Time passes for every timer and every deadline.
Elapse(wait) == IF wait > 0 THEN wait - 1 ELSE wait

Tick ==
    /\ \/ sched.wait > 0 \/ sched.poll > 0 \/ sched.quietFor > 0
       \/ \E p \in Providers : sched.retryAfter[p] > 0
    /\ sched' = [sched EXCEPT
                    !.wait = Elapse(@), !.poll = Elapse(@), !.quietFor = Elapse(@),
                    !.retryAfter = [p \in Providers |-> Elapse(@[p])]]
    /\ UNCHANGED <<environment, journal, provider, runs, worker, page,
                   troubles>>

-----------------------------------------------------------------------------
(* The worker (one promise for all its callers) and the end of a run.       *)

\* The worker reads the journal, and pushes what it read.
WorkerReads ==
    /\ worker.phase = "started"
    /\ worker' = [worker EXCEPT !.phase = "pushed"]
    /\ captured' = pending
    /\ pending' = FALSE
    /\ UNCHANGED <<environment, provider, sched, runs, page,
                   changes, troubles>>

\* The promise settles for every caller that awaits it.  An abort is an
\* ordinary failure to a caller whose own signal is not aborted.
Settle(outcome) ==
    /\ runs' = [i \in Slots |->
                    IF runs[i].awaiting /\ runs[i].outcome = "none"
                    THEN [runs[i] EXCEPT !.outcome = outcome] ELSE runs[i]]
    /\ page' = IF page.busy = "manual" /\ page.outcome = "none"
               THEN [page EXCEPT !.outcome = outcome] ELSE page
    /\ worker' = IdleWorker

WorkerSucceeds(outcome) ==
    /\ worker.phase = "pushed"
    /\ outcome \in {"ok", "maintenance"}
    /\ Settle(outcome)
    /\ captured' = FALSE
    /\ UNCHANGED <<environment, provider, sched, pending,
                   changes, troubles>>

WorkerFails(outcome) ==
    /\ worker.phase # "idle"
    /\ outcome \in {"failed", "limited"}
    /\ \/ outcome = "failed" /\ worker.aborted /\ UNCHANGED troubles
       \/ troubles < MaxTroubles /\ troubles' = troubles + 1
    /\ Settle(outcome)
    /\ pending' = (pending \/ captured)
    /\ captured' = FALSE
    /\ UNCHANGED <<environment, provider, sched, changes>>

ResultOf(outcome) == IF outcome = "ok" THEN "clean" ELSE "maintenance"
Succeeded(outcome) == outcome \in {"ok", "maintenance"}

\* runAutomatic after its await: the success path and the catch block.
RunResult(run) ==
    IF ~sched.started THEN sched
    ELSE IF run.aborted
    THEN [sched EXCEPT !.queued = "none", !.phase = "cancelled"]
    ELSE IF Succeeded(run.outcome)
    THEN RecordSuccess(clearProviderRetryAfter(sched, run.provider),
                       run.provider, ResultOf(run.outcome))
    ELSE IF run.outcome = "limited"
    THEN persistProviderRetryAfter(sched, run.provider)
    ELSE [sched EXCEPT !.phase = "error"]

\* The finally block of runAutomatic.
Finally(i, s) ==
    LET run == runs[i]
        queued == s.queued
        freed == [s EXCEPT !.quietFor = NoTimer, !.queued = "none",
                           !.active = IF @ = i THEN 0 ELSE @]
    IN
    IF ~s.started \/ run.aborted THEN freed
    ELSE IF run.outcome = "limited"
    THEN Schedule(freed, MergeReasons(queued, run.reason), RetryDelay)
    ELSE CASE queued = "none"  -> freed
           [] queued = "quiet" ->
                RequestQuiet(freed, IF s.quietFor = NoTimer THEN QuietDelay
                                    ELSE s.quietFor)
           [] queued = "now"   -> RequestImmediate(freed)

RunSettles(i) ==
    LET run == runs[i] IN
    /\ run.awaiting /\ run.outcome # "none"
    /\ sched' = Finally(i, RunResult(run))
    /\ runs' = [runs EXCEPT ![i] = NoRun]
    /\ UNCHANGED <<environment, journal, provider, worker, page, troubles>>

-----------------------------------------------------------------------------
(* The settings page: one operation at a time (busy), and none while the    *)
(* status shows a running synchronization.                                  *)

PageIsFree == page.busy = "no" /\ sched.phase \notin {"syncing", "cancelling"}

\* platform.onBackground and the "Retry now" button of the settings page.
RequestNow ==
    /\ hidden \/ PageIsFree
    /\ sched' = RequestImmediate(sched)
    /\ UNCHANGED <<environment, journal, provider, runs,
                   worker, page, troubles>>

\* chooseProvider: the selection changes (and its listener runs) before the
\* gateway has answered.
ChooseProvider(p) ==
    /\ PageIsFree
    /\ troubles < MaxTroubles
    /\ troubles' = troubles + 1
    /\ provider' = p
    /\ sched' = ScheduleRevisionCheck(sched, p, hidden)
    /\ page' = [page EXCEPT !.busy = "choosing"]
    /\ UNCHANGED <<environment, journal, runs, worker>>

\* The gateway answered: request a synchronization if a destination is
\* configured; a new destination clears the history of its provider.
ChooseEnds ==
    /\ page.busy = "choosing"
    /\ page' = FreePage
    /\ sched' \in {sched, RequestImmediate(sched),
                  RequestImmediate(ClearHistory(sched, provider))}
    /\ UNCHANGED <<environment, journal, provider, runs, worker, troubles>>

Disconnect ==
    /\ PageIsFree
    /\ provider # "none"
    /\ troubles < MaxTroubles
    /\ troubles' = troubles + 1
    /\ provider' = "none"
    /\ sched' = ScheduleRevisionCheck(sched, "none", hidden)
    /\ UNCHANGED <<environment, journal, runs, worker, page>>

\* syncNow, which the worker sees as caller 0.
SyncNow ==
    /\ PageIsFree
    /\ provider # "none"
    /\ page' = [busy |-> "manual", outcome |-> "none"]
    /\ CallWorker(0)
    /\ UNCHANGED <<environment, journal, provider, sched, runs,
                   troubles>>

\* syncNow after its await: recordManualSuccess, or an error message.
SyncNowSettles ==
    /\ page.busy = "manual" /\ page.outcome # "none"
    /\ page' = FreePage
    /\ sched' = IF Succeeded(page.outcome) /\ provider # "none"
                THEN RecordSuccess(
                        [ClearScheduledTimer(ActivateHistory(sched)) EXCEPT
                            !.queued = "none"],
                        provider, ResultOf(page.outcome))
                ELSE sched
    /\ UNCHANGED <<environment, journal, provider, runs, worker, troubles>>

\* cancelSync, and leaving the page.
CancelManual ==
    /\ page.busy = "manual"
    /\ worker.phase # "idle" /\ worker.owner = 0 /\ ~worker.aborted
    /\ troubles < MaxTroubles
    /\ troubles' = troubles + 1
    /\ worker' = [worker EXCEPT !.aborted = TRUE]
    /\ UNCHANGED <<environment, journal, provider, sched, runs, page>>

CancelActive ==
    LET i == sched.active IN
    /\ i # 0
    /\ ~runs[i].aborted
    /\ troubles < MaxTroubles
    /\ troubles' = troubles + 1
    /\ AbortRun(i) /\ AbortWorker(i)
    /\ sched' = [sched EXCEPT !.queued = "none", !.quietFor = NoTimer,
                              !.phase = "cancelling"]
    /\ UNCHANGED <<environment, journal, provider, page>>

WorkerStep ==
    \/ WorkerReads
    \/ \E outcome \in {"ok", "maintenance"} : WorkerSucceeds(outcome)

Next ==
    \/ Start \/ Stop \/ RequestNow
    \/ \E kind \in {"book", "reading"} : LocalChange(kind)
    \/ ConnectivityChanges \/ OnConnectivity \/ OnVisibilityChange
    \/ TimerFires \/ PollFires \/ Tick
    \/ WorkerStep \/ \E outcome \in {"failed", "limited"} : WorkerFails(outcome)
    \/ \E i \in Slots : RunSettles(i)
    \/ \E p \in Providers : ChooseProvider(p)
    \/ ChooseEnds \/ Disconnect
    \/ SyncNow \/ SyncNowSettles \/ CancelManual \/ CancelActive

\* Timers fire, events are delivered and promises settle.
Fairness ==
    /\ WF_vars(TimerFires) /\ WF_vars(PollFires) /\ WF_vars(Tick)
    /\ WF_vars(OnConnectivity)
    /\ WF_vars(WorkerStep) /\ WF_vars(\E i \in Slots : RunSettles(i))
    /\ WF_vars(SyncNowSettles) /\ WF_vars(ChooseEnds)

Spec == Init /\ [][Next]_vars /\ Fairness

-----------------------------------------------------------------------------
(* Properties.                                                              *)

\* At most one automatic synchronization is in flight, whatever is stopped,
\* restarted, cancelled or requested meanwhile (activeSync in runAutomatic).
SingleFlight == \A i, j \in Slots : runs[i].awaiting /\ runs[j].awaiting => i = j

\* The status is backed by what the scheduler holds: a scheduled status has a
\* timer, a running one a run, and no timer is set while a run is active, so
\* no status can stay for ever without anything that will change it.
StatusIsBacked ==
    /\ sched.phase = "scheduled" => sched.wait # NoTimer
    /\ sched.phase \in {"syncing", "cancelling"} => sched.active # 0
    /\ sched.wait # NoTimer => sched.active = 0
    /\ sched.active # 0 => runs[sched.active].awaiting

\* No automatic synchronization starts before the Retry-After deadline of the
\* provider it runs on.
NoEarlyRetry ==
    [][\A i \in Slots : ~runs[i].awaiting /\ runs'[i].awaiting =>
            sched.retryAfter[runs'[i].provider] = 0]_vars

\* status() reports the last success of the selected provider, not that of
\* another one: it stays truthful when a run ends after the provider changed.
ShownResultIsTrue ==
    provider # "none" => ActivateHistory(sched).lastResult = sched.history[provider]

\* A change journalled while the scheduler runs is sent: once the application
\* stays started, visible and online, the journal is drained again and again.
Reachable == sched.started /\ online /\ ~hidden /\ provider # "none"
ChangesAreSent == <>[]Reachable => []<>~(pending \/ captured)

=============================================================================
