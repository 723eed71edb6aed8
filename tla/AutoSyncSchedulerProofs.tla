---------------------- MODULE AutoSyncSchedulerProofs ----------------------
(* What holds of the scheduler for every choice of providers, delays and    *)
(* bounds.                                                                  *)
EXTENDS AutoSyncScheduler, TLAPS

-----------------------------------------------------------------------------
(* The inductive invariant.                                                 *)

\* What the fields of the scheduler say of each other.  A stopped scheduler
\* shows neither a timer nor a run.
Healthy(s) ==
    /\ s.phase = "scheduled" => s.wait # NoTimer
    /\ s.phase \in {"syncing", "cancelling"} => s.active # 0
    /\ s.wait # NoTimer => s.active = 0
    /\ ~s.started => s.phase \notin {"scheduled", "syncing", "cancelling"}

\* The run that awaits the worker is the active one; a stopped scheduler has
\* aborted it.
Linked ==
    /\ \A i \in Slots :
         runs[i].awaiting => sched.active = i /\ runs[i].provider \in Providers
    /\ sched.active # 0 =>
         /\ runs[sched.active].awaiting
         /\ ~sched.started => runs[sched.active].aborted

\* The timer does not fire before a Retry-After deadline.
OneProvider == \A p, q \in Providers : p = q
Deadline(s) == \A p \in Providers : s.wait # NoTimer => s.retryAfter[p] <= s.wait

Inv == TypeOK /\ Healthy(sched) /\ Linked /\ (OneProvider => Deadline(sched))

-----------------------------------------------------------------------------
(* The methods of the scheduler.                                            *)

\* What the proofs read of the fields is the same.
Core(s, t) ==
    /\ t \in SchedType /\ t.started = s.started /\ t.phase = s.phase
    /\ t.wait = s.wait /\ t.active = s.active /\ t.retryAfter = s.retryAfter

\* A request leaves timer and status alone, drops the timer while there is no
\* connection, or sets it for no earlier than the deadline of the provider.
Requested(s, t) ==
    /\ t \in SchedType /\ t.started = s.started /\ t.active = s.active
    /\ t.retryAfter = s.retryAfter
    /\ \/ t.wait = s.wait /\ t.phase = s.phase
       \/ s.started /\ t.wait = NoTimer /\ t.phase = "offline"
       \/ /\ s.started /\ s.active = 0 /\ provider \in Providers
          /\ t.phase = "scheduled" /\ t.wait \in Nat
          /\ s.retryAfter[provider] <= t.wait

\* The fields of a scheduler have their types.
LEMMA Fields ==
  ASSUME NEW s \in SchedType
  PROVE  /\ s.started \in BOOLEAN /\ s.reason \in Reasons /\ s.queued \in Reasons
         /\ s.wait \in Nat \cup {NoTimer} /\ s.quietFor \in Nat \cup {NoTimer}
         /\ s.poll \in Nat \cup {NoTimer} /\ s.active \in {0} \cup Slots
         /\ s.retryAfter \in [Providers -> Nat] /\ s.history \in [Providers -> Results]
  BY DEF SchedType

\* mergeReasons returns a reason.
LEMMA MergeTyped ==
  ASSUME NEW a \in Reasons, NEW b \in Reasons
  PROVE  MergeReasons(a, b) \in Reasons
  BY DEF MergeReasons

\* activateHistory touches only what the status shows.
LEMMA ActivateKeeps ==
  ASSUME NEW s \in SchedType, provider \in Selections
  PROVE  Core(s, ActivateHistory(s))
<1>1. CASE provider \in {"none", s.shown}
  BY <1>1 DEF ActivateHistory, Core
<1>2. CASE provider \notin {"none", s.shown}
  <2> DEFINE result == s.history[provider]
             t == [s EXCEPT !.shown = provider, !.lastResult = result]
  <2>1. result \in Results
    BY <1>2, Fields DEF Selections
  <2>2. ActivateHistory(s) = t
    BY <1>2 DEF ActivateHistory
  <2> HIDE DEF result
  <2>3. t \in SchedType
    BY Zenon, <2>1 DEF SchedType
  <2>4. /\ t.started = s.started /\ t.phase = s.phase /\ t.wait = s.wait
        /\ t.active = s.active /\ t.retryAfter = s.retryAfter
    BY DEF SchedType
  <2> QED
    BY <2>2, <2>3, <2>4 DEF Core
<1> QED
  BY <1>1, <1>2

\* clearScheduledTimer drops the timer and its reason.
LEMMA ClearTimer ==
  ASSUME NEW s \in SchedType
  PROVE  LET t == ClearScheduledTimer(s) IN
         /\ t \in SchedType /\ t.wait = NoTimer /\ t.started = s.started
         /\ t.phase = s.phase /\ t.active = s.active /\ t.retryAfter = s.retryAfter
         /\ t.queued = s.queued
  BY Zenon DEF ClearScheduledTimer, SchedType, Reasons

\* schedule sets the timer and the status that announces it.
LEMMA ScheduleTyped ==
  ASSUME NEW s \in SchedType, NEW reason \in Reasons, NEW delay \in Nat
  PROVE  LET t == Schedule(s, reason, delay) IN
         /\ t \in SchedType /\ t.wait = delay /\ t.started = s.started
         /\ t.phase = "scheduled" /\ t.active = s.active /\ t.retryAfter = s.retryAfter
  BY Zenon DEF Schedule, SchedType

\* Without a connection a request waits in the queue, without a timer.
LEMMA QueueOfflineTyped ==
  ASSUME NEW s \in SchedType, NEW reason \in Reasons
  PROVE  LET t == QueueOffline(s, reason) IN
         /\ t \in SchedType /\ t.wait = NoTimer /\ t.started = s.started
         /\ t.phase = "offline" /\ t.active = s.active /\ t.retryAfter = s.retryAfter
<1> DEFINE c == ClearScheduledTimer(s)
<1>1. /\ c \in SchedType /\ c.wait = NoTimer /\ c.started = s.started
      /\ c.active = s.active /\ c.retryAfter = s.retryAfter /\ c.queued = s.queued
  BY ClearTimer
<1>2. MergeReasons(c.queued, reason) \in Reasons
  BY <1>1, MergeTyped, Fields
<1> HIDE DEF c
<1>3. LET t == [c EXCEPT !.queued = MergeReasons(@, reason), !.phase = "offline"] IN
         /\ t \in SchedType /\ t.wait = c.wait /\ t.started = c.started
         /\ t.phase = "offline" /\ t.active = c.active /\ t.retryAfter = c.retryAfter
  BY ZenonT(40), <1>1, <1>2 DEF SchedType
<1> QED
  BY <1>1, <1>3 DEF QueueOffline, c

\* Queueing a reason for the end of the run.
LEMMA QueueTyped ==
  ASSUME NEW s \in SchedType, NEW reason \in Reasons
  PROVE  Core(s, [s EXCEPT !.queued = MergeReasons(@, reason)])
<1>1. MergeReasons(s.queued, reason) \in Reasons
  BY MergeTyped, Fields
<1> QED
  BY <1>1 DEF SchedType, Core

\* A quiet request during a run waits in the queue.
LEMMA QueueQuietTyped ==
  ASSUME NEW s \in SchedType, NEW delay \in Nat
  PROVE  Core(s, [s EXCEPT !.queued = MergeReasons(@, "quiet"), !.quietFor = delay])
<1>1. MergeReasons(s.queued, "quiet") \in Reasons
  BY MergeTyped, Fields DEF Reasons
<1> QED
  BY Zenon, <1>1 DEF SchedType, Core

\* requestImmediate makes a request.
LEMMA RequestImmediateRequests ==
  ASSUME NEW fields \in SchedType, provider \in Selections
  PROVE  Requested(fields, RequestImmediate(fields))
<1> DEFINE s == ActivateHistory(fields)
           t == RequestImmediate(fields)
<1>1. Core(fields, s)
  BY ActivateKeeps
<1>2. CASE ~s.started \/ provider = "none"
  BY <1>2 DEF RequestImmediate, Requested
<1>3. CASE s.started /\ provider # "none"
  <2>1. provider \in Providers /\ s \in SchedType /\ "now" \in Reasons
    BY <1>1, <1>3 DEF Selections, Core, Reasons
  <2>2. s.retryAfter[provider] \in Nat
    BY <2>1, Fields
  <2> HIDE DEF s
  <2>3. CASE ~online
    <3>1. t = QueueOffline(s, "now")
      BY <1>3, <2>3 DEF RequestImmediate, readProviderRetryDelay, s
    <3>2. /\ t \in SchedType /\ t.wait = NoTimer /\ t.started = s.started
          /\ t.phase = "offline" /\ t.active = s.active /\ t.retryAfter = s.retryAfter
      BY <2>1, <3>1, QueueOfflineTyped
    <3> QED
      BY <1>1, <1>3, <3>2 DEF Requested, Core
  <2>4. CASE online /\ s.active # 0
    <3>1. t = [s EXCEPT !.queued = MergeReasons(@, "now")]
      BY <1>3, <2>4 DEF RequestImmediate, readProviderRetryDelay, s
    <3>2. Core(s, t)
      BY <2>1, <3>1, QueueTyped
    <3> QED
      BY <1>1, <3>2 DEF Requested, Core
  <2>5. CASE online /\ s.active = 0
    <3>1. t = Schedule(s, "now", s.retryAfter[provider])
      BY <1>3, <2>5 DEF RequestImmediate, readProviderRetryDelay, s
    <3>2. /\ t \in SchedType /\ t.wait = s.retryAfter[provider] /\ t.started = s.started
          /\ t.phase = "scheduled" /\ t.active = s.active /\ t.retryAfter = s.retryAfter
      BY SMTT(40), <2>1, <2>2, <3>1, ScheduleTyped
    <3> QED
      BY <1>1, <1>3, <2>1, <2>2, <2>5, <3>2 DEF Requested, Core
  <2> QED
    BY <2>3, <2>4, <2>5
<1> QED
  BY <1>2, <1>3

\* requestQuiet makes a request; its timer covers the deadline as well.
LEMMA RequestQuietRequests ==
  ASSUME NEW fields \in SchedType, NEW delay \in Nat, provider \in Selections
  PROVE  Requested(fields, RequestQuiet(fields, delay))
<1> DEFINE s == ActivateHistory(fields)
           t == RequestQuiet(fields, delay)
<1>1. Core(fields, s)
  BY ActivateKeeps
<1>2. CASE ~s.started \/ provider = "none"
  BY <1>2 DEF RequestQuiet, Requested
<1>3. CASE s.started /\ provider # "none"
  <2>1. provider \in Providers /\ s \in SchedType /\ "quiet" \in Reasons
    BY <1>1, <1>3 DEF Selections, Core, Reasons
  <2>2. s.retryAfter[provider] \in Nat
    BY <2>1, Fields
  <2> HIDE DEF s
  <2>3. CASE ~online
    <3>1. t = QueueOffline(s, "quiet")
      BY <1>3, <2>3 DEF RequestQuiet, readProviderRetryDelay, s
    <3>2. /\ t \in SchedType /\ t.wait = NoTimer /\ t.started = s.started
          /\ t.phase = "offline" /\ t.active = s.active /\ t.retryAfter = s.retryAfter
      BY <2>1, <3>1, QueueOfflineTyped
    <3> QED
      BY <1>1, <1>3, <3>2 DEF Requested, Core
  <2>4. CASE online /\ s.active # 0
    <3>1. t = [s EXCEPT !.queued = MergeReasons(@, "quiet"), !.quietFor = delay]
      BY SMTT(40), <1>3, <2>4 DEF RequestQuiet, readProviderRetryDelay, s
    <3>2. Core(s, t)
      BY Zenon, <2>1, <3>1, QueueQuietTyped
    <3> QED
      BY <1>1, <3>2 DEF Requested, Core
  <2>5. CASE online /\ s.active = 0 /\ s.reason = "now"
    <3>1. t = s
      BY <1>3, <2>5 DEF RequestQuiet, readProviderRetryDelay, s
    <3> QED
      BY <1>1, <3>1 DEF Requested, Core
  <2>6. CASE online /\ s.active = 0 /\ s.reason # "now"
    <3> DEFINE w == IF s.retryAfter[provider] > delay THEN s.retryAfter[provider] ELSE delay
    <3>1. t = Schedule(s, "quiet", w)
      BY <1>3, <2>6 DEF RequestQuiet, readProviderRetryDelay, s
    <3>2. w \in Nat /\ s.retryAfter[provider] <= w
      BY <2>2
    <3> HIDE DEF w
    <3>3. /\ t \in SchedType /\ t.wait = w /\ t.started = s.started
          /\ t.phase = "scheduled" /\ t.active = s.active /\ t.retryAfter = s.retryAfter
      BY <2>1, <3>1, <3>2, ScheduleTyped
    <3> QED
      BY <1>1, <1>3, <2>1, <2>6, <3>2, <3>3 DEF Requested, Core
  <2> QED
    BY <2>3, <2>4, <2>5, <2>6
<1> QED
  BY <1>2, <1>3

\* scheduleRevisionCheck touches only its own timer.
LEMMA RevisionCheckKeeps ==
  ASSUME NEW s \in SchedType, NEW selected, NEW background
  PROVE  Core(s, ScheduleRevisionCheck(s, selected, background))
<1>1. PollDelay \in Nat
  BY SchedulerAssumption
<1> QED
  BY <1>1 DEF ScheduleRevisionCheck, SchedType, Core

\* recordSuccess leaves timer, run and deadlines alone, and the status idle.
LEMMA RecordSuccessTyped ==
  ASSUME NEW s \in SchedType, NEW p \in Providers, NEW result \in Results
  PROVE  LET t == RecordSuccess(s, p, result) IN
         /\ t \in SchedType /\ t.wait = s.wait /\ t.started = s.started
         /\ t.phase = "idle" /\ t.active = s.active /\ t.retryAfter = s.retryAfter
<1> DEFINE r == [s EXCEPT !.phase = "idle", !.lastResult = result, !.history[p] = result]
<1>1. /\ r \in SchedType /\ r.wait = s.wait /\ r.started = s.started
      /\ r.phase = "idle" /\ r.active = s.active /\ r.retryAfter = s.retryAfter
  BY Zenon DEF SchedType
<1> HIDE DEF r
<1>2. Core(r, ScheduleRevisionCheck(r, provider, hidden))
  BY <1>1, RevisionCheckKeeps
<1> QED
  BY <1>1, <1>2 DEF RecordSuccess, r, Core

\* clearHistory touches only what the status shows.
LEMMA ClearHistoryKeeps ==
  ASSUME NEW s \in SchedType, NEW p \in Selections
  PROVE  Core(s, ClearHistory(s, p))
  BY ZenonT(40) DEF ClearHistory, SchedType, Core, Results

-----------------------------------------------------------------------------
(* Requests keep the fields healthy.                                        *)

\* What the proofs do not read cannot break them.
LEMMA CoreHealthy ==
  ASSUME NEW s, NEW t, Core(s, t), Healthy(s)
  PROVE  Healthy(t) /\ (Deadline(s) => Deadline(t))
  BY DEF Core, Healthy, Deadline

\* A request keeps the fields consistent and the deadline covered.
LEMMA RequestedHealthy ==
  ASSUME NEW s \in SchedType, NEW t, Requested(s, t), Healthy(s)
  PROVE  Healthy(t) /\ (OneProvider /\ Deadline(s) => Deadline(t))
<1>1. Healthy(t)
  BY DEF Requested, Healthy, NoTimer
<1>2. ASSUME OneProvider, Deadline(s) PROVE Deadline(t)
  BY <1>2 DEF Requested, Deadline, OneProvider, NoTimer
<1> QED
  BY <1>1, <1>2

\* handleOffline drops the timer like a request without a connection.
LEMMA HandleOfflineRequests ==
  ASSUME NEW s \in SchedType
  PROVE  Requested(s, HandleOffline(s))
<1> DEFINE c == ClearScheduledTimer(s)
           q == IF s.reason = "none" THEN c.queued ELSE MergeReasons(c.queued, s.reason)
           t == [c EXCEPT !.queued = q, !.phase = "offline"]
<1>1. CASE ~s.started \/ provider = "none"
  BY <1>1 DEF HandleOffline, Requested
<1>2. CASE s.started /\ provider # "none"
  <2>1. /\ c \in SchedType /\ c.wait = NoTimer /\ c.started = s.started
        /\ c.active = s.active /\ c.retryAfter = s.retryAfter
    BY ClearTimer
  <2>2. HandleOffline(s) = t
    BY <1>2 DEF HandleOffline
  <2>3. q \in Reasons
    BY <2>1, Fields, MergeTyped
  <2> HIDE DEF c, q
  <2>4. /\ t \in SchedType /\ t.wait = c.wait /\ t.started = c.started
        /\ t.phase = "offline" /\ t.active = c.active /\ t.retryAfter = c.retryAfter
    BY ZenonT(40), <2>1, <2>3 DEF SchedType
  <2> HIDE DEF t
  <2> QED
    BY <1>2, <2>1, <2>2, <2>4 DEF Requested
<1> QED
  BY <1>1, <1>2

-----------------------------------------------------------------------------
(* Types.                                                                   *)

\* Everything but the fields of the scheduler.
RestOK ==
    /\ online \in BOOLEAN /\ hidden \in BOOLEAN
    /\ notice \in {"none", "online", "offline"}
    /\ provider \in Selections
    /\ runs \in [Slots -> RunType]
    /\ worker \in [phase: {"idle", "started", "pushed"},
                   owner: {0} \cup Slots, aborted: BOOLEAN]
    /\ page \in [busy: {"no", "choosing", "manual"}, outcome: Outcomes]
    /\ pending \in BOOLEAN /\ captured \in BOOLEAN
    /\ changes \in 0..MaxChanges /\ troubles \in 0..MaxTroubles

\* synchronize() starts a worker or joins the one in flight.
LEMMA CallWorkerTyped ==
  ASSUME TypeOK, NEW i \in {0} \cup Slots, CallWorker(i)
  PROVE  worker' \in [phase: {"idle", "started", "pushed"},
                      owner: {0} \cup Slots, aborted: BOOLEAN]
  BY DEF TypeOK, CallWorker

\* An abort changes nothing of the runs but the flag.
LEMMA AbortTyped ==
  ASSUME TypeOK, NEW i \in Slots, AbortRun(i), AbortWorker(i)
  PROVE  /\ runs' \in [Slots -> RunType]
         /\ worker' \in [phase: {"idle", "started", "pushed"},
                         owner: {0} \cup Slots, aborted: BOOLEAN]
         /\ \A j \in Slots : /\ runs'[j].awaiting = runs[j].awaiting
                             /\ runs'[j].provider = runs[j].provider
         /\ runs'[i].aborted = TRUE
<1>1. runs' \in [Slots -> RunType]
  <2>1. runs \in [Slots -> RunType] /\ runs[i] \in RunType
    BY DEF TypeOK
  <2>2. [runs[i] EXCEPT !.aborted = TRUE] \in RunType
    BY Zenon, <2>1 DEF RunType
  <2> QED
    BY <2>1, <2>2 DEF AbortRun
<1>2. /\ \A j \in Slots : /\ runs'[j].awaiting = runs[j].awaiting
                          /\ runs'[j].provider = runs[j].provider
      /\ runs'[i].aborted = TRUE
  BY DEF TypeOK, AbortRun, RunType
<1>3. worker' \in [phase: {"idle", "started", "pushed"},
                   owner: {0} \cup Slots, aborted: BOOLEAN]
  BY ZenonT(40) DEF TypeOK, AbortWorker
<1> QED
  BY <1>1, <1>2, <1>3

\* The end of the worker's promise reaches its callers, and changes nothing
\* else of them.
LEMMA SettleTyped ==
  ASSUME TypeOK, NEW outcome \in Outcomes, Settle(outcome)
  PROVE  /\ runs' \in [Slots -> RunType]
         /\ worker' \in [phase: {"idle", "started", "pushed"},
                         owner: {0} \cup Slots, aborted: BOOLEAN]
         /\ page' \in [busy: {"no", "choosing", "manual"}, outcome: Outcomes]
         /\ \A j \in Slots : /\ runs'[j].awaiting = runs[j].awaiting
                             /\ runs'[j].provider = runs[j].provider
                             /\ runs'[j].aborted = runs[j].aborted
<1>1. \A j \in Slots : [runs[j] EXCEPT !.outcome = outcome] \in RunType
  BY DEF TypeOK, RunType
<1>2. runs' \in [Slots -> RunType]
  BY <1>1 DEF TypeOK, Settle
<1>3. \A j \in Slots : /\ runs'[j].awaiting = runs[j].awaiting
                       /\ runs'[j].provider = runs[j].provider
                       /\ runs'[j].aborted = runs[j].aborted
  BY DEF TypeOK, Settle, RunType
<1>4. worker' \in [phase: {"idle", "started", "pushed"},
                   owner: {0} \cup Slots, aborted: BOOLEAN]
  BY DEF Settle, IdleWorker
<1>5. page' \in [busy: {"no", "choosing", "manual"}, outcome: Outcomes]
  BY DEF TypeOK, Settle
<1> QED
  BY <1>2, <1>3, <1>4, <1>5

\* Every step keeps the types of runs, worker, page and journal.
LEMMA RestStep == TypeOK /\ [Next]_vars => RestOK'
<1> SUFFICES ASSUME TypeOK, [Next]_vars PROVE RestOK'
  OBVIOUS
<1> USE DEF environment, journal
<1>r. RestOK
  BY DEF TypeOK, RestOK
<1>n. troubles < MaxTroubles /\ troubles' = troubles + 1 => troubles' \in 0..MaxTroubles
  BY SchedulerAssumption DEF TypeOK
<1>1. CASE UNCHANGED vars
  BY <1>1, <1>r DEF vars, RestOK
<1>2. CASE Start \/ RequestNow \/ PollFires \/ Tick
  BY <1>2, <1>r DEF Start, RequestNow, PollFires, Tick, RestOK
<1>3. CASE Stop
  <2>1. sched.active \in {0} \cup Slots
    BY Fields DEF TypeOK
  <2>2. CASE sched.active = 0
    BY <1>3, <1>r, <1>n, <2>2 DEF Stop, RestOK
  <2>3. CASE sched.active # 0
    BY ZenonT(40), <1>3, <1>r, <1>n, <2>1, <2>3, AbortTyped DEF Stop, RestOK
  <2> QED
    BY <2>2, <2>3
<1>4. ASSUME NEW kind \in {"book", "reading"}, LocalChange(kind) PROVE RestOK'
  <2>1. changes' \in 0..MaxChanges
    BY <1>4, SchedulerAssumption DEF TypeOK, LocalChange
  <2> QED
    BY <1>4, <1>r, <2>1 DEF LocalChange, RestOK
<1>5. CASE ConnectivityChanges \/ OnConnectivity \/ OnVisibilityChange
  BY ZenonT(40), <1>5, <1>r
  DEF ConnectivityChanges, OnConnectivity, OnVisibilityChange, RestOK
<1>6. CASE TimerFires
  <2> DEFINE i == IF runs[1].awaiting THEN 2 ELSE 1
             r == [awaiting |-> TRUE, provider |-> provider,
                   reason |-> sched.reason, aborted |-> FALSE, outcome |-> "none"]
  <2>1. i \in Slots
    BY DEF Slots
  <2>2. r \in RunType
    BY Fields DEF TypeOK, RunType, Outcomes
  <2> HIDE DEF i, r
  <2>3. CASE runs' = [runs EXCEPT ![i] = r] /\ CallWorker(i)
    <3>1. runs' \in [Slots -> RunType]
      BY Zenon, <2>2, <2>3 DEF TypeOK
    <3>2. worker' \in [phase: {"idle", "started", "pushed"},
                       owner: {0} \cup Slots, aborted: BOOLEAN]
      BY Zenon, <2>1, <2>3, CallWorkerTyped
    <3> QED
      BY <1>6, <1>r, <3>1, <3>2 DEF TimerFires, RestOK
  <2>4. CASE UNCHANGED <<runs, worker>>
    BY <1>6, <1>r, <2>4 DEF TimerFires, RestOK
  <2> QED
    BY <1>6, <2>3, <2>4 DEF TimerFires, i, r
<1>7. CASE WorkerReads
  <2>1. worker' \in [phase: {"idle", "started", "pushed"},
                     owner: {0} \cup Slots, aborted: BOOLEAN]
    BY <1>7 DEF WorkerReads, TypeOK
  <2> QED
    BY Zenon, <1>7, <1>r, <2>1 DEF WorkerReads, RestOK
<1>8. ASSUME NEW outcome \in {"ok", "maintenance"}, WorkerSucceeds(outcome) PROVE RestOK'
  <2>1. outcome \in Outcomes /\ Settle(outcome)
    BY <1>8 DEF WorkerSucceeds, Outcomes
  <2> QED
    BY ZenonT(40), <1>8, <1>r, <2>1, SettleTyped DEF WorkerSucceeds, RestOK
<1>9. ASSUME NEW outcome \in {"failed", "limited"}, WorkerFails(outcome) PROVE RestOK'
  <2>1. outcome \in Outcomes /\ Settle(outcome)
    BY <1>9 DEF WorkerFails, Outcomes
  <2>2. troubles' \in 0..MaxTroubles
    BY <1>9, <1>r, <1>n DEF WorkerFails, RestOK
  <2> QED
    BY ZenonT(40), <1>9, <1>r, <2>1, <2>2, SettleTyped DEF WorkerFails, RestOK
<1>10. ASSUME NEW i \in Slots, RunSettles(i) PROVE RestOK'
  <2>1. NoRun \in RunType
    BY DEF NoRun, RunType, Selections, Reasons, Outcomes
  <2>2. runs' \in [Slots -> RunType]
    BY <1>10, <2>1 DEF RunSettles, TypeOK
  <2> QED
    BY <1>10, <1>r, <2>2 DEF RunSettles, RestOK
<1>p. FreePage \in [busy: {"no", "choosing", "manual"}, outcome: Outcomes]
  BY DEF FreePage, Outcomes
<1>11. ASSUME NEW p \in Providers, ChooseProvider(p) PROVE RestOK'
  <2>1. page' \in [busy: {"no", "choosing", "manual"}, outcome: Outcomes]
    BY <1>11 DEF ChooseProvider, TypeOK
  <2> QED
    BY <1>11, <1>r, <1>n, <2>1 DEF ChooseProvider, RestOK, Selections
<1>12. CASE ChooseEnds \/ Disconnect \/ SyncNowSettles
  BY SMTT(40), <1>12, <1>r, <1>n, <1>p
  DEF ChooseEnds, Disconnect, SyncNowSettles, RestOK, Selections
<1>13. CASE SyncNow
  <2>1. page' \in [busy: {"no", "choosing", "manual"}, outcome: Outcomes]
    BY <1>13 DEF SyncNow, Outcomes
  <2>2. worker' \in [phase: {"idle", "started", "pushed"},
                     owner: {0} \cup Slots, aborted: BOOLEAN]
    BY <1>13, CallWorkerTyped DEF SyncNow
  <2> QED
    BY <1>13, <1>r, <2>1, <2>2 DEF SyncNow, RestOK
<1>14. CASE CancelManual
  <2>1. worker' \in [phase: {"idle", "started", "pushed"},
                     owner: {0} \cup Slots, aborted: BOOLEAN]
    BY Zenon, <1>14 DEF CancelManual, TypeOK
  <2> QED
    BY <1>14, <1>r, <1>n, <2>1 DEF CancelManual, RestOK
<1>15. CASE CancelActive
  <2>1. sched.active \in Slots
    BY <1>15, Fields DEF TypeOK, CancelActive
  <2> QED
    BY ZenonT(40), <1>15, <1>r, <1>n, <2>1, AbortTyped DEF CancelActive, RestOK
<1> QED
  BY <1>1, <1>2, <1>3, <1>4, <1>5, <1>6, <1>7, <1>8, <1>9, <1>10, <1>11, <1>12,
     <1>13, <1>14, <1>15 DEF Next, WorkerStep

-----------------------------------------------------------------------------
(* The steps.                                                               *)

\* What a step that leaves the runs alone has to establish.
Good(s) == s \in SchedType /\ Healthy(s) /\ (OneProvider => Deadline(s))
Kept(s, t) == Good(t) /\ t.started = s.started /\ t.active = s.active

\* So a step that changes nothing they read is a good one.
LEMMA CoreKept ==
  ASSUME NEW s, NEW t, Good(s), Core(s, t)
  PROVE  Kept(s, t)
  BY CoreHealthy DEF Good, Kept, Core

\* So is a request.
LEMMA RequestedKept ==
  ASSUME NEW s, NEW t, Good(s), Requested(s, t)
  PROVE  Kept(s, t)
  BY RequestedHealthy DEF Good, Kept, Requested

\* requestImmediate is a good step.
LEMMA ImmediateKept ==
  ASSUME NEW s, Good(s), provider \in Selections
  PROVE  Kept(s, RequestImmediate(s))
  BY RequestImmediateRequests, RequestedKept DEF Good

\* scheduleRevisionCheck is a good step.
LEMMA RevisionKept ==
  ASSUME NEW s, Good(s), NEW selected, NEW background
  PROVE  Kept(s, ScheduleRevisionCheck(s, selected, background))
  BY RevisionCheckKeeps, CoreKept DEF Good

\* Most handlers end with requestImmediate and scheduleRevisionCheck.
LEMMA ImmediateThenRevision ==
  ASSUME NEW s, Good(s), provider \in Selections, NEW background
  PROVE  Kept(s, ScheduleRevisionCheck(RequestImmediate(s), provider, background))
<1>1. Kept(s, RequestImmediate(s))
  BY ImmediateKept
<1>2. Kept(RequestImmediate(s),
           ScheduleRevisionCheck(RequestImmediate(s), provider, background))
  BY <1>1, RevisionKept DEF Kept
<1> QED
  BY <1>1, <1>2 DEF Kept

\* No poll is pending any more, and nothing else has changed.
LEMMA NoPollKept ==
  ASSUME NEW s, Good(s)
  PROVE  Kept(s, [s EXCEPT !.poll = NoTimer])
<1>1. Core(s, [s EXCEPT !.poll = NoTimer])
  BY DEF Good, SchedType, Core
<1> QED
  BY <1>1, CoreKept

\* A step that only moves the scheduler keeps the invariant.
LEMMA SchedulerStep ==
  ASSUME Inv, RestOK', UNCHANGED runs, Good(sched)', sched'.active = sched.active,
         sched'.started = sched.started \/ sched'.started = TRUE
  PROVE  Inv'
<1>1. TypeOK'
  BY SMTT(40) DEF RestOK, TypeOK, Good
<1>2. Linked'
  BY DEF Inv, Linked
<1> QED
  BY SMTT(40), <1>1, <1>2 DEF Inv, Good

\* A good step of the scheduler alone keeps the invariant.
LEMMA KeptStep ==
  ASSUME Inv, RestOK', UNCHANGED runs, Kept(sched, sched')
  PROVE  Inv'
  BY SMTT(40), SchedulerStep DEF Kept

\* A run that the worker or an abort has touched is the same run.
LEMMA RunsStep ==
  ASSUME Inv, RestOK', Kept(sched, sched'),
         \A j \in Slots : /\ runs'[j].awaiting = runs[j].awaiting
                          /\ runs'[j].provider = runs[j].provider
                          /\ runs[j].aborted => runs'[j].aborted
  PROVE  Inv'
<1>1. TypeOK'
  BY SMTT(40) DEF RestOK, TypeOK, Good, Kept
<1>2. sched'.active \in {0} \cup Slots
  BY SMTT(40), <1>1, Fields DEF TypeOK
<1>3. Linked'
  BY <1>2 DEF Inv, Linked, Kept
<1> QED
  BY SMTT(40), <1>1, <1>3 DEF Inv, Good, Kept

\* The timer of runAutomatic: the run that starts is the only one.
LEMMA TimerStep == Inv /\ RestOK' /\ TimerFires => Inv'
<1> SUFFICES ASSUME Inv, RestOK', TimerFires PROVE Inv'
  OBVIOUS
<1> DEFINE s == ClearScheduledTimer(sched)
           q == MergeReasons(s.queued, sched.reason)
           i == IF runs[1].awaiting THEN 2 ELSE 1
           r == [awaiting |-> TRUE, provider |-> provider,
                 reason |-> sched.reason, aborted |-> FALSE, outcome |-> "none"]
           busy == [s EXCEPT !.phase = "syncing", !.active = i]
<1>1. sched \in SchedType /\ sched.wait = 0 /\ sched.active = 0
  BY DEF Inv, TypeOK, TimerFires, Healthy, NoTimer
<1>2. /\ s \in SchedType /\ s.wait = NoTimer /\ s.started = sched.started
      /\ s.phase = sched.phase /\ s.active = 0
  BY <1>1, ClearTimer
<1>3. i \in Slots /\ i # 0
  BY SMTT(40) DEF Slots
<1>4. q \in Reasons
  BY SMTT(40), <1>1, <1>2, Fields, MergeTyped
<1>5. CASE s.started /\ provider # "none" /\ online
  <2>1. sched' = busy /\ runs' = [runs EXCEPT ![i] = r]
    BY <1>2, <1>5 DEF TimerFires
  <2> HIDE DEF s, q, i
  <2>2. /\ busy \in SchedType /\ busy.wait = NoTimer /\ busy.phase = "syncing"
        /\ busy.active = i /\ busy.started = s.started
    BY ZenonT(40), <1>2, <1>3 DEF SchedType
  <2>3. Healthy(busy) /\ Deadline(busy)
    BY <1>3, <1>5, <2>2 DEF Healthy, Deadline
  <2>4. provider \in Providers
    BY <1>5 DEF Inv, TypeOK, Selections
  <2> HIDE DEF busy
  <2>5. \A j \in Slots : ~runs[j].awaiting
    BY <1>1 DEF Inv, Linked, Slots
  <2>6. runs'[i].awaiting /\ runs'[i].provider = provider
    BY <1>3, <2>1 DEF Inv, TypeOK
  <2>7. \A j \in Slots : j # i => ~runs'[j].awaiting
    BY SMTT(40), <2>1, <2>5 DEF Inv, TypeOK
  <2>8. Linked'
    BY ZenonT(40), <1>5, <2>1, <2>2, <2>4, <2>6, <2>7 DEF Linked
  <2>9. TypeOK'
    BY <2>1, <2>2 DEF RestOK, TypeOK
  <2> QED
    BY <2>1, <2>3, <2>8, <2>9 DEF Inv
<1>6. CASE ~(s.started /\ provider # "none" /\ online)
  <2> DEFINE idle == [s EXCEPT !.phase = "idle"]
             queue == [s EXCEPT !.queued = q]
             off == [queue EXCEPT !.phase = "offline"]
  <2>1. sched' \in {idle, off} /\ UNCHANGED runs
    BY <1>6 DEF TimerFires
  <2> HIDE DEF s, q
  <2>2. /\ idle \in SchedType /\ idle.wait = NoTimer /\ idle.phase = "idle"
        /\ idle.active = 0 /\ idle.started = s.started
    BY <1>2 DEF SchedType
  <2>3. /\ off \in SchedType /\ off.wait = NoTimer /\ off.phase = "offline"
        /\ off.active = 0 /\ off.started = s.started
    BY ZenonT(40), <1>2, <1>4 DEF SchedType
  <2> HIDE DEF idle, off
  <2>4. /\ sched' \in SchedType /\ sched'.wait = NoTimer /\ sched'.active = 0
        /\ sched'.phase \in {"idle", "offline"} /\ sched'.started = s.started
    BY <2>1, <2>2, <2>3
  <2>5. Kept(sched, sched')
    BY <1>1, <1>2, <2>4 DEF Kept, Good, Healthy, Deadline
  <2> QED
    BY SMTT(40), <2>1, <2>5, KeptStep
<1> QED
  BY <1>5, <1>6

\* What the end of a run leaves in the fields, before its finally block.
LEMMA ResultTyped ==
  ASSUME Inv, NEW i \in Slots, runs[i].awaiting
  PROVE  LET run == runs[i]
             t == RunResult(run) IN
         /\ t \in SchedType /\ t.wait = NoTimer /\ t.active = i
         /\ t.started = sched.started
         /\ ~t.started => t.phase \notin {"scheduled", "syncing", "cancelling"}
         /\ t.started /\ (run.aborted \/ run.outcome # "limited") =>
                t.phase \in {"idle", "cancelled", "error"}
         /\ t.started /\ ~run.aborted /\ run.outcome = "limited" =>
                t.retryAfter[run.provider] = RetryDelay
<1> DEFINE run == runs[i]
           p == run.provider
<1>1. sched \in SchedType /\ run \in RunType /\ p \in Providers
  BY DEF Inv, TypeOK, Linked
<1>2. sched.active = i /\ sched.wait = NoTimer
  <2>1. sched.active = i /\ i # 0
    BY DEF Inv, Linked, Slots
  <2> QED
    BY SMTT(40), <2>1 DEF Inv, Healthy
<1>3. RetryDelay \in Nat
  BY SMTT(40), SchedulerAssumption
<1>4. run.outcome \in Outcomes /\ ResultOf(run.outcome) \in Results
  BY SMTT(40), <1>1 DEF RunType, ResultOf, Results
<1> HIDE DEF p
<1>5. CASE ~sched.started
  BY SMTT(40), <1>1, <1>2, <1>5 DEF RunResult, Inv, Healthy
<1>6. CASE sched.started /\ run.aborted
  <2> DEFINE t == [sched EXCEPT !.queued = "none", !.phase = "cancelled"]
  <2>1. /\ t \in SchedType /\ t.wait = sched.wait /\ t.active = sched.active
        /\ t.started = sched.started /\ t.phase = "cancelled"
    BY ZenonT(40), <1>1 DEF SchedType, Reasons
  <2>2. RunResult(run) = t
    BY <1>6 DEF RunResult
  <2> HIDE DEF t
  <2> QED
    BY ZenonT(40), <1>2, <1>6, <2>1, <2>2
<1>7. CASE sched.started /\ ~run.aborted /\ Succeeded(run.outcome)
  <2> DEFINE s == [sched EXCEPT !.retryAfter[p] = 0]
             t == RecordSuccess(s, p, ResultOf(run.outcome))
  <2>1. /\ s \in SchedType /\ s.wait = sched.wait /\ s.active = sched.active
        /\ s.started = sched.started
    BY <1>1 DEF SchedType
  <2> HIDE DEF s
  <2>2. /\ t \in SchedType /\ t.wait = s.wait /\ t.active = s.active
        /\ t.started = s.started /\ t.phase = "idle"
    BY ZenonT(40), <1>1, <1>4, <2>1, RecordSuccessTyped
  <2>3. RunResult(run) = t
    BY <1>7 DEF RunResult, clearProviderRetryAfter, s, p
  <2>4. run.outcome # "limited"
    BY ZenonT(40), <1>7 DEF Succeeded
  <2> HIDE DEF t
  <2> QED
    BY Zenon, <1>2, <1>7, <2>1, <2>2, <2>3, <2>4
<1>8. CASE sched.started /\ ~run.aborted /\ run.outcome = "limited"
  <2> DEFINE t == [sched EXCEPT !.retryAfter[p] = RetryDelay]
  <2>1. /\ t \in SchedType /\ t.wait = sched.wait /\ t.active = sched.active
        /\ t.started = sched.started /\ t.retryAfter[p] = RetryDelay
    BY <1>1, <1>3 DEF SchedType
  <2>2. RunResult(run) = t
    BY SMTT(40), <1>8 DEF RunResult, persistProviderRetryAfter, Succeeded, p
  <2> HIDE DEF t
  <2> QED
    BY ZenonT(40), <1>2, <1>8, <2>1, <2>2 DEF p
<1>9. CASE sched.started /\ ~run.aborted /\ ~Succeeded(run.outcome) /\ run.outcome # "limited"
  <2> DEFINE t == [sched EXCEPT !.phase = "error"]
  <2>1. /\ t \in SchedType /\ t.wait = sched.wait /\ t.active = sched.active
        /\ t.started = sched.started /\ t.phase = "error"
    BY <1>1 DEF SchedType
  <2>2. RunResult(run) = t
    BY SMTT(40), <1>9 DEF RunResult
  <2> HIDE DEF t
  <2> QED
    BY ZenonT(40), <1>2, <1>9, <2>1, <2>2
<1> QED
  BY Zenon, <1>5, <1>6, <1>7, <1>8, <1>9

\* The end of runAutomatic: the run that settles was the only one, and its
\* finally block sets at most one timer.
LEMMA RunSettlesStep ==
  ASSUME Inv, RestOK', NEW i \in Slots, RunSettles(i)
  PROVE  Inv'
<1> DEFINE run == runs[i]
           s == RunResult(run)
           freed == [s EXCEPT !.quietFor = NoTimer, !.queued = "none",
                              !.active = IF @ = i THEN 0 ELSE @]
<1>1. run.awaiting /\ sched' = Finally(i, s) /\ runs' = [runs EXCEPT ![i] = NoRun]
  BY SMTT(40) DEF RunSettles
<1>2. /\ s \in SchedType /\ s.wait = NoTimer /\ s.active = i
      /\ s.started = sched.started
      /\ ~s.started => s.phase \notin {"scheduled", "syncing", "cancelling"}
      /\ s.started /\ (run.aborted \/ run.outcome # "limited") =>
             s.phase \in {"idle", "cancelled", "error"}
      /\ s.started /\ ~run.aborted /\ run.outcome = "limited" =>
             s.retryAfter[run.provider] = RetryDelay
  BY ZenonT(40), <1>1, ResultTyped
<1>3. run.provider \in Providers /\ run.reason \in Reasons /\ provider \in Selections
  BY SMTT(40), <1>1 DEF Inv, TypeOK, Linked, RunType
<1>4. QuietDelay \in Nat /\ RetryDelay \in Nat
  BY SMTT(40), SchedulerAssumption
<1> HIDE DEF s
<1>5. /\ freed \in SchedType /\ freed.wait = NoTimer /\ freed.active = 0
      /\ freed.started = s.started /\ freed.phase = s.phase
      /\ freed.retryAfter = s.retryAfter
  <2> DEFINE t == [s EXCEPT !.quietFor = NoTimer, !.queued = "none", !.active = 0]
  <2>1. freed = t
    BY <1>2
  <2>2. t \in SchedType
    <3> DEFINE u == [s EXCEPT !.quietFor = NoTimer]
               v == [u EXCEPT !.queued = "none"]
    <3>1. u \in SchedType
      BY SMTT(40), <1>2 DEF SchedType
    <3>2. t = [v EXCEPT !.active = 0]
      BY SMTT(40)
    <3> HIDE DEF t, u
    <3>3. v \in SchedType
      BY SMTT(40), <3>1 DEF SchedType, Reasons
    <3> HIDE DEF v
    <3> QED
      BY SMTT(40), <3>2, <3>3 DEF SchedType
  <2>3. /\ t.wait = s.wait /\ t.active = 0 /\ t.started = s.started
        /\ t.phase = s.phase /\ t.retryAfter = s.retryAfter
    BY <1>2 DEF SchedType
  <2> HIDE DEF t, freed
  <2> QED
    BY ZenonT(40), <1>2, <2>1, <2>2, <2>3
<1>6. s.queued \in Reasons /\ s.quietFor \in Nat \cup {NoTimer}
  BY Zenon, <1>2, Fields
<1>7. sched' \in SchedType /\ Healthy(sched') /\ (OneProvider => Deadline(sched'))
      /\ sched'.active = 0
  <2>1. CASE ~s.started \/ run.aborted
    <3>1. sched' = freed
      BY SMTT(40), <1>1, <2>1 DEF Finally
    <3> HIDE DEF freed
    <3> QED
      BY ZenonT(40), <1>2, <1>5, <2>1, <3>1 DEF Healthy, Deadline
  <2>2. CASE s.started /\ ~run.aborted /\ run.outcome = "limited"
    <3> DEFINE m == MergeReasons(s.queued, run.reason)
               t == Schedule(freed, m, RetryDelay)
    <3>1. sched' = t
      BY SMTT(40), <1>1, <2>2 DEF Finally
    <3>2. m \in Reasons
      BY SMTT(40), <1>3, <1>6, MergeTyped
    <3> HIDE DEF freed, m
    <3>3. /\ t \in SchedType /\ t.wait = RetryDelay /\ t.started = freed.started
          /\ t.phase = "scheduled" /\ t.active = freed.active
          /\ t.retryAfter = freed.retryAfter
      BY ZenonT(40), <1>4, <1>5, <3>2, ScheduleTyped
    <3> HIDE DEF t
    <3>4. Healthy(t)
      BY SMTT(40), <1>4, <1>5, <2>2, <3>3 DEF Healthy, NoTimer
    <3>5. ASSUME OneProvider PROVE Deadline(t)
      <4>1. t.retryAfter[run.provider] = t.wait
        BY Zenon, <1>2, <1>5, <2>2, <3>3
      <4>2. t.wait <= t.wait
        BY SMTT(40), <1>4, <3>3
      <4> QED
        BY Zenon, <1>3, <3>5, <4>1, <4>2 DEF Deadline, OneProvider
    <3> QED
      BY SMTT(40), <1>5, <3>1, <3>3, <3>4, <3>5
  <2>3. CASE s.started /\ ~run.aborted /\ run.outcome # "limited"
    <3>1. Good(freed)
      <4> HIDE DEF freed
      <4> QED
        BY ZenonT(40), <1>2, <1>5, <2>3 DEF Good, Healthy, Deadline
    <3> DEFINE d == IF s.quietFor = NoTimer THEN QuietDelay ELSE s.quietFor
    <3>2. d \in Nat
      BY SMTT(40), <1>4, <1>6
    <3>3. sched' \in {freed, RequestQuiet(freed, d), RequestImmediate(freed)}
      BY SMTT(40), <1>1, <1>6, <2>3 DEF Finally, Reasons
    <3> HIDE DEF freed, d
    <3>4. Kept(freed, RequestQuiet(freed, d))
      BY ZenonT(40), <1>3, <1>5, <3>1, <3>2, RequestQuietRequests, RequestedKept
    <3>5. Kept(freed, RequestImmediate(freed))
      BY SMTT(40), <1>3, <3>1, ImmediateKept
    <3>6. Kept(freed, sched')
      BY SMTT(40), <3>1, <3>3, <3>4, <3>5 DEF Kept
    <3> QED
      BY <1>5, <3>6 DEF Kept, Good
  <2> QED
    BY <2>1, <2>2, <2>3
<1>8. Linked'
  <2>1. \A j \in Slots : j # i => ~runs[j].awaiting
    BY SMTT(40), <1>1 DEF Inv, Linked
  <2>2. \A j \in Slots : ~runs'[j].awaiting
    BY ZenonT(40), <1>1, <2>1 DEF Inv, TypeOK, NoRun
  <2> QED
    BY SMTT(40), <1>7, <2>2 DEF Linked
<1>9. TypeOK'
  BY SMTT(40), <1>7 DEF RestOK, TypeOK
<1> QED
  BY SMTT(40), <1>7, <1>8, <1>9 DEF Inv

\* start() finds a scheduler that shows neither timer nor run.
LEMMA StartStep == Inv /\ RestOK' /\ Start => Inv'
<1> SUFFICES ASSUME Inv, RestOK', Start PROVE Inv'
  OBVIOUS
<1> DEFINE s == [sched EXCEPT !.started = TRUE]
           a == ActivateHistory(s)
<1>1. sched \in SchedType /\ provider \in Selections
  BY DEF Inv, TypeOK
<1>2. /\ s \in SchedType /\ s.started = TRUE /\ s.phase = sched.phase
      /\ s.wait = sched.wait /\ s.active = sched.active
      /\ s.retryAfter = sched.retryAfter
  BY ZenonT(40), <1>1 DEF SchedType
<1>3. UNCHANGED runs /\ sched' = ScheduleRevisionCheck(RequestImmediate(a), provider, hidden)
  BY DEF Start
<1> HIDE DEF s
<1>4. Good(s)
  BY Zenon, <1>2 DEF Good, Healthy, Deadline, Inv
<1>5. Kept(s, a)
  BY SMTT(40), <1>1, <1>2, <1>4, ActivateKeeps, CoreKept
<1> HIDE DEF a
<1>6. Kept(a, sched')
  BY SMTT(40), <1>1, <1>3, <1>5, ImmediateThenRevision DEF Kept
<1> QED
  BY Zenon, <1>2, <1>3, <1>5, <1>6, SchedulerStep DEF Kept

\* stop() aborts the run and leaves it the active one.
LEMMA StopStep == Inv /\ RestOK' /\ Stop => Inv'
<1> SUFFICES ASSUME Inv, RestOK', Stop PROVE Inv'
  OBVIOUS
<1> DEFINE c == ClearScheduledTimer(sched)
           t == [c EXCEPT !.started = FALSE, !.poll = NoTimer, !.queued = "none",
                          !.quietFor = NoTimer, !.phase = "idle"]
<1>1. c \in SchedType /\ c.wait = NoTimer /\ c.active = sched.active
  BY ClearTimer DEF Inv, TypeOK
<1>2. sched' = t
  BY SMTT(40) DEF Stop
<1> HIDE DEF c
<1>3. /\ t \in SchedType /\ t.wait = c.wait /\ t.active = c.active
      /\ t.started = FALSE /\ t.phase = "idle"
  <2> DEFINE u == [c EXCEPT !.started = FALSE, !.poll = NoTimer]
             v == [u EXCEPT !.queued = "none", !.quietFor = NoTimer]
  <2>a. u \in SchedType
    <3> DEFINE w == [c EXCEPT !.started = FALSE]
    <3>1. w \in SchedType
      BY ZenonT(40), <1>1 DEF SchedType
    <3>2. u = [w EXCEPT !.poll = NoTimer]
      OBVIOUS
    <3> HIDE DEF w, u
    <3> QED
      BY SMTT(40), <3>1, <3>2 DEF SchedType
  <2>b. t = [v EXCEPT !.phase = "idle"]
    OBVIOUS
  <2>2. t.wait = c.wait /\ t.active = c.active /\ t.started = FALSE /\ t.phase = "idle"
    BY <1>1 DEF SchedType
  <2> HIDE DEF u
  <2>c. v \in SchedType
    BY Zenon, <2>a DEF SchedType, Reasons
  <2> HIDE DEF v, t
  <2>1. t \in SchedType
    BY <2>b, <2>c DEF SchedType
  <2> QED
    BY <2>1, <2>2
<1> HIDE DEF t
<1>4. Healthy(sched') /\ Deadline(sched')
  BY SMTT(40), <1>1, <1>2, <1>3 DEF Healthy, Deadline
<1>5. TypeOK'
  BY SMTT(40), <1>2, <1>3 DEF RestOK, TypeOK
<1>6. sched.active \in {0} \cup Slots /\ sched'.active = sched.active
  BY ZenonT(40), <1>1, <1>2, <1>3, Fields DEF Inv, TypeOK
<1>7. Linked'
  <2>1. CASE sched.active = 0
    BY SMTT(40), <1>6, <2>1 DEF Stop, Inv, Linked
  <2>2. CASE sched.active # 0
    <3>1. /\ \A j \in Slots : /\ runs'[j].awaiting = runs[j].awaiting
                              /\ runs'[j].provider = runs[j].provider
          /\ runs'[sched.active].aborted = TRUE
      BY ZenonT(40), <1>6, <2>2, AbortTyped DEF Stop, Inv
    <3> QED
      BY ZenonT(40), <1>6, <2>2, <3>1 DEF Inv, Linked
  <2> QED
    BY <2>1, <2>2
<1> QED
  BY SMTT(40), <1>4, <1>5, <1>7 DEF Inv

\* The online and offline subscriptions.
LEMMA ConnectivityStep == Inv /\ RestOK' /\ OnConnectivity => Inv'
<1> SUFFICES ASSUME Inv, RestOK', OnConnectivity PROVE Inv'
  OBVIOUS
<1>1. Good(sched) /\ provider \in Selections /\ UNCHANGED runs
  BY DEF Inv, Good, TypeOK, OnConnectivity
<1>2. CASE ~sched.started
  BY <1>1, <1>2, KeptStep DEF OnConnectivity, Kept
<1>3. CASE sched.started /\ notice = "online"
  <2> DEFINE s == [sched EXCEPT !.queued = "none"]
  <2>1. Core(sched, s)
    BY <1>1 DEF Good, SchedType, Reasons, Core
  <2>2. sched' = ScheduleRevisionCheck(RequestImmediate(s), provider, hidden)
    BY SMTT(40), <1>3 DEF OnConnectivity
  <2> HIDE DEF s
  <2>3. Kept(sched, s)
    BY SMTT(40), <1>1, <2>1, CoreKept
  <2>4. Kept(s, sched')
    BY SMTT(40), <1>1, <2>2, <2>3, ImmediateThenRevision DEF Kept
  <2> QED
    BY SMTT(40), <1>1, <2>3, <2>4, KeptStep DEF Kept
<1>4. CASE sched.started /\ notice # "online"
  <2> DEFINE s == [sched EXCEPT !.poll = NoTimer]
  <2>1. Kept(sched, s)
    BY <1>1, NoPollKept
  <2>2. sched' = HandleOffline(s)
    BY SMTT(40), <1>4 DEF OnConnectivity
  <2> HIDE DEF s
  <2>3. Kept(s, sched')
    BY ZenonT(40), <2>1, <2>2, HandleOfflineRequests, RequestedKept DEF Kept, Good
  <2> QED
    BY <1>1, <2>1, <2>3, KeptStep DEF Kept
<1> QED
  BY <1>2, <1>3, <1>4

\* The visibilitychange subscription.
LEMMA VisibilityStep == Inv /\ RestOK' /\ OnVisibilityChange => Inv'
<1> SUFFICES ASSUME Inv, RestOK', OnVisibilityChange PROVE Inv'
  OBVIOUS
<1>1. Good(sched) /\ provider \in Selections /\ UNCHANGED runs
  BY DEF Inv, Good, TypeOK, OnVisibilityChange
<1>2. sched' \in {sched, [sched EXCEPT !.poll = NoTimer],
                  ScheduleRevisionCheck(sched, provider, FALSE),
                  ScheduleRevisionCheck(RequestImmediate(sched), provider, FALSE)}
  BY Zenon DEF OnVisibilityChange
<1>3. Kept(sched, sched')
  <2>1. Kept(sched, sched)
    BY <1>1 DEF Kept
  <2>2. Kept(sched, [sched EXCEPT !.poll = NoTimer])
    BY SMTT(40), <1>1, NoPollKept
  <2>3. Kept(sched, ScheduleRevisionCheck(sched, provider, FALSE))
    BY Zenon, <1>1, RevisionKept
  <2>4. Kept(sched, ScheduleRevisionCheck(RequestImmediate(sched), provider, FALSE))
    BY ZenonT(40), <1>1, ImmediateThenRevision
  <2> QED
    BY ZenonT(40), <1>2, <2>1, <2>2, <2>3, <2>4
<1> QED
  BY SMTT(40), <1>1, <1>3, KeptStep

\* The revision check.
LEMMA PollStep == Inv /\ RestOK' /\ PollFires => Inv'
<1> SUFFICES ASSUME Inv, RestOK', PollFires PROVE Inv'
  OBVIOUS
<1> DEFINE due == [sched EXCEPT !.poll = NoTimer]
<1>1. Good(sched) /\ provider \in Selections /\ UNCHANGED runs
  BY DEF Inv, Good, TypeOK, PollFires
<1>2. sched' \in {ScheduleRevisionCheck(due, provider, hidden),
                  ScheduleRevisionCheck(RequestImmediate(due), provider, hidden)}
  BY DEF PollFires
<1>3. Kept(sched, due)
  BY SMTT(40), <1>1, NoPollKept
<1> HIDE DEF due
<1>4. Kept(due, sched')
  BY SMTT(40), <1>1, <1>2, <1>3, RevisionKept, ImmediateThenRevision DEF Kept
<1> QED
  BY <1>1, <1>3, <1>4, KeptStep DEF Kept

\* A tick keeps the order of two delays.
LEMMA ElapseKeepsOrder ==
  ASSUME NEW a \in Nat, NEW b \in Nat, a <= b
  PROVE  Elapse(a) <= Elapse(b)
  BY SMTT(40) DEF Elapse

\* Time passes for the timer and for the deadlines alike.
LEMMA TickStep == Inv /\ RestOK' /\ Tick => Inv'
<1> SUFFICES ASSUME Inv, RestOK', Tick PROVE Inv'
  OBVIOUS
<1> DEFINE after == [p \in Providers |-> Elapse(sched.retryAfter[p])]
           t == [sched EXCEPT !.wait = Elapse(@), !.poll = Elapse(@),
                              !.quietFor = Elapse(@), !.retryAfter = after]
<1>1. sched \in SchedType
  BY SMTT(40) DEF Inv, TypeOK
<1>2. /\ Elapse(sched.wait) \in Nat \cup {NoTimer}
      /\ Elapse(sched.poll) \in Nat \cup {NoTimer}
      /\ Elapse(sched.quietFor) \in Nat \cup {NoTimer}
      /\ Elapse(sched.wait) = NoTimer <=> sched.wait = NoTimer
  BY SMTT(40), <1>1, Fields DEF Elapse, NoTimer
<1>3. after \in [Providers -> Nat]
  BY <1>1, Fields DEF Elapse
<1>4. sched' = t /\ UNCHANGED runs
  BY DEF Tick
<1>5. \A p \in Providers : after[p] = Elapse(sched.retryAfter[p])
  OBVIOUS
<1> HIDE DEF after
<1>6. /\ t \in SchedType /\ t.started = sched.started /\ t.phase = sched.phase
      /\ t.wait = Elapse(sched.wait) /\ t.active = sched.active /\ t.retryAfter = after
  BY ZenonT(40), <1>1, <1>2, <1>3 DEF SchedType
<1> HIDE DEF t
<1>7. Healthy(t)
  BY Zenon, <1>2, <1>6 DEF Inv, Healthy
<1>8. ASSUME OneProvider PROVE Deadline(t)
  <2> SUFFICES ASSUME NEW p \in Providers, t.wait # NoTimer
               PROVE  after[p] <= t.wait
    BY SMTT(40), <1>6 DEF Deadline
  <2>1. /\ sched.wait \in Nat /\ sched.retryAfter[p] \in Nat
        /\ sched.retryAfter[p] <= sched.wait
    BY ZenonT(40), <1>1, <1>2, <1>6, <1>8, Fields DEF Inv, Deadline
  <2>2. Elapse(sched.retryAfter[p]) <= Elapse(sched.wait)
    BY Zenon, <2>1, ElapseKeepsOrder
  <2> QED
    BY Zenon, <1>5, <1>6, <2>2
<1> QED
  BY ZenonT(40), <1>4, <1>6, <1>7, <1>8, KeptStep DEF Kept, Good

\* A manual success drops the timer; the status becomes idle, which neither a
\* timer nor a run has to back.
LEMMA ManualStep == Inv /\ RestOK' /\ SyncNowSettles => Inv'
<1> SUFFICES ASSUME Inv, RestOK', SyncNowSettles PROVE Inv'
  OBVIOUS
<1>1. Good(sched) /\ provider \in Selections /\ UNCHANGED runs
  BY DEF Inv, Good, TypeOK, SyncNowSettles
<1>2. CASE Succeeded(page.outcome) /\ provider # "none"
  <2> DEFINE a == ActivateHistory(sched)
             c == ClearScheduledTimer(a)
             s == [c EXCEPT !.queued = "none"]
             result == ResultOf(page.outcome)
  <2>1. sched' = RecordSuccess(s, provider, result)
    BY SMTT(40), <1>2 DEF SyncNowSettles
  <2>2. a \in SchedType /\ a.started = sched.started /\ a.active = sched.active
    BY SMTT(40), <1>1, ActivateKeeps DEF Good, Core
  <2> HIDE DEF a
  <2>3. c \in SchedType /\ c.wait = NoTimer /\ c.started = a.started /\ c.active = a.active
    BY SMTT(40), <2>2, ClearTimer
  <2> HIDE DEF c
  <2>4. /\ s \in SchedType /\ s.wait = NoTimer /\ s.started = c.started
        /\ s.active = c.active
    BY <2>3 DEF SchedType, Reasons
  <2>5. result \in Results /\ provider \in Providers
    BY SMTT(40), <1>1, <1>2 DEF ResultOf, Results, Selections
  <2> HIDE DEF s, result
  <2>6. /\ sched' \in SchedType /\ sched'.wait = s.wait /\ sched'.started = s.started
        /\ sched'.phase = "idle" /\ sched'.active = s.active
    BY ZenonT(40), <2>1, <2>4, <2>5, RecordSuccessTyped
  <2>7. Kept(sched, sched')
    BY ZenonT(40), <2>2, <2>3, <2>4, <2>6 DEF Kept, Good, Healthy, Deadline
  <2> QED
    BY <1>1, <2>7, KeptStep
<1>3. CASE ~(Succeeded(page.outcome) /\ provider # "none")
  BY SMTT(40), <1>1, <1>3, KeptStep DEF SyncNowSettles, Kept
<1> QED
  BY <1>2, <1>3

\* Only a started scheduler has a run that is not aborted, so cancelling one
\* leaves no stopped scheduler in the cancelling status.
LEMMA CancelStep == Inv /\ RestOK' /\ CancelActive => Inv'
<1> SUFFICES ASSUME Inv, RestOK', CancelActive PROVE Inv'
  OBVIOUS
<1> DEFINE t == [sched EXCEPT !.queued = "none", !.quietFor = NoTimer,
                              !.phase = "cancelling"]
<1>1. sched \in SchedType /\ sched.active # 0 /\ sched.active \in Slots
  BY SMTT(40), Fields DEF Inv, TypeOK, CancelActive
<1>2. sched.started
  BY <1>1 DEF Inv, Linked, CancelActive
<1>3. sched' = t
  BY DEF CancelActive
<1>4. /\ t \in SchedType /\ t.started = sched.started /\ t.phase = "cancelling"
      /\ t.wait = sched.wait /\ t.active = sched.active
      /\ t.retryAfter = sched.retryAfter
  BY ZenonT(40), <1>1 DEF SchedType, Reasons
<1> HIDE DEF t
<1>5. Kept(sched, sched')
  BY Zenon, <1>1, <1>2, <1>3, <1>4 DEF Kept, Good, Healthy, Deadline, Inv
<1>6. \A j \in Slots : /\ runs'[j].awaiting = runs[j].awaiting
                       /\ runs'[j].provider = runs[j].provider
                       /\ runs[j].aborted => runs'[j].aborted
  <2>1. AbortRun(sched.active) /\ AbortWorker(sched.active)
    BY Zenon DEF CancelActive
  <2>2. TypeOK /\ runs \in [Slots -> RunType]
    BY Zenon DEF Inv, TypeOK
  <2>3. /\ runs'[sched.active].aborted = TRUE
        /\ \A j \in Slots : /\ runs'[j].awaiting = runs[j].awaiting
                            /\ runs'[j].provider = runs[j].provider
    BY Zenon, <1>1, <2>1, <2>2, AbortTyped
  <2>4. \A j \in Slots : j # sched.active => runs'[j] = runs[j]
    BY SMTT(40), <2>1, <2>2 DEF AbortRun
  <2> QED
    BY Zenon, <2>3, <2>4
<1> QED
  BY ZenonT(40), <1>5, <1>6, RunsStep

-----------------------------------------------------------------------------
(* The invariant.                                                           *)

\* A scheduler that was not started has nothing in flight.
LEMMA InitInv == Init => Inv
<1> SUFFICES ASSUME Init PROVE Inv
  OBVIOUS
<1>1. sched \in SchedType
  BY DEF Init, SchedType, Selections, Reasons, Results
<1>2. /\ sched.started = FALSE /\ sched.phase = "idle" /\ sched.wait = NoTimer
      /\ sched.active = 0
  BY DEF Init
<1>3. RestOK
  <2>1. NoRun \in RunType
    BY DEF NoRun, RunType, Selections, Reasons, Outcomes
  <2>2. runs \in [Slots -> RunType]
    BY <2>1 DEF Init
  <2>3. 0 \in 0..MaxChanges /\ 0 \in 0..MaxTroubles
    BY SchedulerAssumption
  <2> QED
    BY ZenonT(40), <2>2, <2>3 DEF Init, RestOK, IdleWorker, FreePage, Outcomes
<1>4. Linked
  BY <1>2 DEF Init, Linked, NoRun
<1> QED
  BY <1>1, <1>2, <1>3, <1>4 DEF Inv, TypeOK, RestOK, Healthy, Deadline

\* Every step keeps the invariant.
LEMMA InvStep == Inv /\ [Next]_vars => Inv'
<1> SUFFICES ASSUME Inv, [Next]_vars PROVE Inv'
  OBVIOUS
<1>r. RestOK'
  BY RestStep DEF Inv
<1>g. Good(sched) /\ provider \in Selections /\ Kept(sched, sched)
  BY DEF Inv, Good, TypeOK, Kept
<1>1. CASE UNCHANGED vars
  BY <1>1, <1>r, <1>g, KeptStep DEF vars
<1>2. CASE ConnectivityChanges \/ WorkerReads \/ SyncNow \/ CancelManual
  BY <1>2, <1>r, <1>g, KeptStep
     DEF ConnectivityChanges, WorkerReads, SyncNow, CancelManual, journal
<1>3. CASE RequestNow
  BY <1>3, <1>r, <1>g, ImmediateKept, KeptStep DEF RequestNow
<1>4. ASSUME NEW kind \in {"book", "reading"}, LocalChange(kind) PROVE Inv'
  <2>1. QuietDelay \in Nat
    BY SchedulerAssumption
  <2>2. Kept(sched, RequestQuiet(sched, QuietDelay))
    BY <1>g, <2>1, RequestQuietRequests, RequestedKept DEF Good
  <2>3. Kept(sched, sched')
    BY SMTT(40), <1>4, <1>g, <2>2, ImmediateKept DEF LocalChange
  <2> QED
    BY <1>4, <1>r, <2>3, KeptStep DEF LocalChange
<1>5. ASSUME NEW outcome \in {"ok", "maintenance"}, WorkerSucceeds(outcome) PROVE Inv'
  <2>1. outcome \in Outcomes /\ Settle(outcome) /\ UNCHANGED sched
    BY SMTT(40), <1>5 DEF WorkerSucceeds, Outcomes
  <2> QED
    BY <1>r, <1>g, <2>1, SettleTyped, RunsStep DEF Inv
<1>6. ASSUME NEW outcome \in {"failed", "limited"}, WorkerFails(outcome) PROVE Inv'
  <2>1. outcome \in Outcomes /\ Settle(outcome) /\ UNCHANGED sched
    BY <1>6 DEF WorkerFails, Outcomes
  <2> QED
    BY <1>r, <1>g, <2>1, SettleTyped, RunsStep DEF Inv
<1>7. ASSUME NEW p \in Providers, ChooseProvider(p) PROVE Inv'
  BY <1>7, <1>r, <1>g, RevisionKept, KeptStep DEF ChooseProvider
<1>8. CASE Disconnect
  BY <1>8, <1>r, <1>g, RevisionKept, KeptStep DEF Disconnect
<1>9. CASE ChooseEnds
  <2> DEFINE c == ClearHistory(sched, provider)
  <2>1. Kept(sched, c)
    BY <1>g, ClearHistoryKeeps, CoreKept DEF Good
  <2> HIDE DEF c
  <2>2. Kept(c, RequestImmediate(c)) /\ Kept(sched, RequestImmediate(sched))
    BY <1>g, <2>1, ImmediateKept DEF Kept
  <2>3. Kept(sched, sched') /\ UNCHANGED runs
    BY <1>9, <1>g, <2>1, <2>2 DEF ChooseEnds, Kept, c
  <2> QED
    BY <1>r, <2>3, KeptStep
<1> QED
  BY <1>r, <1>1, <1>2, <1>3, <1>4, <1>5, <1>6, <1>7, <1>8, <1>9, StartStep, StopStep,
     ConnectivityStep, VisibilityStep, TimerStep, PollStep, TickStep, RunSettlesStep,
     ManualStep, CancelStep DEF Next, WorkerStep

\* The fields of the scheduler, its run in flight and its timer stay consistent
\* in every behaviour, fair or not (runAutomatic, requestImmediate, stop...).
THEOREM InvHolds == Spec => []Inv
  BY InitInv, InvStep, PTL DEF Spec

\* Every field keeps its type.
THEOREM TypeCorrect == Spec => []TypeOK
<1>1. Inv => TypeOK
  BY DEF Inv
<1> QED
  BY <1>1, InvHolds, PTL

\* At most one automatic synchronization awaits the worker: the run that the
\* check on activeSync in runAutomatic lets through is the active one, and
\* stop() leaves it the active one until it settles.
THEOREM OneRunAtATime == Spec => []SingleFlight
<1>1. Inv => SingleFlight
  BY DEF Inv, Linked, SingleFlight
<1> QED
  BY <1>1, InvHolds, PTL

\* A status that promises more to come is backed by a timer or by a run
\* (schedule, runAutomatic and cancelActive).
THEOREM StatusAlwaysBacked == Spec => []StatusIsBacked
<1>1. Inv => StatusIsBacked
  BY SMTT(40) DEF Inv, Linked, Healthy, StatusIsBacked
<1> QED
  BY <1>1, InvHolds, PTL

\* A run starts to await the worker only when the timer fires.
LEMMA OnlyTimerStarts ==
  ASSUME TypeOK, Next, NEW i \in Slots, ~runs[i].awaiting, runs'[i].awaiting
  PROVE  TimerFires
<1>1. runs' # runs
  OBVIOUS
<1>2. ASSUME NEW outcome \in Outcomes, Settle(outcome) PROVE FALSE
  BY <1>2, SettleTyped
<1>3. ASSUME NEW j \in Slots, RunSettles(j) PROVE FALSE
  BY <1>3 DEF RunSettles, NoRun, TypeOK
<1>4. ASSUME NEW j \in Slots, AbortRun(j), AbortWorker(j) PROVE FALSE
  BY ZenonT(40), <1>4, AbortTyped
<1>5. ASSUME Stop PROVE FALSE
  <2>1. sched.active \in {0} \cup Slots
    BY Fields DEF TypeOK
  <2> QED
    BY <1>1, <1>4, <1>5, <2>1 DEF Stop
<1>6. ASSUME CancelActive PROVE FALSE
  <2>1. sched.active \in {0} \cup Slots
    BY Fields DEF TypeOK
  <2> QED
    BY <1>4, <1>6, <2>1 DEF CancelActive
<1>7. ASSUME NEW outcome \in {"ok", "maintenance"}, WorkerSucceeds(outcome) PROVE FALSE
  BY <1>2, <1>7 DEF WorkerSucceeds, Outcomes
<1>8. ASSUME NEW outcome \in {"failed", "limited"}, WorkerFails(outcome) PROVE FALSE
  BY <1>2, <1>8 DEF WorkerFails, Outcomes
<1> QED
  BY ZenonT(40), <1>1, <1>3, <1>5, <1>6, <1>7, <1>8
  DEF Next, WorkerStep, Start, RequestNow, LocalChange, ConnectivityChanges,
      OnConnectivity, OnVisibilityChange, PollFires, Tick, WorkerReads, ChooseProvider,
      ChooseEnds, Disconnect, SyncNow, SyncNowSettles, CancelManual

\* While one provider is in use, the timer of requestImmediate, requestQuiet
\* and of the finally block never fires before the Retry-After deadline.
THEOREM RetryAfterIsKept == OneProvider => (Spec => NoEarlyRetry)
<1> SUFFICES ASSUME OneProvider PROVE Spec => NoEarlyRetry
  OBVIOUS
<1> DEFINE A == \A i \in Slots : ~runs[i].awaiting /\ runs'[i].awaiting =>
                    sched.retryAfter[runs'[i].provider] = 0
<1>1. Inv /\ [Next]_vars => [A]_vars
  <2> SUFFICES ASSUME Inv, Next, NEW i \in Slots, ~runs[i].awaiting, runs'[i].awaiting
               PROVE  sched.retryAfter[runs'[i].provider] = 0
    OBVIOUS
  <2>1. TimerFires
    BY SMTT(40), OnlyTimerStarts DEF Inv
  <2>2. sched.wait = 0 /\ runs'[i].provider \in Providers /\ sched \in SchedType
    BY SMTT(40), <2>1, InvStep DEF Inv, Linked, TypeOK, TimerFires
  <2>3. /\ sched.retryAfter[runs'[i].provider] \in Nat
        /\ sched.retryAfter[runs'[i].provider] <= sched.wait
    BY <2>2, Fields DEF Inv, Deadline, NoTimer
  <2> QED
    BY <2>2, <2>3
<1> QED
  BY <1>1, InvHolds, PTL DEF Spec, NoEarlyRetry

=============================================================================
