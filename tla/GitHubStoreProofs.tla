--------------------------- MODULE GitHubStoreProofs ---------------------------
(***************************************************************************)
(* Two results about the GitHub adapter, for every set of clients, paths,  *)
(* blobs and calls: it implements DocumentStore, and the branch it leaves  *)
(* is one that Git LFS can check out.                                      *)
(*                                                                         *)
(* The first rests on the invariant Sound: what a handler remembers        *)
(* between its requests still says what it needs at the next one.  The one *)
(* part that takes several steps to break is ReferenceSound: as long as    *)
(* the branch has not moved, the tree that deleteEntries validated is the  *)
(* tree it replaces.  The second rests on LfsInv, which adds what an       *)
(* upload knows once the attributes are read, and once its object is       *)
(* transferred.                                                            *)
(***************************************************************************)
EXTENDS GitHubStore, TLAPS

\* The handler's record keeps its fields.
IsRun(r) == r = [phase |-> r.phase, request |-> r.request, seen |-> r.seen, attempt |-> r.attempt,
                 result |-> r.result]

\* The calls that can be in a phase.
OperationsOf(phase) ==
    CASE phase = "put" -> {"write"}
      [] phase = "get" -> {"read", "download"}
      [] phase = "bytes" -> {"download"}
      [] phase \in {"tree", "blobs"} -> {"list"}
      [] phase \in {"current", "delete"} -> {"delete", "entry"}
      [] phase \in {"attributes", "configure"} -> {"entry", "upload"}
      [] phase \in {"reference", "patch"} -> {"entries"}
      [] phase \in {"existing", "transfer", "pointer", "concurrent"} -> {"upload"}

Phases == Answers \cup {"put", "get", "bytes", "tree", "blobs", "current", "delete", "attributes",
                        "configure", "reference", "patch", "existing", "transfer", "pointer",
                        "concurrent"}

PhaseSound(r) ==
    /\ r.phase \in Phases
    /\ r.phase \notin Answers => r.request \in Requests /\ r.request.op \in OperationsOf(r.phase)

DeleteSound(r) ==
    r.phase = "delete" => r.seen # Absent /\ r.request.expected \in {Unchecked, r.seen}

ReferenceSound(r, h, t) ==
    r.phase = "patch" =>
        /\ r.seen.head \in Nat /\ r.seen.head <= h
        /\ r.seen.head = h => r.seen.tree = t
        /\ \A p \in DOMAIN r.request.wanted :
              r.seen.tree[p] = Absent \/ r.request.wanted[p] = {r.seen.tree[p]}

\* What a handler of the store keeps true of the branch and of itself.
Sound ==
    /\ head \in Nat
    /\ DOMAIN tree = Paths /\ tree = [p \in Paths |-> tree[p]]
    /\ head = 0 => \A p \in Paths : tree[p] = Absent
    /\ run = [c \in Clients |-> run[c]]
    /\ \A c \in Clients :
          /\ IsRun(run[c])
          /\ PhaseSound(run[c])
          /\ DeleteSound(run[c])
          /\ ReferenceSound(run[c], head, tree)

\* A branch without commits and handlers without calls are sound.
LEMMA SoundInit == Init => Sound
  BY
  DEF Init, Sound, IsRun, PhaseSound, DeleteSound, ReferenceSound, Handler, NoPaths, Phases, Answers

--------------------------------------------------------------------------------
(* One handler takes a step.                                                 *)

\* A step of one handler keeps Sound when its own record stays sound and the
\* branch stays or moves to one more commit: the other handlers that validated
\* a tree validated an older one then.
LEMMA OneHandlerSteps ==
  ASSUME Sound, NEW c \in Clients, NEW r,
         run' = [run EXCEPT ![c] = r],
         IsRun(r), PhaseSound(r), DeleteSound(r), ReferenceSound(r, head', tree'),
         \/ head' = head /\ tree' = tree
         \/ head' = head + 1 /\ DOMAIN tree' = Paths /\ tree' = [p \in Paths |-> tree'[p]]
  PROVE  Sound'
<1>1. run' = [d \in Clients |-> run'[d]]
  BY DEF Sound
<1>2. ASSUME NEW d \in Clients
      PROVE  /\ IsRun(run'[d])
             /\ PhaseSound(run'[d])
             /\ DeleteSound(run'[d])
             /\ ReferenceSound(run'[d], head', tree')
  <2>1. CASE d = c
    BY <2>1 DEF Sound
  <2>2. CASE d # c
    <3>1. run'[d] = run[d]
      BY SMTT(40), <2>2 DEF Sound
    <3>2. ReferenceSound(run[d], head', tree')
      BY DEF Sound, ReferenceSound
    <3>. QED  BY <3>1, <3>2, Zenon DEF Sound
  <2>. QED  BY <2>1, <2>2
<1>3. /\ head' \in Nat
      /\ DOMAIN tree' = Paths /\ tree' = [p \in Paths |-> tree'[p]]
      /\ head' = 0 => \A p \in Paths : tree'[p] = Absent
  BY DEF Sound
<1>. QED  BY <1>1, <1>2, <1>3 DEF Sound

\* What the store sees of a handler.
Requested == [d \in Clients |-> run[d].request]
Statuses == [d \in Clients |-> StatusOf(run[d])]
Results == [d \in Clients |-> run[d].result]

\* The store sees the step of one handler as a change of that client alone.
LEMMA StoreSeesOne ==
  ASSUME Sound, NEW c \in Clients, NEW r, run' = [run EXCEPT ![c] = r]
  PROVE  /\ Requested' = [Requested EXCEPT ![c] = r.request]
         /\ Statuses' = [Statuses EXCEPT ![c] = StatusOf(r)]
         /\ Results' = [Results EXCEPT ![c] = r.result]
<1>1. run'[c] = r /\ \A d \in Clients : d # c => run'[d] = run[d]
  BY DEF Sound
<1>2. Requested' = [Requested EXCEPT ![c] = r.request]
  <2>1. Requested' = [d \in Clients |-> run'[d].request]
    BY DEF Requested
  <2>2. \A d \in Clients : run'[d].request = [Requested EXCEPT ![c] = r.request][d]
    BY <1>1 DEF Requested
  <2>. QED  BY <2>1, <2>2, Zenon DEF Requested
<1>3. Statuses' = [Statuses EXCEPT ![c] = StatusOf(r)]
  <2>1. Statuses' = [d \in Clients |-> StatusOf(run'[d])]
    BY DEF Statuses, StatusOf
  <2>2. \A d \in Clients : StatusOf(run'[d]) = [Statuses EXCEPT ![c] = StatusOf(r)][d]
    BY <1>1 DEF Statuses
  <2>. QED  BY <2>1, <2>2, Zenon DEF Statuses
<1>4. Results' = [Results EXCEPT ![c] = r.result]
  <2>1. Results' = [d \in Clients |-> run'[d].result]
    BY DEF Results
  <2>2. \A d \in Clients : run'[d].result = [Results EXCEPT ![c] = r.result][d]
    BY <1>1 DEF Results
  <2>. QED  BY <2>1, <2>2, Zenon DEF Results
<1>. QED  BY <1>2, <1>3, <1>4

\* A handler gives up: the store refuses the call.
LEMMA HandlerRefuses ==
  ASSUME Sound, NEW c \in Clients, NEW r, run' = [run EXCEPT ![c] = r], tree' = tree,
         StatusOf(run[c]) = "pending", StatusOf(r) \in {"conflict", "error"},
         r.request = run[c].request, r.result = run[c].result
  PROVE  Store!Refuse(c)
<1>0. /\ Requested' = [Requested EXCEPT ![c] = r.request]
      /\ Statuses' = [Statuses EXCEPT ![c] = StatusOf(r)]
      /\ Results' = [Results EXCEPT ![c] = r.result]
  BY StoreSeesOne, Zenon
<1>1. /\ Requested' = Requested
      /\ Results' = Results
      /\ Statuses' = [Statuses EXCEPT ![c] = StatusOf(r)]
      /\ Statuses[c] = "pending"
  BY <1>0 DEF Requested, Results, Statuses
<1>. QED  BY <1>1, Zenon DEF Store!Refuse, Requested, Results, Statuses

\* A handler goes on: the store does not see it.
LEMMA HandlerGoesOn ==
  ASSUME Sound, NEW c \in Clients, NEW r, run' = [run EXCEPT ![c] = r], tree' = tree,
         StatusOf(r) = StatusOf(run[c]),
         r.request = run[c].request, r.result = run[c].result
  PROVE  UNCHANGED Store!storeVars
<1>0. /\ Requested' = [Requested EXCEPT ![c] = r.request]
      /\ Statuses' = [Statuses EXCEPT ![c] = StatusOf(r)]
      /\ Results' = [Results EXCEPT ![c] = r.result]
  BY StoreSeesOne, Zenon
<1>1. /\ Requested' = Requested
      /\ Results' = Results
      /\ Statuses' = Statuses
  BY <1>0 DEF Requested, Results, Statuses
<1>. QED  BY <1>1 DEF Store!storeVars, Requested, Results, Statuses

\* A handler reports what took effect earlier.
LEMMA HandlerReports ==
  ASSUME Sound, NEW c \in Clients, NEW r, run' = [run EXCEPT ![c] = r], tree' = tree,
         StatusOf(run[c]) = "applied",
         StatusOf(r) \in {"ok", "error"} \/ (StatusOf(r) = "conflict" /\ run[c].request.op = "entry"),
         r.request = run[c].request, r.result = run[c].result
  PROVE  Store!Report(c)
<1>0. /\ Requested' = [Requested EXCEPT ![c] = r.request]
      /\ Statuses' = [Statuses EXCEPT ![c] = StatusOf(r)]
      /\ Results' = [Results EXCEPT ![c] = r.result]
  BY StoreSeesOne, Zenon
<1>1. /\ Requested' = Requested
      /\ Results' = Results
      /\ Statuses' = [Statuses EXCEPT ![c] = StatusOf(r)]
      /\ Statuses[c] = "applied"
      /\ Requested[c] = run[c].request
  BY <1>0 DEF Requested, Results, Statuses
<1>. QED  BY <1>1, Zenon DEF Store!Report, Requested, Results, Statuses

\* The request of a handler takes effect.
LEMMA HandlerTakesEffect ==
  ASSUME Sound, NEW c \in Clients, NEW r, run' = [run EXCEPT ![c] = r],
         StatusOf(run[c]) = "pending", StatusOf(r) \in {"ok", "error", "applied"},
         Store!Matches(run[c].request, tree),
         tree' = Store!Outcome(run[c].request, tree),
         r.request = run[c].request,
         r.result = IF run[c].request.op \in Store!Reads THEN tree ELSE run[c].result
  PROVE  Store!Effect(c)
<1>0. /\ Requested' = [Requested EXCEPT ![c] = r.request]
      /\ Statuses' = [Statuses EXCEPT ![c] = StatusOf(r)]
      /\ Results' = [Results EXCEPT ![c] = r.result]
  BY StoreSeesOne, Zenon
<1>1. /\ Requested' = Requested
      /\ Statuses' = [Statuses EXCEPT ![c] = StatusOf(r)]
      /\ Statuses[c] = "pending"
      /\ Requested[c] = run[c].request
  BY <1>0 DEF Requested, Statuses
<1>2. CASE run[c].request.op \in Store!Reads
  <2>1. Results' = [Results EXCEPT ![c] = tree]
    BY <1>0, <1>2
  <2>. QED  BY <1>1, <1>2, <2>1, Zenon DEF Store!Effect, Requested, Results, Statuses
<1>3. CASE run[c].request.op \notin Store!Reads
  <2>1. Results' = Results
    BY <1>0, <1>3 DEF Results
  <2>. QED  BY <1>1, <1>3, <2>1, Zenon DEF Store!Effect, Requested, Results, Statuses
<1>. QED  BY <1>2, <1>3

--------------------------------------------------------------------------------
(* The steps.                                                                *)

\* Moving a handler to its next request or answer changes its phase alone.
LEMMA MovedFields ==
  ASSUME NEW r, IsRun(r), NEW s
  PROVE  /\ IsRun(Moved(r, s))
         /\ Moved(r, s).phase = s
         /\ Moved(r, s).request = r.request
         /\ Moved(r, s).result = r.result
  BY DEF IsRun, Moved, Handler

\* A branch that stays, or moves to one more commit.
BranchMoves ==
    \/ head' = head /\ tree' = tree
    \/ head' = head + 1 /\ DOMAIN tree' = Paths /\ tree' = [p \in Paths |-> tree'[p]]

\* A handler that goes on or answers, with the branch as it was or one commit
\* further, keeps Sound.
LEMMA AnswerSound ==
  ASSUME Sound, NEW c \in Clients, NEW s \in Phases, Answer(c, s), BranchMoves,
         s \notin {"delete", "patch"},
         s \notin Answers => run[c].phase \notin Answers /\ run[c].request.op \in OperationsOf(s)
  PROVE  Sound'
<1>. DEFINE r == Moved(run[c], s)
<1>1. IsRun(run[c]) /\ PhaseSound(run[c])
  BY DEF Sound
<1>2. IsRun(r) /\ r.phase = s /\ r.request = run[c].request
  BY <1>1, MovedFields
<1>3. PhaseSound(r)
  BY SMTT(40), <1>1, <1>2 DEF PhaseSound
<1>4. DeleteSound(r) /\ ReferenceSound(r, head', tree')
  BY <1>2 DEF DeleteSound, ReferenceSound
<1>5. run' = [run EXCEPT ![c] = r]
  BY DEF Answer, Goes
<1>. QED  BY <1>2, <1>3, <1>4, <1>5, OneHandlerSteps, Zenon DEF BranchMoves

\* What the store sees of a step of c.
Simulated(c) ==
    Store!Call(c) \/ Store!Effect(c) \/ Store!Report(c) \/ Store!Refuse(c) \/ UNCHANGED Store!storeVars

\* An answer, seen by the store.
LEMMA AnswerSimulated ==
  ASSUME Sound, NEW c \in Clients, NEW s, Answer(c, s)
  PROVE  LET r == Moved(run[c], s) IN
         /\ run' = [run EXCEPT ![c] = r]
         /\ r.request = run[c].request
         /\ r.result = run[c].result
         /\ r.phase = s
  BY MovedFields DEF Sound, Answer, Goes

\* A conflict, or an error before the branch changed, is the store's refusal.
LEMMA RefusalSimulated ==
  ASSUME Sound, NEW c \in Clients, NEW s \in {"conflict", "error"}, Answer(c, s), tree' = tree,
         StatusOf(run[c]) = "pending"
  PROVE  Store!Refuse(c)
<1>. DEFINE r == Moved(run[c], s)
<1>1. /\ run' = [run EXCEPT ![c] = r] /\ r.request = run[c].request
      /\ r.result = run[c].result /\ r.phase = s
  BY AnswerSimulated
<1>2. StatusOf(r) = s
  BY <1>1 DEF StatusOf, Answers
<1>. QED  BY <1>1, <1>2, HandlerRefuses, Zenon

\* A commit that meets the expectation of its call is the store's effect, also
\* when its answer is lost.
LEMMA EffectSimulated ==
  ASSUME Sound, NEW c \in Clients, NEW s \in {"ok", "error"}, Answer(c, s),
         StatusOf(run[c]) = "pending", run[c].request.op \notin Store!Reads,
         Store!Matches(run[c].request, tree), tree' = Store!Outcome(run[c].request, tree)
  PROVE  Store!Effect(c)
<1>. DEFINE r == Moved(run[c], s)
<1>1. /\ run' = [run EXCEPT ![c] = r] /\ r.request = run[c].request
      /\ r.result = run[c].result /\ r.phase = s
  BY AnswerSimulated
<1>2. StatusOf(r) = s
  BY <1>1 DEF StatusOf, Answers
<1>. QED  BY <1>1, <1>2, HandlerTakesEffect, Zenon

\* Begin is the call.
LEMMA BeginStep ==
  ASSUME Sound, NEW c \in Clients, Begin(c)
  PROVE  Sound' /\ Simulated(c)
<1>1. PICK r \in Requests :
         run' = [run EXCEPT ![c] = Handler(FirstPhase(r.op), r, Absent, 0, NoPaths)]
  BY Zenon DEF Begin
<1>. DEFINE n == Handler(FirstPhase(r.op), r, Absent, 0, NoPaths)
<1>2. /\ IsRun(n) /\ n.phase = FirstPhase(r.op) /\ n.request = r
      /\ n.result = NoPaths
  BY SMTT(40) DEF IsRun, Handler
<1>3. /\ FirstPhase(r.op) \in Phases \ Answers
      /\ FirstPhase(r.op) \notin {"delete", "patch", "bytes", "blobs", "attributes", "configure"}
      /\ r.op \in OperationsOf(FirstPhase(r.op))
  BY RequestAssumption DEF Operations, FirstPhase, Phases, Answers, OperationsOf
<1>4. Sound'
  <2>1. PhaseSound(n) /\ DeleteSound(n) /\ ReferenceSound(n, head', tree')
    BY <1>2, <1>3 DEF PhaseSound, DeleteSound, ReferenceSound
  <2>2. head' = head /\ tree' = tree
    BY DEF Begin, NoCommit
  <2>3. run' = [run EXCEPT ![c] = n]
    BY <1>1
  <2>4. IsRun(n)
    BY <1>2
  <2>. HIDE DEF n
  <2>. QED  BY ZenonT(40), <2>1, <2>2, <2>3, <2>4, OneHandlerSteps
<1>5. Store!Call(c)
  <2>1. StatusOf(n) = "pending"
    BY <1>2, <1>3 DEF StatusOf
  <2>2. StatusOf(run[c]) \in Answers
    BY DEF Begin, StatusOf
  <2>3. run' = [run EXCEPT ![c] = n]
    BY <1>1
  <2>4. n.request = r /\ n.result = Store!Nothing
    BY <1>2 DEF Store!Nothing, NoPaths
  <2>. HIDE DEF n
  <2>5. /\ Requested' = [Requested EXCEPT ![c] = n.request]
        /\ Statuses' = [Statuses EXCEPT ![c] = StatusOf(n)]
        /\ Results' = [Results EXCEPT ![c] = n.result]
    BY <2>3, StoreSeesOne, Zenon
  <2>6. Statuses[c] \in Store!Answers
    BY <2>2 DEF Statuses, Answers, Store!Answers
  <2>7. tree' = tree
    BY DEF Begin, NoCommit
  <2>. QED  BY ZenonT(40), <2>1, <2>4, <2>5, <2>6, <2>7
    DEF Store!Call, Requested, Statuses, Results
<1>. QED  BY <1>4, <1>5 DEF Simulated

\* A write is one request that GitHub carries out when the blob is the one named.
LEMMA WriteStep ==
  ASSUME Sound, NEW c \in Clients, writeDocument(c)
  PROVE  Sound' /\ Simulated(c)
<1>1. /\ IsRun(run[c]) /\ run[c].request \in Requests /\ run[c].request.op = "write"
      /\ StatusOf(run[c]) = "pending" /\ run[c].phase \notin Answers
  BY SMTT(40) DEF Sound, PhaseSound, OperationsOf, Answers, StatusOf, writeDocument
<1>2. run[c].request.path \in Paths
  BY <1>1, RequestAssumption
<1>3. CASE ContentsPut(run[c].request.path, run[c].request.expected, run[c].request.content)
             /\ Carried(c, "ok")
  <2>1. PICK s \in {"ok", "error"} : Answer(c, s)
    BY SMTT(40), <1>3 DEF Carried
  <2>2. BranchMoves
    BY SMTT(40), <1>3 DEF ContentsPut, Commit, BranchMoves, Sound
  <2>3. Sound'
    BY <2>1, <2>2, AnswerSound DEF Answers, Phases
  <2>4. /\ Store!Matches(run[c].request, tree)
        /\ tree' = Store!Outcome(run[c].request, tree)
        /\ run[c].request.op \notin Store!Reads
    BY <1>1, <1>3 DEF ContentsPut, Commit, Store!Matches, Store!Outcome, Store!Reads
  <2>. QED  BY <1>1, <2>1, <2>3, <2>4, EffectSimulated DEF Simulated
<1>4. CASE NoCommit /\ Answer(c, "conflict")
  <2>1. BranchMoves /\ tree' = tree
    BY SMTT(40), <1>4 DEF NoCommit, BranchMoves
  <2>2. Sound'
    BY <1>4, <2>1, AnswerSound DEF Answers, Phases
  <2>. QED  BY <1>1, <1>4, <2>1, <2>2, RefusalSimulated DEF Simulated
<1>. QED  BY SMTT(40), <1>3, <1>4 DEF writeDocument

\* Reading one file.
LEMMA GetStep ==
  ASSUME Sound, NEW c \in Clients, Get(c)
  PROVE  Sound' /\ Simulated(c)
<1>1. /\ IsRun(run[c]) /\ run[c].request \in Requests /\ run[c].request.op \in {"read", "download"}
      /\ StatusOf(run[c]) = "pending" /\ run[c].phase \notin Answers
  BY ZenonT(40) DEF Sound, PhaseSound, OperationsOf, Answers, StatusOf, Get
<1>. DEFINE file == tree[run[c].request.path]
             s == IF run[c].request.op = "read" \/ file = Absent THEN "ok"
                  ELSE IF parseLfsPointer(file) THEN "bytes" ELSE "error"
             r == Handler(s, run[c].request, file, 0, tree)
<1>2. run' = [run EXCEPT ![c] = r] /\ head' = head /\ tree' = tree
  BY SMTT(40) DEF Get, Goes, NoCommit
<1>3. /\ IsRun(r) /\ r.phase = s /\ r.request = run[c].request /\ r.result = tree
  BY DEF IsRun, Handler
<1>4. /\ s \in {"bytes", "error", "ok"}
      /\ s = "bytes" => run[c].request.op = "download"
  BY <1>1
<1>. HIDE DEF s, r
<1>5. Sound'
  <2>1. PhaseSound(r) /\ DeleteSound(r) /\ ReferenceSound(r, head', tree')
    BY <1>1, <1>3, <1>4
    DEF PhaseSound, DeleteSound, ReferenceSound, Phases, Answers, OperationsOf
  <2>. QED  BY ZenonT(40), <1>2, <1>3, <2>1, OneHandlerSteps
<1>6. Store!Effect(c)
  <2>1. StatusOf(r) \in {"ok", "error", "applied"}
    BY <1>3, <1>4 DEF StatusOf, Answers
  <2>2. /\ Store!Matches(run[c].request, tree)
        /\ tree' = Store!Outcome(run[c].request, tree)
        /\ run[c].request.op \in Store!Reads
    BY ZenonT(40), <1>1, <1>2 DEF Store!Matches, Store!Outcome, Store!Reads
  <2>. QED  BY ZenonT(40), <1>1, <1>2, <1>3, <2>1, <2>2, HandlerTakesEffect
<1>. QED  BY SMTT(40), <1>5, <1>6 DEF Simulated

\* Reading the tree of the branch.
LEMMA ListStep ==
  ASSUME Sound, NEW c \in Clients, ListTree(c)
  PROVE  Sound' /\ Simulated(c)
<1>1. /\ IsRun(run[c]) /\ run[c].request \in Requests /\ run[c].request.op = "list"
      /\ StatusOf(run[c]) = "pending" /\ run[c].phase \notin Answers
  BY DEF Sound, PhaseSound, OperationsOf, Answers, StatusOf, ListTree
<1>. DEFINE r == Handler("blobs", run[c].request, Absent, 0, tree)
<1>2. run' = [run EXCEPT ![c] = r] /\ head' = head /\ tree' = tree
  BY DEF ListTree, Goes, NoCommit
<1>3. /\ IsRun(r) /\ r.phase = "blobs" /\ r.request = run[c].request /\ r.result = tree
  BY DEF IsRun, Handler
<1>. HIDE DEF r
<1>4. Sound'
  <2>1. PhaseSound(r) /\ DeleteSound(r) /\ ReferenceSound(r, head', tree')
    BY <1>1, <1>3
    DEF PhaseSound, DeleteSound, ReferenceSound, Phases, Answers, OperationsOf
  <2>. QED  BY <1>2, <1>3, <2>1, OneHandlerSteps, Zenon
<1>5. Store!Effect(c)
  <2>1. StatusOf(r) = "applied"
    BY <1>3 DEF StatusOf, Answers
  <2>2. /\ Store!Matches(run[c].request, tree)
        /\ tree' = Store!Outcome(run[c].request, tree)
        /\ run[c].request.op \in Store!Reads
    BY <1>1, <1>2 DEF Store!Matches, Store!Outcome, Store!Reads
  <2>. QED  BY <1>1, <1>2, <1>3, <2>1, <2>2, HandlerTakesEffect, Zenon
<1>. QED  BY <1>4, <1>5 DEF Simulated

\* The answer of a call that took effect earlier.
LEMMA ReportSimulated ==
  ASSUME Sound, NEW c \in Clients, NEW s \in Answers, Answer(c, s), head' = head, tree' = tree,
         StatusOf(run[c]) = "applied",
         s = "conflict" => run[c].request.op = "entry"
  PROVE  Sound' /\ Simulated(c)
<1>. DEFINE r == Moved(run[c], s)
<1>1. /\ run' = [run EXCEPT ![c] = r] /\ r.request = run[c].request
      /\ r.result = run[c].result /\ r.phase = s
  BY SMTT(40), AnswerSimulated
<1>2. StatusOf(r) = s
  BY <1>1 DEF StatusOf
<1>. HIDE DEF r
<1>3. Store!Report(c)
  BY ZenonT(40), <1>1, <1>2, HandlerReports DEF Answers
<1>4. Sound'
  BY AnswerSound DEF BranchMoves, Phases, Answers
<1>. QED  BY <1>3, <1>4 DEF Simulated

LEMMA BytesStep ==
  ASSUME Sound, NEW c \in Clients, Download(c) \/ ReadBlobs(c)
  PROVE  Sound' /\ Simulated(c)
<1>1. StatusOf(run[c]) = "applied"
  BY DEF Download, ReadBlobs, StatusOf, Answers
<1>2. PICK s \in {"ok", "error"} : Answer(c, s)
  BY DEF Download, ReadBlobs
<1>3. head' = head /\ tree' = tree
  BY SMTT(40) DEF Download, ReadBlobs, NoCommit
<1>. QED  BY <1>1, <1>2, <1>3, ReportSimulated DEF Answers

\* The file a deletion is about.
LEMMA CurrentStep ==
  ASSUME Sound, NEW c \in Clients, ReadCurrent(c)
  PROVE  Sound' /\ Simulated(c)
<1>1. /\ IsRun(run[c]) /\ run[c].request \in Requests /\ run[c].request.op \in {"delete", "entry"}
      /\ StatusOf(run[c]) = "pending" /\ run[c].phase \notin Answers
  BY SMTT(40) DEF Sound, PhaseSound, OperationsOf, Answers, StatusOf, ReadCurrent
<1>2. run[c].request.path \in Paths /\ head' = head /\ tree' = tree
  BY SMTT(40), <1>1, RequestAssumption DEF ReadCurrent, NoCommit
<1>. DEFINE current == tree[run[c].request.path]
<1>3. CASE current = Absent
  <2>1. Answer(c, "ok")
    BY <1>3 DEF ReadCurrent
  <2>2. Sound'
    BY <1>2, <2>1, AnswerSound DEF BranchMoves, Phases, Answers
  <2>3. /\ Store!Matches(run[c].request, tree)
        /\ run[c].request.op \notin Store!Reads
    BY <1>1, <1>3, Zenon DEF Store!Matches, Store!Reads
  <2>4. tree' = Store!Outcome(run[c].request, tree)
    <3>1. Store!Outcome(run[c].request, tree) = [tree EXCEPT ![run[c].request.path] = Absent]
      BY <1>1 DEF Store!Outcome, Store!Reads
    <3>. QED  BY <1>2, <1>3, <3>1 DEF Sound
  <2>. QED  BY SMTT(40), <1>1, <2>1, <2>2, <2>3, <2>4, EffectSimulated DEF Simulated
<1>4. CASE current # Absent /\ run[c].request.expected \notin {Unchecked, current}
  <2>1. Answer(c, "conflict")
    BY <1>4 DEF ReadCurrent
  <2>2. Sound'
    BY <1>2, <2>1, AnswerSound DEF BranchMoves, Phases, Answers
  <2>. QED  BY <1>1, <1>2, <2>1, <2>2, RefusalSimulated DEF Simulated
<1>5. CASE current # Absent /\ run[c].request.expected \in {Unchecked, current}
  <2>. DEFINE r == Handler("delete", run[c].request, current, run[c].attempt, run[c].result)
  <2>1. run' = [run EXCEPT ![c] = r]
    BY <1>5 DEF ReadCurrent, Goes, Saw
  <2>2. /\ IsRun(r) /\ r.phase = "delete" /\ r.seen = current
        /\ r.request = run[c].request /\ r.result = run[c].result
    BY DEF IsRun, Handler
  <2>. HIDE DEF r
  <2>3. PhaseSound(r) /\ DeleteSound(r) /\ ReferenceSound(r, head', tree')
    BY <1>1, <1>5, <2>2
    DEF PhaseSound, DeleteSound, ReferenceSound, Phases, Answers, OperationsOf
  <2>4. Sound'
    BY <1>2, <2>1, <2>2, <2>3, OneHandlerSteps, Zenon
  <2>5. StatusOf(r) = StatusOf(run[c])
    BY SMTT(40), <1>1, <2>2 DEF StatusOf, Answers
  <2>. QED  BY ZenonT(40), <1>2, <2>1, <2>2, <2>4, <2>5, HandlerGoesOn DEF Simulated
<1>. QED  BY SMTT(40), <1>3, <1>4, <1>5

\* The deletion of one file.
LEMMA DeleteStep ==
  ASSUME Sound, NEW c \in Clients, deleteFile(c)
  PROVE  Sound' /\ Simulated(c)
<1>1. /\ IsRun(run[c]) /\ run[c].request \in Requests /\ run[c].request.op \in {"delete", "entry"}
      /\ StatusOf(run[c]) = "pending" /\ run[c].phase \notin Answers
  BY DEF Sound, PhaseSound, OperationsOf, Answers, StatusOf, deleteFile
<1>2. run[c].request.path \in Paths
  BY <1>1, RequestAssumption
<1>3. run[c].seen # Absent /\ run[c].request.expected \in {Unchecked, run[c].seen}
  BY DEF Sound, DeleteSound, deleteFile
<1>4. CASE /\ tree[run[c].request.path] = run[c].seen
           /\ Commit([tree EXCEPT ![run[c].request.path] = Absent], attributes)
           /\ Carried(c, IF run[c].request.op = "entry" THEN "attributes" ELSE "ok")
  <2>. DEFINE s == IF run[c].request.op = "entry" THEN "attributes" ELSE "ok"
  <2>1. BranchMoves /\ tree' = [tree EXCEPT ![run[c].request.path] = Absent]
    BY <1>2, <1>4 DEF BranchMoves, Commit, Sound
  <2>2. /\ Store!Matches(run[c].request, tree)
        /\ tree' = Store!Outcome(run[c].request, tree)
        /\ run[c].request.op \notin Store!Reads
    BY <1>1, <1>3, <1>4, <2>1, Zenon DEF Store!Matches, Store!Outcome, Store!Reads
  <2>3. CASE Answer(c, "error") \/ (Answer(c, s) /\ s = "ok")
    <3>1. PICK a \in {"ok", "error"} : Answer(c, a)
      BY <2>3
    <3>2. Sound'
      BY <2>1, <3>1, AnswerSound DEF Phases, Answers
    <3>. QED  BY <1>1, <2>2, <3>1, <3>2, EffectSimulated DEF Simulated
  <2>4. CASE Answer(c, s) /\ s = "attributes"
    <3>. DEFINE r == Moved(run[c], "attributes")
    <3>1. Answer(c, "attributes") /\ run[c].request.op = "entry"
      BY <2>4
    <3>2. Sound'
      BY <1>1, <2>1, <3>1, AnswerSound DEF Phases, Answers, OperationsOf
    <3>3. /\ run' = [run EXCEPT ![c] = r] /\ r.request = run[c].request
          /\ r.result = run[c].result /\ r.phase = "attributes"
      BY <3>1, AnswerSimulated
    <3>4. StatusOf(r) = "applied"
      BY <3>1, <3>3 DEF StatusOf, Answers
    <3>. HIDE DEF r
    <3>. QED  BY <1>1, <2>2, <3>2, <3>3, <3>4, HandlerTakesEffect, Zenon DEF Simulated
  <2>. QED  BY <1>1, <1>4, <2>3, <2>4 DEF Carried
<1>5. CASE /\ NoCommit
           /\ Answer(c, "error") \/ Answer(c, "conflict")
  <2>1. BranchMoves /\ tree' = tree
    BY <1>5 DEF BranchMoves, NoCommit
  <2>2. PICK a \in {"error", "conflict"} : Answer(c, a)
    BY <1>5
  <2>3. Sound'
    BY <2>1, <2>2, AnswerSound DEF Phases, Answers
  <2>. QED  BY <1>1, <2>1, <2>2, <2>3, RefusalSimulated DEF Simulated
<1>. QED  BY <1>4, <1>5 DEF deleteFile

\* An attempt to reconcile .gitattributes may end the call, in either direction.
\* For the removal of an entry, that took effect before, any answer is a report.
LEMMA AttributesAnswered ==
  ASSUME Sound, NEW c \in Clients, run[c].phase \in {"attributes", "configure"},
         NEW s \in {"ok", "error", "conflict", "pointer"}, Answer(c, s), BranchMoves, tree' = tree,
         s = "ok" => run[c].request.op = "entry", s = "pointer" => run[c].request.op # "entry"
  PROVE  Sound' /\ Simulated(c)
<1>1. /\ IsRun(run[c]) /\ run[c].request \in Requests /\ run[c].request.op \in {"entry", "upload"}
      /\ run[c].phase \notin Answers
  BY DEF Sound, PhaseSound, OperationsOf, Answers
<1>2. Sound'
  BY <1>1, AnswerSound DEF Phases, Answers, OperationsOf
<1>. DEFINE r == Moved(run[c], s)
<1>3. /\ run' = [run EXCEPT ![c] = r] /\ r.request = run[c].request
      /\ r.result = run[c].result /\ r.phase = s
  BY AnswerSimulated
<1>. HIDE DEF r
<1>4. CASE run[c].request.op = "entry"
  <2>1. StatusOf(run[c]) = "applied" /\ StatusOf(r) = s /\ s \in Answers
    BY <1>1, <1>3, <1>4 DEF StatusOf, Answers
  <2>. QED  BY <1>2, <1>3, <1>4, <2>1, HandlerReports, Zenon DEF Simulated, Answers
<1>5. CASE run[c].request.op # "entry" /\ s = "pointer"
  <2>1. StatusOf(run[c]) = "pending" /\ StatusOf(r) = "pending"
    BY <1>1, <1>3, <1>5 DEF StatusOf, Answers
  <2>. QED  BY <1>2, <1>3, <2>1, HandlerGoesOn, Zenon DEF Simulated
<1>6. CASE run[c].request.op # "entry" /\ s \in {"error", "conflict"}
  <2>1. StatusOf(run[c]) = "pending"
    BY <1>1, <1>6 DEF StatusOf, Answers
  <2>. QED  BY <1>2, <1>6, <2>1, RefusalSimulated DEF Simulated
<1>. QED  BY <1>4, <1>5, <1>6

\* It may also go on to its other half.
LEMMA AttributesGoOn ==
  ASSUME Sound, NEW c \in Clients, run[c].phase \in {"attributes", "configure"},
         NEW p \in {"attributes", "configure"}, NEW x, NEW n,
         run' = [run EXCEPT ![c] = Handler(p, run[c].request, x, n, run[c].result)],
         head' = head, tree' = tree
  PROVE  Sound' /\ Simulated(c)
<1>. DEFINE r == Handler(p, run[c].request, x, n, run[c].result)
<1>0. /\ run' = [run EXCEPT ![c] = r] /\ r.phase = p /\ IsRun(r)
      /\ r.request = run[c].request /\ r.result = run[c].result
  BY DEF Handler, IsRun
<1>. HIDE DEF r
<1>1. /\ run[c].request \in Requests /\ run[c].request.op \in {"entry", "upload"}
  BY DEF Sound, PhaseSound, OperationsOf, Answers
<1>2. PhaseSound(r) /\ DeleteSound(r) /\ ReferenceSound(r, head', tree')
  BY <1>0, <1>1 DEF PhaseSound, DeleteSound, ReferenceSound, Phases, Answers, OperationsOf
<1>3. Sound'
  BY <1>0, <1>2, OneHandlerSteps, Zenon
<1>4. StatusOf(r) = StatusOf(run[c])
  BY <1>0, <1>1 DEF StatusOf, Answers
<1>. QED  BY <1>0, <1>3, <1>4, HandlerGoesOn, Zenon DEF Simulated

LEMMA ReadAttributesStep ==
  ASSUME Sound, NEW c \in Clients, ReadAttributes(c)
  PROVE  Sound' /\ Simulated(c)
<1>1. run[c].phase = "attributes" /\ head' = head /\ tree' = tree /\ BranchMoves
  BY DEF ReadAttributes, NoCommit, BranchMoves
<1>2. CASE NeedsReconciling(attributes)
  <2>1. run' = [run EXCEPT ![c] = Handler("configure", run[c].request, attributes, run[c].attempt, run[c].result)]
    BY <1>2 DEF ReadAttributes, Goes, Saw
  <2>. QED  BY <1>1, <2>1, AttributesGoOn, Zenon
<1>3. CASE ~NeedsReconciling(attributes)
  <2>1. Answer(c, AfterAttributes(run[c].request.op))
    BY <1>3 DEF ReadAttributes
  <2>2. AfterAttributes(run[c].request.op) = IF run[c].request.op = "entry" THEN "ok" ELSE "pointer"
    BY DEF AfterAttributes
  <2>3. PICK s \in {"ok", "error", "conflict", "pointer"} :
           /\ Answer(c, s)
           /\ s = "ok" => run[c].request.op = "entry"
           /\ s = "pointer" => run[c].request.op # "entry"
    BY <2>1, <2>2
  <2>4. run[c].phase \in {"attributes", "configure"}
    BY <1>1
  <2>. QED  BY <1>1, <2>3, <2>4, AttributesAnswered
<1>. QED  BY <1>2, <1>3

LEMMA WriteAttributesStep ==
  ASSUME Sound, NEW c \in Clients, WriteAttributes(c)
  PROVE  Sound' /\ Simulated(c)
<1>1. run[c].phase = "configure"
  BY DEF WriteAttributes
<1>2. CASE /\ Commit(tree, reconciledGitAttributes(run[c].seen))
           /\ Carried(c, AfterAttributes(run[c].request.op))
  <2>1. BranchMoves /\ tree' = tree
    BY <1>2 DEF BranchMoves, Commit, Sound
  <2>2. PICK s \in {"ok", "error", "conflict", "pointer"} :
           /\ Answer(c, s)
           /\ s = "ok" => run[c].request.op = "entry"
           /\ s = "pointer" => run[c].request.op # "entry"
    BY <1>2 DEF Carried, AfterAttributes
  <2>. QED  BY <1>1, <2>1, <2>2, AttributesAnswered
<1>3. CASE NoCommit /\ Answer(c, "conflict")
  <2>1. BranchMoves /\ tree' = tree
    BY <1>3 DEF BranchMoves, NoCommit
  <2>. QED  BY <1>1, <1>3, <2>1, AttributesAnswered
<1>4. CASE /\ NoCommit
           /\ Goes(c, Handler("attributes", run[c].request, Absent, run[c].attempt + 1, run[c].result))
  <2>1. /\ run' = [run EXCEPT ![c] = Handler("attributes", run[c].request, Absent, run[c].attempt + 1, run[c].result)]
        /\ head' = head /\ tree' = tree
    BY <1>4 DEF Goes, NoCommit
  <2>. QED  BY <1>1, <2>1, AttributesGoOn, Zenon
<1>. QED  BY <1>2, <1>3, <1>4 DEF WriteAttributes

\* deleteEntries validates every path against one commit.
LEMMA ReferenceStep ==
  ASSUME Sound, NEW c \in Clients, ReadReference(c)
  PROVE  Sound' /\ Simulated(c)
<1>1. /\ IsRun(run[c]) /\ run[c].request \in Requests /\ run[c].request.op = "entries"
      /\ StatusOf(run[c]) = "pending" /\ run[c].phase \notin Answers
  BY DEF Sound, PhaseSound, OperationsOf, Answers, StatusOf, ReadReference
<1>. DEFINE wanted == run[c].request.wanted
             present == {p \in DOMAIN wanted : tree[p] # Absent}
<1>2. DOMAIN wanted \subseteq Paths /\ head' = head /\ tree' = tree /\ BranchMoves
  BY <1>1, RequestAssumption DEF ReadReference, NoCommit, BranchMoves
<1>3. CASE Answer(c, "ok") /\ \A p \in DOMAIN wanted : tree[p] = Absent
  <2>1. Sound'
    BY <1>2, <1>3, AnswerSound DEF Phases, Answers
  <2>2. /\ Store!Matches(run[c].request, tree)
        /\ run[c].request.op \notin Store!Reads
    BY <1>1, <1>3 DEF Store!Matches, Store!Reads
  <2>3. tree' = Store!Outcome(run[c].request, tree)
    <3>1. Store!Outcome(run[c].request, tree)
             = [p \in Paths |-> IF p \in DOMAIN wanted THEN Absent ELSE tree[p]]
      BY <1>1 DEF Store!Outcome, Store!Reads
    <3>2. \A p \in Paths : (IF p \in DOMAIN wanted THEN Absent ELSE tree[p]) = tree[p]
      BY <1>3
    <3>3. tree = [p \in Paths |-> tree[p]]
      BY DEF Sound
    <3>. QED  BY <1>2, <3>1, <3>2, <3>3
  <2>. QED  BY <1>1, <1>3, <2>1, <2>2, <2>3, EffectSimulated DEF Simulated
<1>4. CASE Answer(c, "conflict")
  <2>1. Sound'
    BY <1>2, <1>4, AnswerSound DEF Phases, Answers
  <2>. QED  BY <1>1, <1>2, <1>4, <2>1, RefusalSimulated DEF Simulated
<1>5. CASE /\ \A p \in present : wanted[p] = {tree[p]}
           /\ Goes(c, Saw(run[c], "patch", [head |-> head, tree |-> tree, attributes |-> attributes]))
  <2>. DEFINE r == Saw(run[c], "patch", [head |-> head, tree |-> tree, attributes |-> attributes])
  <2>1. run' = [run EXCEPT ![c] = r]
    BY <1>5 DEF Goes
  <2>2. /\ IsRun(r) /\ r.phase = "patch" /\ r.seen.head = head /\ r.seen.tree = tree
        /\ r.request = run[c].request /\ r.result = run[c].result
    BY DEF IsRun, Handler, Saw
  <2>. HIDE DEF r
  <2>3. head \in Nat
    BY DEF Sound
  <2>4. PhaseSound(r) /\ DeleteSound(r)
    BY <1>1, <2>2 DEF PhaseSound, DeleteSound, Phases, Answers, OperationsOf
  <2>5. ReferenceSound(r, head', tree')
    <3>1. \A p \in DOMAIN wanted : tree[p] = Absent \/ wanted[p] = {tree[p]}
      BY <1>5
    <3>2. \A p \in DOMAIN r.request.wanted :
             r.seen.tree[p] = Absent \/ r.request.wanted[p] = {r.seen.tree[p]}
      BY <2>2, <3>1
    <3>3. r.seen.head \in Nat /\ r.seen.head <= head' /\ r.seen.tree = tree'
      BY <1>2, <2>2, <2>3
    <3>. QED  BY <3>2, <3>3 DEF ReferenceSound
  <2>6. Sound'
    BY <1>2, <2>1, <2>2, <2>4, <2>5, OneHandlerSteps, Zenon
  <2>7. StatusOf(r) = StatusOf(run[c])
    BY <1>1, <2>2 DEF StatusOf, Answers
  <2>. QED  BY <1>2, <2>1, <2>2, <2>6, <2>7, HandlerGoesOn, Zenon DEF Simulated
<1>6. head = 0 => \A p \in DOMAIN wanted : tree[p] = Absent
  BY <1>2 DEF Sound
<1>. QED  BY <1>3, <1>4, <1>5, <1>6 DEF ReadReference

\* deleteEntries replaces the commit it validated.
LEMMA PatchStep ==
  ASSUME Sound, NEW c \in Clients, PatchReference(c)
  PROVE  Sound' /\ Simulated(c)
<1>1. /\ IsRun(run[c]) /\ run[c].request \in Requests /\ run[c].request.op = "entries"
      /\ StatusOf(run[c]) = "pending" /\ run[c].phase \notin Answers
  BY DEF Sound, PhaseSound, OperationsOf, Answers, StatusOf, PatchReference
<1>. DEFINE wanted == run[c].request.wanted
             t == [p \in Paths |-> IF p \in DOMAIN wanted THEN Absent ELSE run[c].seen.tree[p]]
<1>2. /\ DOMAIN wanted \subseteq Paths
      /\ head = run[c].seen.head => run[c].seen.tree = tree
      /\ \A p \in DOMAIN wanted :
            run[c].seen.tree[p] = Absent \/ wanted[p] = {run[c].seen.tree[p]}
  <2>1. run[c].phase = "patch" /\ ReferenceSound(run[c], head, tree)
    BY DEF Sound, PatchReference
  <2>. QED  BY <1>1, <2>1, RequestAssumption DEF ReferenceSound
<1>3. CASE head = run[c].seen.head /\ head' = head + 1 /\ tree' = t /\ Carried(c, "ok")
  <2>1. BranchMoves
    BY <1>3 DEF BranchMoves
  <2>2. Store!Matches(run[c].request, tree) /\ run[c].request.op \notin Store!Reads
    BY <1>1, <1>2, <1>3 DEF Store!Matches, Store!Reads
  <2>3. tree' = Store!Outcome(run[c].request, tree)
    BY <1>1, <1>2, <1>3 DEF Store!Outcome, Store!Reads
  <2>4. PICK a \in {"ok", "error"} : Answer(c, a)
    BY <1>3 DEF Carried
  <2>5. Sound'
    BY <2>1, <2>4, AnswerSound DEF Phases, Answers
  <2>. QED  BY <1>1, <2>2, <2>3, <2>4, <2>5, EffectSimulated DEF Simulated
<1>4. CASE NoCommit /\ Answer(c, "conflict")
  <2>1. BranchMoves /\ tree' = tree
    BY <1>4 DEF BranchMoves, NoCommit
  <2>2. Sound'
    BY <1>4, <2>1, AnswerSound DEF Phases, Answers
  <2>. QED  BY <1>1, <1>4, <2>1, <2>2, RefusalSimulated DEF Simulated
<1>. QED  BY <1>3, <1>4 DEF PatchReference, Commit

\* A handler of an upload goes on or ends, and no path changes.
LEMMA UploadGoesOn ==
  ASSUME Sound, NEW c \in Clients, run[c].phase \in {"existing", "transfer", "pointer", "concurrent"},
         NEW s \in {"transfer", "attributes", "concurrent", "error", "conflict"}, Answer(c, s), NoCommit
  PROVE  Sound' /\ Simulated(c)
<1>1. /\ run[c].request \in Requests /\ run[c].request.op = "upload"
      /\ StatusOf(run[c]) = "pending" /\ run[c].phase \notin Answers
  BY DEF Sound, PhaseSound, OperationsOf, Answers, StatusOf
<1>2. BranchMoves /\ tree' = tree
  BY DEF BranchMoves, NoCommit
<1>3. Sound'
  BY <1>1, <1>2, AnswerSound DEF Phases, Answers, OperationsOf
<1>4. CASE s \in {"error", "conflict"}
  BY <1>1, <1>2, <1>3, <1>4, RefusalSimulated DEF Simulated
<1>5. CASE s \in {"transfer", "attributes", "concurrent"}
  <2>. DEFINE r == Moved(run[c], s)
  <2>1. /\ run' = [run EXCEPT ![c] = r] /\ r.request = run[c].request
        /\ r.result = run[c].result /\ r.phase = s
    BY AnswerSimulated
  <2>. HIDE DEF r
  <2>2. StatusOf(r) = StatusOf(run[c])
    BY <1>1, <1>5, <2>1 DEF StatusOf, Answers
  <2>. QED  BY <1>2, <1>3, <2>1, <2>2, HandlerGoesOn, Zenon DEF Simulated
<1>. QED  BY <1>4, <1>5

\* The object is there already: the upload takes effect and changes nothing.
LEMMA UploadFinds ==
  ASSUME Sound, NEW c \in Clients, run[c].phase \in {"existing", "concurrent"},
         tree[run[c].request.path] = run[c].request.content, Answer(c, "ok"), NoCommit
  PROVE  Sound' /\ Simulated(c)
<1>1. /\ run[c].request \in Requests /\ run[c].request.op = "upload"
      /\ StatusOf(run[c]) = "pending" /\ run[c].phase \notin Answers
  BY DEF Sound, PhaseSound, OperationsOf, Answers, StatusOf
<1>2. BranchMoves /\ tree' = tree /\ run[c].request.path \in Paths
  BY <1>1, RequestAssumption DEF BranchMoves, NoCommit
<1>3. Sound'
  BY <1>1, <1>2, AnswerSound DEF Phases, Answers
<1>4. Store!Matches(run[c].request, tree) /\ run[c].request.op \notin Store!Reads
  BY <1>1 DEF Store!Matches, Store!Reads
<1>5. tree' = Store!Outcome(run[c].request, tree)
  <2>1. Store!Outcome(run[c].request, tree)
           = [tree EXCEPT ![run[c].request.path] = run[c].request.content]
    BY <1>1 DEF Store!Outcome, Store!Reads
  <2>. QED  BY <1>2, <2>1 DEF Sound
<1>. QED  BY <1>1, <1>3, <1>4, <1>5, EffectSimulated DEF Simulated

LEMMA ExistingStep ==
  ASSUME Sound, NEW c \in Clients, ReadExisting(c) \/ ReadConcurrent(c)
  PROVE  Sound' /\ Simulated(c)
<1>1. run[c].phase \in {"existing", "concurrent"} /\ NoCommit
  BY DEF ReadExisting, ReadConcurrent
<1>2. \/ tree[run[c].request.path] = run[c].request.content /\ Answer(c, "ok")
      \/ \E s \in {"transfer", "attributes", "concurrent", "error", "conflict"} : Answer(c, s)
  BY DEF ReadExisting, ReadConcurrent
<1>. QED  BY <1>1, <1>2, UploadFinds, UploadGoesOn

LEMMA TransferStep ==
  ASSUME Sound, NEW c \in Clients, Transfer(c)
  PROVE  Sound' /\ Simulated(c)
<1>1. run[c].phase = "transfer" /\ NoCommit /\ (Answer(c, "attributes") \/ Answer(c, "error"))
  BY DEF Transfer, Carried
<1>. QED  BY <1>1, UploadGoesOn

LEMMA PointerStep ==
  ASSUME Sound, NEW c \in Clients, PutPointer(c)
  PROVE  Sound' /\ Simulated(c)
<1>1. /\ IsRun(run[c]) /\ run[c].request \in Requests /\ run[c].request.op = "upload"
      /\ StatusOf(run[c]) = "pending" /\ run[c].phase \notin Answers
  BY SMTT(40) DEF Sound, PhaseSound, OperationsOf, Answers, StatusOf, PutPointer
<1>2. run[c].phase = "pointer" /\ run[c].request.path \in Paths
  BY <1>1, RequestAssumption DEF PutPointer
<1>3. CASE ContentsPut(run[c].request.path, Absent, run[c].request.content) /\ Carried(c, "ok")
  <2>1. BranchMoves /\ tree' = [tree EXCEPT ![run[c].request.path] = run[c].request.content]
    BY <1>2, <1>3 DEF ContentsPut, BranchMoves, Commit, Sound
  <2>2. /\ Store!Matches(run[c].request, tree)
        /\ tree' = Store!Outcome(run[c].request, tree)
        /\ run[c].request.op \notin Store!Reads
    BY <1>1, <1>3, <2>1 DEF ContentsPut, Store!Matches, Store!Outcome, Store!Reads
  <2>3. PICK a \in {"ok", "error"} : Answer(c, a)
    BY <1>3 DEF Carried
  <2>4. Sound'
    BY <2>1, <2>3, AnswerSound DEF Phases, Answers
  <2>. QED  BY <1>1, <2>2, <2>3, <2>4, EffectSimulated DEF Simulated
<1>4. CASE NoCommit /\ Answer(c, "concurrent")
  BY <1>2, <1>4, UploadGoesOn
<1>. QED  BY <1>3, <1>4 DEF PutPointer

\* A failed request: the call is refused, or reports what took effect before.
LEMMA FailStep ==
  ASSUME Sound, NEW c \in Clients, Fail(c)
  PROVE  Sound' /\ Simulated(c)
<1>1. run[c].phase \notin Answers /\ Answer(c, "error") /\ head' = head /\ tree' = tree
  BY DEF Fail, NoCommit
<1>2. CASE StatusOf(run[c]) = "applied"
  BY <1>1, <1>2, ReportSimulated DEF Answers
<1>3. CASE StatusOf(run[c]) = "pending"
  <2>1. Sound'
    BY <1>1, AnswerSound DEF BranchMoves, Phases, Answers
  <2>. QED  BY <1>1, <1>3, <2>1, RefusalSimulated DEF Simulated
<1>. QED  BY <1>1, <1>2, <1>3 DEF StatusOf

\* A commit of another Git client and a stuttering step.
LEMMA PushStep ==
  ASSUME Sound, Push \/ UNCHANGED vars
  PROVE  Sound' /\ UNCHANGED Store!storeVars
<1>1. /\ run' = run /\ tree' = tree /\ head' \in {head, head + 1}
  BY Zenon DEF Push, Commit, vars
<1>2. ASSUME NEW c \in Clients, ReferenceSound(run[c], head, tree)
      PROVE  ReferenceSound(run[c], head', tree)
  <2>1. head \in Nat
    BY DEF Sound
  <2>2. \A n \in Nat : n <= head => n <= head' /\ (n = head' => n = head)
    BY <1>1, <2>1
  <2>. QED  BY <1>2, <2>2 DEF ReferenceSound
<1>3. Sound'
  BY <1>1, <1>2 DEF Sound
<1>. QED  BY <1>1, <1>3, SMTT(30) DEF Store!storeVars, StatusOf

\* Every step of the adapter keeps Sound and is a step of the store or none.
LEMMA NextSimulated == Sound /\ [Next]_vars => Sound' /\ [Store!StoreNext]_(Store!storeVars)
<1>. SUFFICES ASSUME Sound, [Next]_vars
              PROVE  Sound' /\ [Store!StoreNext]_(Store!storeVars)
  OBVIOUS
<1>1. CASE Push \/ UNCHANGED vars
  BY <1>1, PushStep
<1>2. ASSUME NEW c \in Clients,
             \/ Begin(c) \/ Get(c) \/ Download(c) \/ ListTree(c) \/ ReadBlobs(c)
             \/ writeDocument(c) \/ ReadCurrent(c) \/ deleteFile(c)
             \/ ReadAttributes(c) \/ WriteAttributes(c)
             \/ ReadReference(c) \/ PatchReference(c)
             \/ ReadExisting(c) \/ Transfer(c) \/ PutPointer(c) \/ ReadConcurrent(c)
             \/ Fail(c)
      PROVE  Sound' /\ [Store!StoreNext]_(Store!storeVars)
  <2>1. Sound' /\ Simulated(c)
    BY <1>2, BeginStep, GetStep, BytesStep, ListStep, WriteStep, CurrentStep, DeleteStep,
       ReadAttributesStep, WriteAttributesStep, ReferenceStep, PatchStep, ExistingStep,
       TransferStep, PointerStep, FailStep
  <2>. QED  BY <2>1 DEF Simulated, Store!StoreNext
<1>. QED  BY <1>1, <1>2 DEF Next

\* Every call of the GitHub adapter takes effect at one instant, on the revision
\* it named, or not at all: whatever the handlers, other Git clients and failing
\* requests do between its requests to GitHub, for every number of clients,
\* paths, blobs and calls.
THEOREM GitHubImplementsStore == Spec => Implements
<1>1. Init => Store!StoreInit
  BY DEF Init, Store!StoreInit, Store!Nothing, StatusOf, Answers, Handler, NoPaths
<1>. QED  BY <1>1, SoundInit, NextSimulated, PTL DEF Spec, Implements, Store!StoreSpec

--------------------------------------------------------------------------------
(* Git LFS and .gitattributes.                                               *)

AttributesType == [file : BOOLEAN, rules : BOOLEAN, legacy : BOOLEAN, lines : SUBSET Lines]

\* What a handler knows of the objects and of .gitattributes: an upload that
\* reached .gitattributes has stored its object, one that writes its pointer has
\* seen the rules, and the commit deleteEntries read holds the attributes of the
\* branch as long as the branch has not moved.
HandlerLfs(r, h, a, l) ==
    /\ r.phase \in {"attributes", "configure", "pointer"} /\ r.request.op = "upload" =>
          r.request.content \in l
    /\ r.phase = "pointer" => a.rules
    /\ r.phase = "patch" /\ r.seen.head = h => r.seen.attributes = a

\* The inductive invariant for LfsIsSound.
LfsInv ==
    /\ Sound
    /\ attributes \in AttributesType
    /\ LfsIsSound
    /\ \A c \in Clients : HandlerLfs(run[c], head, attributes, lfs)

\* A step on the branch: objects, rules and lines stay, and a pointer that
\* appears has both.
BranchGrows ==
    /\ lfs \subseteq lfs'
    /\ attributes' \in AttributesType
    /\ attributes.rules => attributes'.rules
    /\ pushed' \subseteq attributes'.lines
    /\ \/ head' = head /\ attributes' = attributes
       \/ head' = head + 1
    /\ \A p \in Paths : tree'[p] \in Pointers =>
          \/ tree'[p] = tree[p]
          \/ tree'[p] \in lfs' /\ attributes'.rules

\* A request that neither commits nor uploads.
LEMMA NothingGrows ==
  ASSUME LfsInv, NoCommit, UNCHANGED lfs, UNCHANGED pushed
  PROVE  BranchGrows
  BY DEF LfsInv, LfsIsSound, LinesOfOthersKept, NoCommit, BranchGrows

\* What the other handlers know stays true.
LEMMA KnowledgeStays ==
  ASSUME LfsInv, BranchGrows, NEW c \in Clients
  PROVE  HandlerLfs(run[c], head', attributes', lfs')
<1>1. ASSUME run[c].phase = "patch", run[c].seen.head = head'
      PROVE  run[c].seen.attributes = attributes'
  <2>1. head \in Nat /\ run[c].seen.head \in Nat /\ run[c].seen.head <= head
    BY <1>1 DEF LfsInv, Sound, ReferenceSound
  <2>2. head' = head /\ attributes' = attributes
    BY <1>1, <2>1 DEF BranchGrows
  <2>. QED  BY <1>1, <2>2 DEF LfsInv, HandlerLfs
<1>2. HandlerLfs(run[c], head, attributes, lfs)
  BY DEF LfsInv
<1>. QED  BY <1>1, <1>2 DEF HandlerLfs, BranchGrows

\* What is on the branch stays usable.
LEMMA BranchStaysSound ==
  ASSUME LfsInv, BranchGrows
  PROVE  LfsIsSound'
<1>1. PointersHaveObjects'
  BY DEF LfsInv, LfsIsSound, PointersHaveObjects, BranchGrows
<1>2. PointersAreConfigured'
  BY DEF LfsInv, LfsIsSound, PointersAreConfigured, BranchGrows
<1>3. LinesOfOthersKept'
  BY DEF LinesOfOthersKept, BranchGrows
<1>. QED  BY <1>1, <1>2, <1>3 DEF LfsIsSound

\* A step of one handler keeps the invariant when its own record knows enough.
LEMMA OneHandlerKeepsLfs ==
  ASSUME LfsInv, Sound', BranchGrows, NEW c \in Clients, NEW r,
         run' = [run EXCEPT ![c] = r], HandlerLfs(r, head', attributes', lfs')
  PROVE  LfsInv'
<1>1. ASSUME NEW d \in Clients PROVE HandlerLfs(run'[d], head', attributes', lfs')
  <2>1. CASE d = c
    BY <2>1 DEF LfsInv, Sound
  <2>2. CASE d # c
    <3>1. run'[d] = run[d]
      BY <2>2 DEF LfsInv, Sound
    <3>. QED  BY <3>1, KnowledgeStays
  <2>. QED  BY <2>1, <2>2
<1>. QED  BY <1>1, BranchStaysSound DEF LfsInv, BranchGrows

\* The same for a handler that goes on to a phase with what it has.
LEMMA AnswerKeepsLfs ==
  ASSUME LfsInv, Sound', BranchGrows, NEW c \in Clients, NEW s, Answer(c, s), s # "patch",
         s \in {"attributes", "configure", "pointer"} /\ run[c].request.op = "upload" =>
             run[c].request.content \in lfs',
         s = "pointer" => attributes'.rules
  PROVE  LfsInv'
<1>. DEFINE r == Moved(run[c], s)
<1>1. run' = [run EXCEPT ![c] = r]
  BY DEF Answer, Goes
<1>2. r.phase = s /\ r.request = run[c].request
  BY MovedFields DEF LfsInv, Sound
<1>. HIDE DEF r
<1>3. HandlerLfs(r, head', attributes', lfs')
  BY <1>2 DEF HandlerLfs
<1>. QED  BY <1>1, <1>3, OneHandlerKeepsLfs, Zenon

\* The same for a handler that goes on with what it read.
LEMMA HandlerKeepsLfs ==
  ASSUME LfsInv, Sound', BranchGrows, NEW c \in Clients, NEW s, NEW q, NEW seen, NEW n, NEW result,
         run' = [run EXCEPT ![c] = Handler(s, q, seen, n, result)],
         s \in {"attributes", "configure", "pointer"} /\ q.op = "upload" => q.content \in lfs',
         s = "pointer" => attributes'.rules,
         s = "patch" /\ seen.head = head' => seen.attributes = attributes'
  PROVE  LfsInv'
<1>. DEFINE r == Handler(s, q, seen, n, result)
<1>1. r.phase = s /\ r.request = q /\ r.seen = seen
  BY DEF Handler
<1>2. run' = [run EXCEPT ![c] = r]
  OBVIOUS
<1>. HIDE DEF r
<1>3. HandlerLfs(r, head', attributes', lfs')
  BY <1>1 DEF HandlerLfs
<1>. QED  BY <1>2, <1>3, OneHandlerKeepsLfs, Zenon

\* Requests that only read the branch or Git LFS.
LEMMA ReadsKeepLfs ==
  ASSUME LfsInv, Sound', NEW c \in Clients,
         \/ Begin(c) \/ Get(c) \/ Download(c) \/ ListTree(c) \/ ReadBlobs(c) \/ ReadCurrent(c)
         \/ ReadExisting(c) \/ ReadConcurrent(c) \/ Fail(c)
  PROVE  LfsInv'
<1>1. BranchGrows
  <2>1. NoCommit /\ UNCHANGED lfs /\ UNCHANGED pushed
    BY Zenon
    DEF Begin, Get, Download, ListTree, ReadBlobs, ReadCurrent, ReadExisting, ReadConcurrent,
           Fail, Answer, Goes
  <2>. QED  BY <2>1, NothingGrows, SMTT(30)
<1>2. CASE Begin(c)
  <2>1. PICK r \in Requests :
           run' = [run EXCEPT ![c] = Handler(FirstPhase(r.op), r, Absent, 0, NoPaths)]
    BY <1>2, Zenon DEF Begin
  <2>2. FirstPhase(r.op) \notin {"attributes", "configure", "pointer", "patch"}
    BY RequestAssumption DEF Operations, FirstPhase
  <2>. QED  BY <1>1, <2>1, <2>2, HandlerKeepsLfs, Zenon
<1>3. CASE Get(c)
  <2>1. PICK s \in {"ok", "bytes", "error"} :
           run' = [run EXCEPT ![c] = Handler(s, run[c].request, tree[run[c].request.path], 0, tree)]
    BY <1>3, Zenon DEF Get, Goes
  <2>. QED  BY <1>1, <2>1, HandlerKeepsLfs, Zenon
<1>4. CASE ListTree(c)
  <2>. DEFINE r == Handler("blobs", run[c].request, Absent, 0, tree)
  <2>1. run' = [run EXCEPT ![c] = r] /\ r.phase = "blobs"
    BY SMTT(40), <1>4 DEF ListTree, Goes, Handler
  <2>. HIDE DEF r
  <2>2. HandlerLfs(r, head', attributes', lfs')
    BY <2>1 DEF HandlerLfs
  <2>. QED  BY <1>1, <2>1, <2>2, OneHandlerKeepsLfs, Zenon
<1>5. CASE ReadCurrent(c)
  <2>1. \/ Answer(c, "ok")
        \/ Answer(c, "conflict")
        \/ Goes(c, Saw(run[c], "delete", tree[run[c].request.path]))
    BY <1>5 DEF ReadCurrent
  <2>2. CASE Answer(c, "ok") \/ Answer(c, "conflict")
    BY <1>1, <2>2, AnswerKeepsLfs
  <2>3. CASE Goes(c, Saw(run[c], "delete", tree[run[c].request.path]))
    <3>. DEFINE r == Saw(run[c], "delete", tree[run[c].request.path])
    <3>1. run' = [run EXCEPT ![c] = r] /\ r.phase = "delete"
      BY SMTT(40), <2>3 DEF Goes, Saw, Handler
    <3>. HIDE DEF r
    <3>2. HandlerLfs(r, head', attributes', lfs')
      BY <3>1 DEF HandlerLfs
    <3>. QED  BY ZenonT(40), <1>1, <3>1, <3>2, OneHandlerKeepsLfs
  <2>. QED  BY ZenonT(40), <2>1, <2>2, <2>3
<1>6. CASE Download(c) \/ ReadBlobs(c) \/ ReadExisting(c) \/ ReadConcurrent(c) \/ Fail(c)
  <2>1. PICK s \in {"ok", "error", "conflict", "transfer"} : Answer(c, s)
    BY ZenonT(40), <1>6 DEF Download, ReadBlobs, ReadExisting, ReadConcurrent, Fail
  <2>. QED  BY SMTT(40), <1>1, <2>1, AnswerKeepsLfs
<1>. QED  BY <1>2, <1>3, <1>4, <1>5, <1>6

\* A commit of one path that leaves .gitattributes alone.
LEMMA PathCommitGrows ==
  ASSUME LfsInv, UNCHANGED <<lfs, pushed>>, NEW p \in Paths, NEW b,
         Commit([tree EXCEPT ![p] = b], attributes),
         b \in Pointers => b \in lfs /\ attributes.rules
  PROVE  BranchGrows
<1>1. \A q \in Paths : tree'[q] = tree[q] \/ tree'[q] = b
  BY DEF LfsInv, Sound, Commit
<1>. QED  BY <1>1 DEF LfsInv, LfsIsSound, LinesOfOthersKept, Commit, BranchGrows

\* writeDocument writes no pointer.
LEMMA WriteKeepsLfs ==
  ASSUME LfsInv, Sound', NEW c \in Clients, writeDocument(c)
  PROVE  LfsInv'
<1>. DEFINE r == run[c].request
<1>1. r.path \in Paths /\ r.content \notin Pointers
  <2>1. r \in Requests /\ r.op = "write"
    BY Zenon DEF LfsInv, Sound, PhaseSound, OperationsOf, writeDocument, Answers
  <2>. QED  BY <2>1, RequestAssumption, BlobAssumption
<1>2. PICK s \in {"ok", "error", "conflict"} : Answer(c, s)
  BY DEF writeDocument, Carried
<1>3. BranchGrows
  <2>1. UNCHANGED <<lfs, pushed>>
    BY <1>2 DEF writeDocument, Answer, Goes
  <2>2. CASE NoCommit
    BY SMTT(40), <2>1, <2>2, NothingGrows
  <2>3. CASE ContentsPut(r.path, r.expected, r.content)
    BY SMTT(40), <1>1, <2>1, <2>3, PathCommitGrows DEF ContentsPut
  <2>. QED  BY SMTT(40), <2>2, <2>3 DEF writeDocument
<1>. QED  BY <1>2, <1>3, AnswerKeepsLfs

\* deleteFile commits the absence of a file.
LEMMA DeleteKeepsLfs ==
  ASSUME LfsInv, Sound', NEW c \in Clients, deleteFile(c)
  PROVE  LfsInv'
<1>. DEFINE r == run[c].request
<1>1. r.path \in Paths
  <2>1. r \in Requests /\ r.op \in {"delete", "entry"}
    BY ZenonT(30) DEF LfsInv, Sound, PhaseSound, OperationsOf, deleteFile, Answers
  <2>. QED  BY <2>1, RequestAssumption, SMTT(30)
<1>2. PICK s \in {"ok", "error", "conflict", "attributes"} :
         Answer(c, s) /\ (s = "attributes" => r.op = "entry")
  BY SMTT(40) DEF deleteFile, Carried
<1>3. BranchGrows
  <2>1. UNCHANGED <<lfs, pushed>>
    BY <1>2 DEF deleteFile, Answer, Goes
  <2>2. CASE NoCommit
    BY <2>1, <2>2, NothingGrows
  <2>3. CASE Commit([tree EXCEPT ![r.path] = Absent], attributes)
    BY SMTT(40), <1>1, <2>1, <2>3, PathCommitGrows, BlobAssumption
  <2>. QED  BY SMTT(40), <2>2, <2>3 DEF deleteFile
<1>. QED  BY <1>2, <1>3, AnswerKeepsLfs

\* Git LFS has the object before uploadObject goes on.
LEMMA TransferKeepsLfs ==
  ASSUME LfsInv, Sound', NEW c \in Clients, Transfer(c)
  PROVE  LfsInv'
<1>1. PICK s \in {"error", "attributes"} : Answer(c, s)
  BY DEF Transfer, Carried
<1>2. run[c].request.content \in lfs' /\ lfs \subseteq lfs' /\ NoCommit /\ UNCHANGED pushed
  BY SMTT(40), <1>1 DEF Transfer, uploadLfsContent, Answer, Goes
<1>3. BranchGrows
  BY SMTT(40), <1>2 DEF LfsInv, LfsIsSound, LinesOfOthersKept, NoCommit, BranchGrows
<1>. QED  BY <1>1, <1>2, <1>3, AnswerKeepsLfs

\* The pointer of an object that is stored, on a branch that has the rules.
LEMMA PointerKeepsLfs ==
  ASSUME LfsInv, Sound', NEW c \in Clients, PutPointer(c)
  PROVE  LfsInv'
<1>. DEFINE r == run[c].request
<1>1. r.path \in Paths /\ r.content \in lfs /\ attributes.rules
  <2>1. r \in Requests /\ r.op = "upload"
    BY Zenon DEF LfsInv, Sound, PhaseSound, OperationsOf, PutPointer, Answers
  <2>2. HandlerLfs(run[c], head, attributes, lfs)
    BY DEF LfsInv
  <2>. QED  BY <2>1, <2>2, RequestAssumption DEF HandlerLfs, PutPointer
<1>2. PICK s \in {"ok", "error", "concurrent"} : Answer(c, s)
  BY SMTT(40) DEF PutPointer, Carried
<1>3. BranchGrows
  <2>1. UNCHANGED <<lfs, pushed>>
    BY <1>2 DEF PutPointer, Answer, Goes
  <2>2. CASE NoCommit
    BY <2>1, <2>2, NothingGrows
  <2>3. CASE ContentsPut(r.path, Absent, r.content)
    BY ZenonT(40), <1>1, <2>1, <2>3, PathCommitGrows DEF ContentsPut
  <2>. QED  BY SMTT(40), <2>2, <2>3 DEF PutPointer
<1>. QED  BY SMTT(40), <1>2, <1>3, AnswerKeepsLfs

\* What reconciledGitAttributes returns.
LEMMA ReconciledFields ==
  ASSUME NEW a \in AttributesType
  PROVE  /\ reconciledGitAttributes(a) \in AttributesType
         /\ reconciledGitAttributes(a).rules
         /\ reconciledGitAttributes(a).lines = a.lines
  BY SMTT(40) DEF AttributesType, reconciledGitAttributes

\* A commit that takes no line and no rule out of .gitattributes and adds no file.
LEMMA AttributesCommitGrows ==
  ASSUME LfsInv, UNCHANGED <<lfs, pushed>>, NEW t, NEW a \in AttributesType, Commit(t, a),
         attributes.rules => a.rules, a.lines = attributes.lines,
         \A p \in Paths : t[p] \in Pointers => t[p] = tree[p]
  PROVE  BranchGrows
  BY SMTT(40) DEF LfsInv, LfsIsSound, LinesOfOthersKept, Commit, BranchGrows

\* ensureGitAttributes reads: the object of an upload is stored already.
LEMMA ReadAttributesKeepsLfs ==
  ASSUME LfsInv, Sound', NEW c \in Clients, ReadAttributes(c)
  PROVE  LfsInv'
<1>1. BranchGrows
  <2>1. NoCommit /\ UNCHANGED lfs /\ UNCHANGED pushed
    BY SMTT(40) DEF ReadAttributes, Answer, Goes
  <2>. QED  BY <2>1, NothingGrows
<1>2. run[c].request.op = "upload" => run[c].request.content \in lfs'
  <2>1. HandlerLfs(run[c], head, attributes, lfs)
    BY DEF LfsInv
  <2>. QED  BY <2>1 DEF HandlerLfs, ReadAttributes
<1>3. CASE Goes(c, Saw(run[c], "configure", attributes))
  <2>. DEFINE r == Saw(run[c], "configure", attributes)
  <2>1. run' = [run EXCEPT ![c] = r] /\ r.phase = "configure" /\ r.request = run[c].request
    BY SMTT(40), <1>3 DEF Goes, Saw, Handler
  <2>. HIDE DEF r
  <2>2. HandlerLfs(r, head', attributes', lfs')
    BY <1>2, <2>1 DEF HandlerLfs
  <2>. QED  BY ZenonT(40), <1>1, <2>1, <2>2, OneHandlerKeepsLfs
<1>4. CASE ~NeedsReconciling(attributes) /\ Answer(c, AfterAttributes(run[c].request.op))
  <2>1. attributes'.rules
    BY <1>4 DEF NeedsReconciling, ReadAttributes, NoCommit
  <2>2. PICK s \in {"ok", "pointer"} : Answer(c, s)
    BY SMTT(40), <1>4 DEF AfterAttributes
  <2>. QED  BY SMTT(40), <1>1, <1>2, <2>1, <2>2, AnswerKeepsLfs
<1>. QED  BY <1>3, <1>4 DEF ReadAttributes

\* ensureGitAttributes writes: on the revision it read, the lines of others stay.
LEMMA WriteAttributesKeepsLfs ==
  ASSUME LfsInv, Sound', NEW c \in Clients, WriteAttributes(c)
  PROVE  LfsInv'
<1>1. run[c].request.op = "upload" => run[c].request.content \in lfs'
  <2>1. HandlerLfs(run[c], head, attributes, lfs)
    BY DEF LfsInv
  <2>. QED  BY ZenonT(40), <2>1 DEF HandlerLfs, WriteAttributes
<1>2. CASE /\ attributes = run[c].seen
           /\ Commit(tree, reconciledGitAttributes(run[c].seen))
           /\ Carried(c, AfterAttributes(run[c].request.op))
  <2>1. PICK s \in {"ok", "pointer", "error"} : Answer(c, s)
    BY SMTT(40), <1>2 DEF Carried, AfterAttributes
  <2>2. UNCHANGED <<lfs, pushed>>
    BY <2>1 DEF WriteAttributes, Answer, Goes
  <2>3. attributes \in AttributesType
    BY DEF LfsInv
  <2>4. BranchGrows /\ attributes'.rules
    BY SMTT(40), <1>2, <2>2, <2>3, ReconciledFields, AttributesCommitGrows DEF Commit
  <2>. QED  BY SMTT(40), <1>1, <2>1, <2>4, AnswerKeepsLfs
<1>3. CASE /\ NoCommit
           /\ \/ Goes(c, Handler("attributes", run[c].request, Absent, run[c].attempt + 1, run[c].result))
              \/ Answer(c, "conflict")
  <2>1. UNCHANGED lfs /\ UNCHANGED pushed
    BY SMTT(40), <1>3 DEF WriteAttributes, Answer, Goes
  <2>2. BranchGrows
    BY <1>3, <2>1, NothingGrows
  <2>3. CASE Answer(c, "conflict")
    BY <2>2, <2>3, AnswerKeepsLfs
  <2>4. CASE Goes(c, Handler("attributes", run[c].request, Absent, run[c].attempt + 1, run[c].result))
    <3>. DEFINE r == Handler("attributes", run[c].request, Absent, run[c].attempt + 1, run[c].result)
    <3>1. run' = [run EXCEPT ![c] = r] /\ r.phase = "attributes" /\ r.request = run[c].request
      BY <2>4 DEF Goes, Handler
    <3>. HIDE DEF r
    <3>2. HandlerLfs(r, head', attributes', lfs')
      BY SMTT(40), <1>1, <3>1 DEF HandlerLfs
    <3>. QED  BY ZenonT(40), <2>2, <3>1, <3>2, OneHandlerKeepsLfs
  <2>. QED  BY SMTT(40), <1>3, <2>3, <2>4
<1>. QED  BY ZenonT(40), <1>2, <1>3 DEF WriteAttributes

\* deleteEntries reads a commit: its attributes are those of the branch.
LEMMA ReferenceKeepsLfs ==
  ASSUME LfsInv, Sound', NEW c \in Clients, ReadReference(c)
  PROVE  LfsInv'
<1>. DEFINE seen == [head |-> head, tree |-> tree, attributes |-> attributes]
<1>1. NoCommit /\ UNCHANGED lfs /\ UNCHANGED pushed
  BY Zenon DEF ReadReference, Answer, Goes
<1>2. BranchGrows
  BY <1>1, NothingGrows
<1>3. Answer(c, "ok") \/ Answer(c, "conflict") \/ Goes(c, Saw(run[c], "patch", seen))
  BY DEF ReadReference
<1>4. CASE Answer(c, "ok") \/ Answer(c, "conflict")
  BY <1>2, <1>4, AnswerKeepsLfs
<1>5. CASE Goes(c, Saw(run[c], "patch", seen))
  <2>1. seen.attributes = attributes'
    BY SMTT(40), <1>1 DEF NoCommit
  <2>. DEFINE r == Saw(run[c], "patch", seen)
  <2>. HIDE DEF seen
  <2>2. run' = [run EXCEPT ![c] = r] /\ r.phase = "patch" /\ r.seen = seen
    BY <1>5 DEF Goes, Saw, Handler
  <2>. HIDE DEF r
  <2>3. HandlerLfs(r, head', attributes', lfs')
    BY SMTT(40), <2>1, <2>2 DEF HandlerLfs
  <2>. QED  BY <1>2, <2>2, <2>3, OneHandlerKeepsLfs, Zenon
<1>. QED  BY <1>3, <1>4, <1>5, SMTT(30)

\* deleteEntries replaces the tree and the attributes of the commit it read,
\* which are still those of the branch.
LEMMA PatchKeepsLfs ==
  ASSUME LfsInv, Sound', NEW c \in Clients, PatchReference(c)
  PROVE  LfsInv'
<1>. DEFINE seen == run[c].seen
            t == [p \in Paths |-> IF p \in DOMAIN run[c].request.wanted THEN Absent ELSE seen.tree[p]]
            a == IF NeedsReconciling(seen.attributes)
                 THEN reconciledGitAttributes(seen.attributes) ELSE seen.attributes
<1>1. PICK s \in {"ok", "error", "conflict"} : Answer(c, s)
  BY SMTT(40) DEF PatchReference, Carried
<1>2. UNCHANGED <<lfs, pushed>>
  BY SMTT(40), <1>1 DEF PatchReference, Answer, Goes
<1>3. CASE NoCommit
  BY SMTT(40), <1>1, <1>2, <1>3, NothingGrows, AnswerKeepsLfs
<1>4. CASE head = seen.head /\ Commit(t, a)
  <2>1. seen.attributes = attributes /\ seen.tree = tree
    <3>1. HandlerLfs(run[c], head, attributes, lfs) /\ ReferenceSound(run[c], head, tree)
      BY DEF LfsInv, Sound
    <3>. QED  BY ZenonT(40), <1>4, <3>1 DEF HandlerLfs, ReferenceSound, PatchReference
  <2>2. attributes \in AttributesType
    BY SMTT(40) DEF LfsInv
  <2>3. a \in AttributesType /\ (attributes.rules => a.rules) /\ a.lines = attributes.lines
    BY SMTT(40), <2>1, <2>2, ReconciledFields
  <2>4. \A p \in Paths : t[p] \in Pointers => t[p] = tree[p]
    BY SMTT(40), <2>1, BlobAssumption
  <2>. HIDE DEF t, a
  <2>5. BranchGrows
    BY <1>2, <1>4, <2>3, <2>4, AttributesCommitGrows
  <2>. QED  BY <1>1, <2>5, AnswerKeepsLfs
<1>. QED  BY ZenonT(40), <1>3, <1>4 DEF PatchReference

\* A push of another Git client adds a line.
LEMMA PushKeepsLfs ==
  ASSUME LfsInv, Sound', Push \/ UNCHANGED vars
  PROVE  LfsInv'
<1>1. CASE UNCHANGED vars
  BY SMTT(40), <1>1
  DEF LfsInv, LfsIsSound, PointersHaveObjects, PointersAreConfigured, LinesOfOthersKept, vars
<1>2. CASE Push
  <2>1. PICK line \in Lines :
           /\ Commit(tree, [attributes EXCEPT !.file = TRUE, !.lines = @ \cup {line}])
           /\ pushed' = pushed \cup {line}
    BY <1>2, Zenon DEF Push
  <2>2. /\ attributes' \in AttributesType
        /\ attributes'.rules = attributes.rules
        /\ attributes'.lines = attributes.lines \cup {line}
    BY <2>1, ZenonT(30) DEF LfsInv, AttributesType, Commit
  <2>3. BranchGrows
    BY <1>2, <2>1, <2>2, Zenon
    DEF LfsInv, LfsIsSound, LinesOfOthersKept, Push, Commit, BranchGrows
  <2>4. \A c \in Clients : HandlerLfs(run'[c], head', attributes', lfs')
    BY ZenonT(40), <1>2, <2>3, KnowledgeStays DEF Push
  <2>. QED  BY <2>2, <2>3, <2>4, BranchStaysSound, SMTT(30) DEF LfsInv
<1>. QED  BY SMTT(40), <1>1, <1>2

\* Every step keeps the invariant.
LEMMA NextKeepsLfs == LfsInv /\ [Next]_vars => LfsInv'
<1>. SUFFICES ASSUME LfsInv, [Next]_vars
              PROVE  LfsInv'
  OBVIOUS
<1>1. Sound'
  BY NextSimulated DEF LfsInv
<1>2. CASE Push \/ UNCHANGED vars
  BY SMTT(40), <1>1, <1>2, PushKeepsLfs
<1>3. ASSUME NEW c \in Clients,
             \/ Begin(c) \/ Get(c) \/ Download(c) \/ ListTree(c) \/ ReadBlobs(c)
             \/ writeDocument(c) \/ ReadCurrent(c) \/ deleteFile(c)
             \/ ReadAttributes(c) \/ WriteAttributes(c)
             \/ ReadReference(c) \/ PatchReference(c)
             \/ ReadExisting(c) \/ Transfer(c) \/ PutPointer(c) \/ ReadConcurrent(c)
             \/ Fail(c)
      PROVE  LfsInv'
  BY SMTT(40), <1>1, <1>3, ReadsKeepLfs, WriteKeepsLfs, DeleteKeepsLfs,
     ReadAttributesKeepsLfs,
     WriteAttributesKeepsLfs, ReferenceKeepsLfs, PatchKeepsLfs, TransferKeepsLfs, PointerKeepsLfs
<1>. QED  BY <1>2, <1>3 DEF Next

\* The branch can be used by every Git client, whatever handlers, pushes and
\* failing requests interleave: uploadObject publishes no pointer before its
\* object and its rules, and ensureGitAttributes and deleteEntries lose nobody
\* else's attributes, for every number of clients, paths, objects and lines.
THEOREM BranchIsUsable == Spec => []LfsIsSound
<1>1. Init => LfsInv
  <2>1. Init => Sound
    BY SoundInit
  <2>2. Init => attributes \in AttributesType
    <3>1. NoAttributes \in AttributesType
      BY DEF NoAttributes, AttributesType
    <3>2. [NoAttributes EXCEPT !.file = TRUE, !.legacy = TRUE] \in AttributesType
      BY <3>1, Zenon DEF AttributesType
    <3>. QED  BY SMTT(40), <3>1, <3>2 DEF Init
  <2>3. Init => LfsIsSound
    BY BlobAssumption
    DEF Init, NoPaths, LfsIsSound, PointersHaveObjects, PointersAreConfigured,
                          LinesOfOthersKept
  <2>4. Init => \A c \in Clients : HandlerLfs(run[c], head, attributes, lfs)
    BY DEF Init, HandlerLfs, Handler
  <2>. QED  BY <2>1, <2>2, <2>3, <2>4 DEF LfsInv
<1>2. LfsInv => LfsIsSound
  BY DEF LfsInv
<1>. QED  BY <1>1, <1>2, NextKeepsLfs, PTL DEF Spec

================================================================================
