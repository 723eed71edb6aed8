---------------------------- MODULE SyncSettings ----------------------------
(***************************************************************************)
(* Where the library is synchronized to, and who believes what about it:   *)
(* the gateway's sessions, the provider selection of the application, the  *)
(* repository the browser remembers, the settings page, the connection     *)
(* status of the toolbar, and a synchronization whose every call goes to   *)
(* the provider and destination of that moment.  Each await is a step: a   *)
(* request is sent, served by the gateway, and its reply received.         *)
(***************************************************************************)
EXTENDS Naturals, FiniteSets

CONSTANTS
    Hosts,          \* "browser" and "native"
    Accessible,     \* the writable destinations of each provider at first
    Operations,     \* the page's actions that are taken
    MaxActs,
    MaxEvents       \* synchronizations, faults, reloads and changes elsewhere

VARIABLES
    host,
    gateway,        \* per provider: signed in, and the destination of the session
    accessible,     \* per provider: the destinations that can be written
    memory,         \* the remembered GitHub repository
    selection,      \* the selected provider, in storage and in memory
    page,           \* the settings page
    conn,           \* SyncConnectionStatusService
    tasks,          \* the calls in progress
    pass, checkpoint,
    acts, events,
    story

vars == <<host, gateway, accessible, memory, selection, page, conn, tasks,
          pass, checkpoint, acts, events, story>>

ProviderNames == {"git", "mega"}
NoProvider == "none"
None == 0
Created == 9        \* the repository that createRepository makes
(* What a client keeps of a session reply, once its shape is accepted:     *)
(* whether the reader is signed in, and the repository or folder selected. *)
Session(signedIn, dest) == [signedIn |-> signedIn, dest |-> dest]
SignedOut == Session(FALSE, None)
(* A reply: a session, or the destinations the account can write to. *)
Reply(status, session, list) == [status |-> status, session |-> session, list |-> list]
NoReply == Reply(0, SignedOut, {})
Snapshot(state, provider, dest) == [state |-> state, provider |-> provider, dest |-> dest]

(* A call in progress: the page's action or the inspection of a refresh,   *)
(* with the request it waits for.                                          *)
Task(id, op, provider, pc, arg) ==
    [id |-> id, op |-> op, provider |-> provider, pc |-> pc, arg |-> arg,
     served |-> FALSE, reply |-> NoReply]
Sends(t, pc, arg) == [t EXCEPT !.pc = pc, !.arg = arg, !.served = FALSE, !.reply = NoReply]
Becomes(t, u) == (tasks \ {t}) \cup {u}
PageId == 0

Closed == [open |-> FALSE, loading |-> FALSE, busy |-> FALSE, provider |-> NoProvider,
           git |-> SignedOut, mega |-> SignedOut, list |-> {}]
NoPass == [phase |-> "idle", provider |-> NoProvider, before |-> None, uses |-> {}]
NoCheckpoint == [dest |-> None, uses |-> {}]

(***************************************************************************)
(* The connection status.  A refresh publishes only while its generation   *)
(* is the newest.                                                          *)
(***************************************************************************)
\* Mutant: a refresh publishes when it ends.
PublishAlways(c, generation, snapshot) == [c EXCEPT !.snapshot = snapshot]

Publish(c, generation, snapshot) ==
    IF generation = c.generation THEN [c EXCEPT !.snapshot = snapshot] ELSE c

Shared(c, provider, force) == ~force /\ c.active = provider

Inspecting(c, provider) ==
    LET started == [c EXCEPT !.generation = @ + 1, !.active = provider]
        generation == c.generation + 1 IN
    IF provider = NoProvider
    THEN [Publish(started, generation, Snapshot("local-only", NoProvider, None))
            EXCEPT !.active = "idle"]
    ELSE Publish(started, generation, Snapshot("checking", provider, None))

(* refresh: the service after it, and the calls it adds. *)
Refreshed(c, provider, force) ==
    IF Shared(c, provider, force) THEN c ELSE Inspecting(c, provider)

Inspections(c, provider, force) ==
    IF Shared(c, provider, force) \/ provider = NoProvider THEN {}
    ELSE {Task(c.generation + 1, "inspect", provider, "session", None)}

(* select and clear notify the service, which refreshes. *)
Notified(c, provider) == Refreshed(c, provider, FALSE)
NotifiedTasks(c, provider) == Inspections(c, provider, FALSE)

(* inspectGit and inspectMega *)
Readiness(session) ==
    CASE ~session.signedIn    -> "authorization-required"
      [] session.dest = None  -> "destination-required"
      [] OTHER                -> "ready"

(* The inspection is over. *)
Inspected(t, snapshot) ==
    /\ conn' = LET c == Publish(conn, t.id, snapshot) IN
               [c EXCEPT !.active = IF t.id = c.generation THEN "idle" ELSE @]
    /\ tasks' = tasks \ {t}
    /\ UNCHANGED <<page, selection, story>>

(***************************************************************************)
(* The gateway serves a request.                                           *)
(***************************************************************************)
Changing == {"put", "restore", "auto", "create", "delete"}
Selecting == {"put", "restore", "auto"}
Ok(session) == Reply(200, session, {})
Refusal(status) == Reply(status, SignedOut, {})

(* The body of a reply: its flags, whether the account's fields are there, *)
(* and whether every repository or folder in it has all of its fields.     *)
Body(reply) ==
    [configured |-> TRUE, authenticated |-> reply.session.signedIn, account |-> reply.session.signedIn,
     dest |-> reply.session.dest, list |-> reply.list, whole |-> TRUE]

Garbled(b) ==
    {[b EXCEPT !.account = ~@], [b EXCEPT !.whole = FALSE]}
      \cup {c \in {[b EXCEPT !.configured = FALSE]} : b.authenticated}

(***************************************************************************)
(* What a client makes of a response.  A body that is not a session or a   *)
(* list makes the call fail.  On a native host the broker looks at it      *)
(* first, and answers with an error code.                                  *)
(***************************************************************************)
Success == {200, 204}
ProtocolError == 502
Whole(b) == b.dest = None \/ b.whole

(* The parsers of the browser do not mind fields they do not know.         *)
parseSession(b) == b.authenticated => b.configured /\ b.account /\ Whole(b)
parseSessionOfMega(b) == b.authenticated => b.account /\ Whole(b)

parseGitHubSession(b) ==
    IF b.authenticated THEN b.configured /\ b.account /\ Whole(b) ELSE ~b.account

parseMegaSession(b) == IF b.authenticated THEN b.account /\ Whole(b) ELSE ~b.account

validate_github_session(b) ==
    CASE ~b.configured    -> ~b.authenticated /\ ~b.account
      [] ~b.authenticated -> ~b.account
      [] OTHER            -> b.account /\ Whole(b)

validate_mega_session(b) == IF b.authenticated THEN b.account /\ Whole(b) ELSE ~b.account

status_error(status) ==
    CASE status = 401 -> "authentication-required"
      [] status = 403 -> "permission-denied"
      [] OTHER        -> "transport-unavailable"

(* The commands of the broker: an error code, or "none". *)
Broker(t, status, b) ==
    CASE status \notin Success -> status_error(status)
      [] t.pc = "delete"      -> "none"
      [] t.pc = "list"        -> IF b.whole THEN "none" ELSE "invalid-response"
      [] t.provider = "git"   -> IF validate_github_session(b) THEN "none" ELSE "invalid-response"
      [] OTHER                -> IF validate_mega_session(b) THEN "none" ELSE "invalid-response"

nativeError(code) ==
    CASE code = "authentication-required" -> 401
      [] code = "permission-denied"       -> 403
      [] code = "invalid-response"        -> 502
      [] OTHER                            -> 503

(* The methods of the native gateways: the status the caller sees. *)
NativeGateway(t, status, b) ==
    LET code == Broker(t, status, b) IN
    CASE code # "none"       -> nativeError(code)
      [] t.pc = "delete"     -> status
      [] t.pc = "list"       -> IF b.whole THEN status ELSE ProtocolError
      [] t.provider = "git"  -> IF parseGitHubSession(b) THEN status ELSE ProtocolError
      [] OTHER               -> IF parseMegaSession(b) THEN status ELSE ProtocolError

BrowserGateway(t, status, b) ==
    CASE status \notin Success \/ t.pc = "delete" -> status
      [] t.pc = "list"       -> IF b.whole THEN status ELSE ProtocolError
      [] t.provider = "git"  -> IF parseSession(b) THEN status ELSE ProtocolError
      [] OTHER               -> IF parseSessionOfMega(b) THEN status ELSE ProtocolError

Client(t, status, b) ==
    LET seen == IF host = "native" THEN NativeGateway(t, status, b) ELSE BrowserGateway(t, status, b) IN
    IF seen \in Success THEN Reply(seen, Session(b.authenticated, b.dest), b.list) ELSE Refusal(seen)

Served(t, reply) == Becomes(t, [t EXCEPT !.served = TRUE, !.reply = reply])
Waiting(t) == ~t.served /\ t.pc \notin {"await", "authorize", "away"}

(* Another call of session() is in progress: it may still remember or      *)
(* select the repository it found.                                         *)
InSession(t) == t.provider = "git" /\ t.pc \in {"session", "restore"}
Crossing(t) == \E u \in tasks \ {t} : InSession(u)

Answer(t) ==
    LET s == gateway[t.provider] IN
    CASE t.pc = "session"                       -> Ok(s)
      [] t.pc = "delete"                        -> Reply(204, SignedOut, {})
      [] ~s.signedIn                            -> Refusal(401)
      [] t.pc = "list"                          -> Reply(200, s, accessible[t.provider])
      [] t.pc \in Selecting /\ t.arg \notin accessible[t.provider] -> Refusal(403)
      [] t.pc \in Selecting                     -> Ok(Session(TRUE, t.arg))
      [] OTHER                                  -> Ok(Session(TRUE, Created))    \* create

(* What the request changes at the gateway. *)
Effect(t) ==
    LET done == Answer(t).status = 200 /\ t.pc \in Changing IN
    /\ gateway' = CASE t.pc = "delete" -> [gateway EXCEPT ![t.provider] = SignedOut]
                    [] done            -> [gateway EXCEPT ![t.provider] = Answer(t).session]
                    [] OTHER           -> gateway
    /\ accessible' = IF done /\ t.pc = "create"
                     THEN [accessible EXCEPT ![t.provider] = @ \cup {Created}] ELSE accessible

Crossed(t) ==
    [story EXCEPT !.crossed = @ \/ (t.pc \in Changing \ {"restore"} /\ Crossing(t)),
                  !.snap = @ \/ (t.pc \in Changing)]

Serve(t) ==
    /\ Waiting(t)
    /\ Effect(t)
    /\ tasks' = Served(t, Client(t, Answer(t).status, Body(Answer(t))))
    /\ story' = Crossed(t)
    /\ UNCHANGED <<host, memory, selection, page, conn, pass, checkpoint, acts, events>>

(* The App's installation does not cover the new repository: it is made    *)
(* and not selected.                                                       *)
ServeUncovered(t) ==
    /\ Waiting(t) /\ t.pc = "create" /\ gateway.git.signedIn
    /\ tasks' = Served(t, Client(t, 200, Body(Ok(gateway.git))))
    /\ UNCHANGED <<host, gateway, accessible, memory, selection, page, conn, pass, checkpoint,
                   acts, events, story>>

(* The request or its reply is lost, the gateway cannot reach GitHub, or   *)
(* the reply has a shape that the client does not accept.                  *)
Fault(t) ==
    /\ Waiting(t) /\ events < MaxEvents
    /\ \/ /\ UNCHANGED <<gateway, accessible>> \/ Effect(t)
          /\ tasks' = Served(t, Client(t, 502, Body(NoReply)))
       \/ /\ Effect(t) /\ Answer(t).status = 200
          /\ \E b \in Garbled(Body(Answer(t))) :
               LET reply == Client(t, 200, b) IN
               reply.status \notin Success /\ tasks' = Served(t, reply)
    /\ events' = events + 1
    /\ story' = [Crossed(t) EXCEPT !.snap = TRUE, !.page = TRUE]
    /\ UNCHANGED <<host, memory, selection, page, conn, pass, checkpoint, acts>>

(***************************************************************************)
(* A reply is received                                                     *)
(***************************************************************************)
OfPage(t) == t.id = PageId
PageThen(t, new) == IF OfPage(t) THEN new ELSE page

Remembers(t) == host = "browser" /\ t.provider = "git"
Remembered(t, session) ==
    IF Remembers(t) /\ session.signedIn /\ session.dest # None THEN session.dest ELSE memory

Rest == <<host, gateway, accessible, pass, checkpoint, acts, events>>

(* A forced refresh that is not awaited, and the end of the page's action. *)
Idle(p) == [p EXCEPT !.busy = FALSE, !.loading = FALSE]

FinishProvider(t, new) ==
    /\ page' = PageThen(t, Idle(new))
    /\ conn' = Refreshed(conn, selection, TRUE)
    /\ tasks' = (tasks \ {t}) \cup Inspections(conn, selection, TRUE)
    /\ story' = [story EXCEPT !.snap = FALSE]
    /\ UNCHANGED selection

(* The refresh is awaited: c is the service as the action left it, added   *)
(* are the inspections it has started.                                     *)
AwaitRefresh(t, new, provider, c, added) ==
    LET refreshed == Refreshed(c, provider, TRUE) IN
    /\ page' = PageThen(t, new)
    /\ conn' = refreshed
    /\ tasks' = (tasks \ {t}) \cup added \cup Inspections(c, provider, TRUE)
                  \cup {Sends(t, "await", refreshed.generation)}
    /\ story' = [story EXCEPT !.snap = FALSE]

EndAwait(t) ==
    /\ t.pc = "await" /\ \A u \in tasks : u.id # t.arg
    /\ tasks' = tasks \ {t}
    /\ page' = PageThen(t, Idle(page))
    /\ UNCHANGED <<memory, selection, conn, story>> /\ UNCHANGED Rest

(* refreshProvider after the session is known. *)
SessionShown(t, session) ==
    LET new == [page EXCEPT ![t.provider] = session] IN
    IF session.signedIn
    THEN /\ page' = PageThen(t, new)
         /\ tasks' = Becomes(t, Sends(t, "list", session.dest))
         /\ UNCHANGED <<selection, conn, story>>
    ELSE FinishProvider(t, [new EXCEPT !.list = {}])

(* What awaited session() goes on. *)
GotSession(t, session) ==
    CASE t.op = "inspect" /\ t.provider = "git" /\ session.signedIn /\ session.dest = None ->
            /\ tasks' = Becomes(t, Sends(t, "list", None))
            /\ UNCHANGED <<selection, page, conn, story>>
      [] t.op = "inspect" ->
            Inspected(t, Snapshot(Readiness(session), t.provider, session.dest))
      [] t.op = "refresh" ->
            /\ AwaitRefresh(t, [page EXCEPT !.git = session], selection, conn, {})
            /\ UNCHANGED selection
      [] t.op = "connect" /\ host = "browser" ->      \* the browser leaves for GitHub
            /\ tasks' = Becomes(t, Sends(t, "away", None))
            /\ UNCHANGED <<selection, page, conn, story>>
      [] OTHER -> SessionShown(t, session)

ReceiveSession(t) ==
    LET session == t.reply.session IN
    /\ t.served /\ t.pc = "session" /\ t.reply.status = 200
    /\ IF Remembers(t) /\ session.signedIn /\ session.dest = None /\ memory # None
       THEN /\ tasks' = Becomes(t, Sends(t, "restore", memory))
            /\ UNCHANGED <<memory, selection, page, conn, story>>
       ELSE memory' = Remembered(t, session) /\ GotSession(t, session)
    /\ UNCHANGED Rest

ReceiveRestore(t) ==
    /\ t.served /\ t.pc = "restore"
    /\ \/ /\ t.reply.status = 200
          /\ memory' = Remembered(t, t.reply.session)
          /\ GotSession(t, t.reply.session)
       \/ /\ t.reply.status \in {403, 404}
          /\ memory' = None
          /\ GotSession(t, Session(TRUE, None))
    /\ UNCHANGED Rest

(* refreshProvider selects the only writable repository. *)
ReceiveList(t) ==
    LET list == t.reply.list
        new == [page EXCEPT !.list = list] IN
    /\ t.served /\ t.pc = "list" /\ t.reply.status = 200
    /\ CASE t.op = "inspect" -> Inspected(t, Snapshot("destination-required", "git", None))
         [] t.op = "refresh" ->
              /\ page' = PageThen(t, new)
              /\ tasks' = Becomes(t, Sends(t, "session", None))
              /\ UNCHANGED <<selection, conn, story>>
         [] t.op = "create" /\ t.arg = Created ->
              /\ selection' = "git"
              /\ AwaitRefresh(t, new, "git", Notified(conn, "git"), NotifiedTasks(conn, "git"))
         [] t.op = "create" -> AwaitRefresh(t, new, selection, conn, {}) /\ UNCHANGED selection
         [] t.provider = "git" /\ t.arg = None /\ Cardinality(list) = 1 ->
              /\ page' = PageThen(t, new)
              /\ tasks' = Becomes(t, Sends(t, "auto", CHOOSE d \in list : TRUE))
              /\ UNCHANGED <<selection, conn, story>>
         [] OTHER -> FinishProvider(t, new)
    /\ UNCHANGED memory /\ UNCHANGED Rest

ReceiveAuto(t) ==
    /\ t.served /\ t.pc = "auto" /\ t.reply.status = 200
    /\ memory' = Remembered(t, t.reply.session)
    /\ FinishProvider(t, [page EXCEPT !.git = t.reply.session])
    /\ UNCHANGED Rest

(* selectRepository selects the provider too, selectFolder does not. *)
ReceiveSelect(t) ==
    LET new == [page EXCEPT ![t.provider] = t.reply.session] IN
    /\ t.served /\ t.pc = "put" /\ t.reply.status = 200
    /\ memory' = Remembered(t, t.reply.session)
    /\ IF t.provider = "git"
       THEN /\ selection' = "git"
            /\ AwaitRefresh(t, new, "git", Notified(conn, "git"), NotifiedTasks(conn, "git"))
       ELSE AwaitRefresh(t, new, selection, conn, {}) /\ UNCHANGED selection
    /\ UNCHANGED Rest

ReceiveCreate(t) ==
    /\ t.served /\ t.pc = "create" /\ t.reply.status = 200
    /\ memory' = Remembered(t, t.reply.session)
    /\ page' = PageThen(t, [page EXCEPT !.git = t.reply.session])
    /\ tasks' = Becomes(t, Sends(t, "list", t.reply.session.dest))
    /\ UNCHANGED <<selection, conn, story>> /\ UNCHANGED Rest

ReceiveDisconnect(t) ==
    LET new == [page EXCEPT ![t.provider] = SignedOut, !.provider = NoProvider, !.list = {}] IN
    /\ t.served /\ t.pc = "delete" /\ t.reply.status = 204
    /\ memory' = IF Remembers(t) THEN None ELSE memory
    /\ selection' = NoProvider
    /\ page' = PageThen(t, new)
    /\ conn' = Refreshed(Notified(conn, NoProvider), NoProvider, TRUE)
    /\ tasks' = Becomes(t, Sends(t, "await", conn.generation + 2))
    /\ story' = [story EXCEPT !.snap = FALSE, !.forgot = @ \/ t.provider = "git"]
    /\ UNCHANGED Rest

(* handleError: only a 401 changes what the page knows of the session. *)
HandleError(status) ==
    Idle(IF status = 401 /\ page.provider # NoProvider
         THEN [page EXCEPT ![page.provider] = SignedOut] ELSE page)

ReceiveError(t) ==
    /\ t.served /\ t.reply.status \in {401, 403, 502, 503}
    /\ ~(t.pc = "restore" /\ t.reply.status = 403)
    /\ IF t.op = "inspect" THEN Inspected(t, Snapshot("gateway-unavailable", t.provider, None))
       ELSE /\ page' = PageThen(t, HandleError(t.reply.status))
            /\ tasks' = tasks \ {t}
            /\ UNCHANGED <<selection, conn, story>>
    /\ UNCHANGED memory /\ UNCHANGED Rest

(***************************************************************************)
(* The reader at the settings page.  The template disables every control   *)
(* while an action or an automatic synchronization is in progress, and     *)
(* shows the ones that what the page knows of the session calls for.       *)
(***************************************************************************)
OldPageId == 99     \* a page that was left goes on with its call
OldCall == \E t \in tasks : t.id = OldPageId

AutomaticSyncBusy == pass.phase # "idle"
Controls == page.open /\ ~page.loading /\ ~page.busy /\ ~AutomaticSyncBusy
Act(op) == op \in Operations /\ acts < MaxActs /\ acts' = acts + 1
Starts(op, provider, pc, arg) ==
    /\ page' = [page EXCEPT !.busy = TRUE]
    /\ tasks' = tasks \cup {Task(PageId, op, provider, pc, arg)}
    /\ UNCHANGED <<host, gateway, accessible, memory, selection, conn, pass, checkpoint,
                   events, story>>

ngOnInit ==
    /\ ~page.open /\ Act("open")
    /\ page' = [Closed EXCEPT !.open = TRUE, !.loading = selection # NoProvider, !.provider = selection]
    /\ IF selection = NoProvider
       THEN /\ conn' = Refreshed(conn, selection, TRUE) /\ UNCHANGED tasks
       ELSE /\ tasks' = tasks \cup {Task(PageId, "open", selection, "session", None)} /\ UNCHANGED conn
    /\ story' = [story EXCEPT !.page = OldCall]
    /\ UNCHANGED <<host, gateway, accessible, memory, selection, pass, checkpoint, events>>

chooseProvider(provider) ==
    /\ Controls /\ Act("choose")
    /\ selection' = provider
    /\ conn' = Notified(conn, provider)
    /\ page' = [page EXCEPT !.busy = TRUE, !.provider = provider]
    /\ tasks' = tasks \cup NotifiedTasks(conn, provider)
                  \cup {Task(PageId, "choose", provider, "session", None)}
    /\ story' = [story EXCEPT !.snap = FALSE, !.page = OldCall]
    /\ UNCHANGED <<host, gateway, accessible, memory, pass, checkpoint, events>>

connect ==
    /\ Controls /\ page.provider # NoProvider /\ ~page[page.provider].signedIn /\ Act("connect")
    /\ Starts("connect", page.provider,
              CASE host = "native" -> "authorize" [] page.provider = "git" -> "session" [] OTHER -> "away", None)

selectDestination(dest) ==
    /\ Controls /\ page.provider # NoProvider /\ page[page.provider].signedIn /\ Act("select")
    /\ dest \in page.list
    /\ Starts("select", page.provider, "put", dest)

createRepository ==
    /\ Controls /\ page.provider = "git" /\ page.git.signedIn /\ page.git.dest = None /\ Act("create")
    /\ Created \notin accessible.git        \* GitHub refuses a second one of that name
    /\ Starts("create", "git", "create", None)

refreshRepositories ==
    /\ Controls /\ page.provider = "git" /\ page.git.signedIn /\ Act("refresh")
    /\ Starts("refresh", "git", "list", None)

disconnect ==
    /\ Controls /\ page.provider # NoProvider /\ page[page.provider].signedIn /\ Act("disconnect")
    /\ Starts("disconnect", page.provider, "delete", None)

(* The page is left: what it awaits goes on without it. *)
Leave ==
    /\ page.open /\ Act("leave")
    /\ ~OldCall
    /\ page' = Closed
    /\ tasks' = {IF OfPage(t) THEN [t EXCEPT !.id = OldPageId] ELSE t :
                   t \in {u \in tasks : ~(OfPage(u) /\ u.pc = "authorize")}}
    /\ UNCHANGED <<host, gateway, accessible, memory, selection, conn, pass, checkpoint,
                   events, story>>

(* Native authorization: the sign-in attempt ends well or is cancelled. *)
Authorized(t) ==
    /\ t.pc = "authorize"
    /\ \/ /\ gateway' = [gateway EXCEPT ![t.provider] = Session(TRUE, None)]
          /\ tasks' = Becomes(t, Sends(t, "session", None))
          /\ story' = [story EXCEPT !.snap = TRUE, !.forgot = FALSE]
          /\ UNCHANGED page
       \/ /\ tasks' = tasks \ {t}
          /\ page' = PageThen(t, Idle(page))
          /\ UNCHANGED <<gateway, story>>
    /\ UNCHANGED <<host, accessible, memory, selection, conn, pass, checkpoint, acts, events>>

(***************************************************************************)
(* The application starts: the subscription of the status service and the  *)
(* toolbar share one inspection.                                           *)
(***************************************************************************)
Started(provider) ==
    Inspecting([generation |-> 0, active |-> "idle", snapshot |-> Snapshot("checking", provider, None)], provider)
StartedTasks(provider) ==
    IF provider = NoProvider THEN {} ELSE {Task(1, "inspect", provider, "session", None)}

Boot ==
    /\ conn' = Started(selection)
    /\ pass' = NoPass
    /\ story' = [story EXCEPT !.snap = FALSE, !.page = FALSE, !.forgot = @ /\ ~gateway'.git.signedIn]

(* Back from the provider's sign-in, at the settings page. *)
Redirected(t) ==
    /\ t.pc = "away"
    /\ \/ gateway' = [gateway EXCEPT ![t.provider] = Session(TRUE, None)]
       \/ UNCHANGED gateway
    /\ Boot
    /\ page' = [Closed EXCEPT !.open = TRUE, !.loading = selection # NoProvider, !.provider = selection]
    /\ tasks' = StartedTasks(selection)
                  \cup {Task(PageId, "open", p, "session", None) : p \in {selection} \cap ProviderNames}
    /\ UNCHANGED <<host, accessible, memory, selection, checkpoint, acts, events>>

(* The application is reloaded in the middle of whatever it does. *)
Reload ==
    /\ events < MaxEvents /\ events' = events + 1
    /\ UNCHANGED gateway
    /\ Boot
    /\ page' = Closed
    /\ tasks' = StartedTasks(selection)
    /\ UNCHANGED <<host, accessible, memory, selection, checkpoint, acts>>

(***************************************************************************)
(* A synchronization.  The worker reads the provider once; each call of    *)
(* its transport goes to the provider and the destination of its moment.   *)
(***************************************************************************)
Target == IF selection = NoProvider THEN <<NoProvider, None>>
          ELSE <<selection, gateway[selection].dest>>
Reachable == selection # NoProvider /\ Target[2] # None /\ Target[2] \in accessible[selection]
Settings == <<host, gateway, accessible, memory, selection, page, conn, tasks, acts, story>>

StartPass ==
    /\ pass.phase = "idle" /\ events < MaxEvents /\ selection # NoProvider
    /\ events' = events + 1
    /\ pass' = [NoPass EXCEPT !.phase = IF selection = "git" THEN "probe" ELSE "plain", !.provider = selection]
    /\ UNCHANGED checkpoint /\ UNCHANGED Settings

(* revisionBefore; a provider without revisions answers null. *)
Probe ==
    /\ pass.phase = "probe" /\ Reachable
    /\ pass' = IF selection = "git" THEN [pass EXCEPT !.phase = "first", !.before = Target[2]]
               ELSE [pass EXCEPT !.phase = "plain"]
    /\ UNCHANGED checkpoint /\ UNCHANGED <<Settings, events>>

Unchanged ==
    /\ pass.phase = "first" /\ pass.uses = {} /\ checkpoint.dest = pass.before
    /\ pass' = NoPass
    /\ UNCHANGED checkpoint /\ UNCHANGED <<Settings, events>>

Call ==
    /\ pass.phase \in {"first", "verify", "plain"} /\ Reachable
    /\ Target \notin pass.uses
    /\ pass' = [pass EXCEPT !.uses = @ \cup {Target}]
    /\ UNCHANGED checkpoint /\ UNCHANGED <<Settings, events>>

CallFails ==
    /\ pass.phase # "idle"
    /\ pass' = NoPass
    /\ UNCHANGED checkpoint /\ UNCHANGED <<Settings, events>>

(* The revision after the reconciliation is the one before it. *)
Stable(before) == selection = "git" /\ Target[2] = before

(* What was pushed, or the revision having moved, calls for a second       *)
(* reconciliation; the first or the second earns the checkpoint.           *)
Settle ==
    /\ pass.phase \in {"first", "verify"} /\ pass.uses # {} /\ Reachable
    /\ \E quiet \in BOOLEAN :          \* nothing pushed, and no one else has changed the branch
         IF pass.phase = "first" /\ selection = "git" /\ ~(Stable(pass.before) /\ quiet)
         THEN /\ pass' = [pass EXCEPT !.phase = "verify", !.before = Target[2], !.uses = {}]
              /\ UNCHANGED checkpoint
         ELSE /\ checkpoint' = IF Stable(pass.before) /\ quiet
                               THEN [dest |-> pass.before, uses |-> pass.uses] ELSE NoCheckpoint
              /\ pass' = NoPass
    /\ UNCHANGED <<Settings, events>>

EndPlain ==
    /\ pass.phase = "plain" /\ pass.uses # {}
    /\ pass' = NoPass
    /\ UNCHANGED checkpoint /\ UNCHANGED <<Settings, events>>

(***************************************************************************)
(* What happens elsewhere: the session expires, a repository is withdrawn  *)
(* from the App, another tab of the browser selects a destination.         *)
(***************************************************************************)
Elsewhere ==
    /\ events < MaxEvents /\ events' = events + 1
    /\ \E p \in ProviderNames :
         \/ /\ gateway[p].signedIn
            /\ gateway' = [gateway EXCEPT ![p] = SignedOut] /\ UNCHANGED accessible
         \/ /\ \E d \in accessible[p] : accessible' = [accessible EXCEPT ![p] = @ \ {d}]
            /\ UNCHANGED gateway
         \/ /\ gateway[p].signedIn
            /\ \E d \in accessible[p] \ {gateway[p].dest} : gateway' = [gateway EXCEPT ![p].dest = d]
            /\ UNCHANGED accessible
    /\ story' = [story EXCEPT !.snap = TRUE, !.page = TRUE, !.elsewhere = TRUE,
                              !.crossed = @ \/ \E t \in tasks : InSession(t)]
    /\ UNCHANGED <<host, memory, selection, page, conn, tasks, pass, checkpoint, acts>>

(***************************************************************************)
(* The application has just been started, with a provider selected or not, *)
(* signed in or not, a repository remembered or not; or it has settled at  *)
(* the settings page.                                                      *)
(***************************************************************************)
Fresh ==
    /\ page = Closed
    /\ conn = Started(selection) /\ tasks = StartedTasks(selection)
    /\ memory \in {None, 1}
    /\ checkpoint = NoCheckpoint

(* An earlier synchronization has left its checkpoint. *)
Earned(dest) == IF dest = None THEN NoCheckpoint ELSE [dest |-> dest, uses |-> {<<"git", dest>>}]

AtSettings ==
    /\ page = [Closed EXCEPT !.open = TRUE, !.provider = selection, !.git = gateway.git,
                             !.list = IF gateway.git.signedIn THEN accessible.git ELSE {}]
    /\ conn = [generation |-> 1, active |-> "idle",
               snapshot |-> Snapshot(Readiness(gateway.git), selection, gateway.git.dest)]
    /\ tasks = {}
    /\ selection = "git"
    /\ memory \in {gateway.git.dest} \cup {d \in {1} : ~gateway.git.signedIn}
    /\ checkpoint = Earned(gateway.git.dest)

Init ==
    /\ host \in Hosts
    /\ accessible = Accessible
    /\ gateway \in {[git |-> s, mega |-> m] :
                     s \in {SignedOut, Session(TRUE, None), Session(TRUE, 1)},
                     m \in {Session(TRUE, None)}}
    /\ selection \in {NoProvider, "git"}
    /\ Fresh \/ AtSettings
    /\ memory # None => host = "browser"
    /\ pass = NoPass
    /\ acts = 0 /\ events = 0
    /\ story = [snap |-> FALSE, page |-> FALSE, crossed |-> FALSE, forgot |-> FALSE, elsewhere |-> FALSE]

Receive(t) ==
    \/ ReceiveSession(t) \/ ReceiveRestore(t) \/ ReceiveList(t) \/ ReceiveAuto(t)
    \/ ReceiveSelect(t) \/ ReceiveCreate(t) \/ ReceiveDisconnect(t) \/ ReceiveError(t) \/ EndAwait(t)

Reader ==
    \/ ngOnInit \/ connect \/ createRepository \/ refreshRepositories \/ disconnect \/ Leave
    \/ \E p \in ProviderNames : chooseProvider(p)
    \/ \E d \in page.list : selectDestination(d)

Worker == StartPass \/ Probe \/ Unchanged \/ Call \/ CallFails \/ Settle \/ EndPlain

Next ==
    \/ \E t \in tasks : Serve(t) \/ ServeUncovered(t) \/ Fault(t) \/ Receive(t) \/ Authorized(t) \/ Redirected(t)
    \/ Reader \/ Worker \/ Elsewhere \/ Reload

Spec == Init /\ [][Next]_vars

(***************************************************************************)
(* Properties                                                              *)
(***************************************************************************)
Quiet == tasks = {}

(* Once every call has ended, the toolbar's connection status is that of   *)
(* the selected provider at the gateway, unless something changed there    *)
(* since its newest inspection began without the application's knowledge   *)
(* (SyncConnectionStatusService.refresh, publish).                         *)
SnapshotSettles ==
    Quiet /\ ~story.snap /\ ~story.crossed =>
        /\ conn.snapshot.provider = selection
        /\ conn.snapshot = IF selection = NoProvider THEN Snapshot("local-only", NoProvider, None)
                           ELSE Snapshot(Readiness(gateway[selection]), selection, gateway[selection].dest)

(* Once every call has ended, the settings page shows the session that the *)
(* gateway has, and the browser remembers that session's repository        *)
(* (refreshProvider, selectRepository, GitHubGatewayClient.session).       *)
PageSettles ==
    Quiet /\ page.open /\ ~story.page /\ ~story.crossed /\ selection # NoProvider =>
        /\ page.provider = selection
        /\ page[selection] = gateway[selection]
        /\ host = "browser" /\ selection = "git" /\ gateway.git.dest # None => memory = gateway.git.dest

(* A checkpoint belongs to a destination that a whole reconciliation went  *)
(* to, and to no other: no pass that a change of destination has split     *)
(* earns one (ChangeAwareSyncWorker.runSynchronization over                *)
(* SelectedLibrarySyncTransport.active).                                   *)
CheckpointEarned ==
    checkpoint.dest # None /\ ~story.elsewhere /\ ~story.crossed => checkpoint.uses = {<<"git", checkpoint.dest>>}

(* After a disconnect the repository is forgotten, unless a session() call *)
(* overlapped it.                                                          *)
ForgottenUnlessCrossed == Quiet /\ story.forgot /\ ~story.crossed => memory = None

(* After a disconnect the repository is forgotten (GitHubGatewayClient.    *)
(* disconnect, session).                                                   *)
DisconnectForgets == Quiet /\ story.forgot => memory = None

\* Once the replies are in, the status, the page, the checkpoint and the
\* remembered repository are those of the destination that was chosen last,
\* unless something changed there that the application could not know.
SettingsSettle ==
    /\ SnapshotSettles
    /\ PageSettles
    /\ CheckpointEarned
    /\ ForgottenUnlessCrossed
=============================================================================
