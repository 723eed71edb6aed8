--------------------------- MODULE GatewaySessions ---------------------------
(***************************************************************************)
(* The GitHub sessions of the synchronization gateway: what the encrypted  *)
(* session store keeps under a session identifier, the request handlers    *)
(* that read it, call GitHub and write it back, the rotation of expiring   *)
(* user tokens, the revocation generations the webhook advances, and the   *)
(* cookie of the browser.                                                  *)
(*                                                                         *)
(* Every store command and every GitHub call is awaited, so every one of   *)
(* them is a step of its own and other handlers run in between: a handler  *)
(* carries the session it READ (snapshot) and writes that back later.      *)
(*                                                                         *)
(* A GitHub token pair (user access token and the refresh token issued     *)
(* with it) is a number; times are replaced by the facts the code derives  *)
(* from them (a pair has aged into the refresh margin, or not).            *)
(***************************************************************************)
EXTENDS Naturals, Sequences, FiniteSets

CONSTANTS
    Requests,        \* the requests the gateway serves at one time
    Hosts,           \* assignments of requests to gateway processes
    Repositories,    \* the repositories of the user's account
    Operations,      \* the routes a client calls
    Beginnings,      \* the sessions to start from
    MaxCalls,        \* bound: requests made
    MaxPairs,        \* bound: token pairs GitHub issues
    MaxRevocations,  \* bound: authorizations the user revokes at GitHub
    MaxEvents,       \* bound: things that happen around the gateway
    None

VARIABLES
    store,       \* the session store: [session identifier -> session or None]
    cookie,      \* the session identifier the browser presents, or None
    identifiers, \* session identifiers handed out so far
    generation,  \* the authorization generation of the user
    deliveries,  \* webhook deliveries applied (deduplicated by identifier)
    github,      \* what GitHub holds
    aged,        \* pairs whose access token is in the refresh margin
    issued,      \* history: issued[p] = revocations at GitHub before pair p
    rotation,    \* userTokenRefreshes: who rotates for a session, per process
    host,        \* the process that serves a request
    run,         \* the handlers
    calls,       \* requests made so far
    events,      \* things that happened around the gateway so far
    starts,      \* authorizations started so far
    completed,   \* history: sessions made from each started authorization
    ended        \* history: identifiers a disconnect has deleted

vars == <<store, cookie, identifiers, generation, deliveries, github, aged,
          issued, rotation, host, run, calls, events, starts, completed, ended>>

Identifiers == 1..(2 * MaxCalls + 1)
Pairs == 1..MaxPairs
Authorizations == 1..(MaxCalls + 1)
Processes == UNION { {h[r] : r \in Requests} : h \in Hosts }

------------------------------------------------------------------------------
(* What the store keeps.                                                   *)

PendingSession(state) ==
    [kind |-> "pending", state |-> state, pair |-> 0, generation |-> 0,
     repository |-> None, installation |-> None]

\* installation is the repository its access token was minted for.
UserSession(pair, gen) ==
    [kind |-> "user", state |-> 0, pair |-> pair, generation |-> gen,
     repository |-> None, installation |-> None]

Sessions ==
    { PendingSession(a) : a \in Authorizations }
      \cup { [UserSession(p, g) EXCEPT !.repository = x, !.installation = i] :
               p \in Pairs, g \in 0..MaxRevocations,
               x \in Repositories \cup {None}, i \in Repositories \cup {None} }

IsUser(session) == session # None /\ session.kind = "user"
IsPending(session) == session # None /\ session.kind = "pending"

Choose(session, repository) ==
    [session EXCEPT !.repository = repository, !.installation = None]

\* The session loadRepositories writes: the one the listing was made with.
Listed(session, found) ==
    IF session.repository \in found
      THEN session
      ELSE Choose(session, None)

------------------------------------------------------------------------------
(* The handlers.                                                           *)

Idle ==
    [phase |-> "idle", operation |-> None, session |-> 0, argument |-> None,
     snapshot |-> None, attempt |-> 0, minted |-> 0, old |-> 0, found |-> {},
     resume |-> "list", again |-> FALSE, created |-> FALSE, reply |-> "keep", began |-> 0]

Phases ==
    {"idle", "read", "generation", "drop", "refresh", "joined", "rejected",
     "consume", "rotated", "recheck", "dropRotated", "revokeRotated", "rotate",
     "create", "list", "unauthorized", "dropExpired", "saveList",
     "saveSelection", "mint", "clear", "saveClear", "saveInstallation",
     "use", "delete", "revoke", "start", "pending", "exchange",
     "authorize", "move", "abandon", "reply"}

Reply(h, how) ==
    [Idle EXCEPT !.phase = "reply", !.operation = h.operation,
                 !.session = h.session, !.created = h.created, !.reply = how]

To(h, phase) == [h EXCEPT !.phase = phase]

\* What the handler does with the session it was authenticated with.
Authenticated(h, session) ==
    LET g == [h EXCEPT !.snapshot = session, !.minted = 0] IN
    CASE h.operation = "session" -> Reply(h, "set")
      [] h.operation = "document" ->
           IF session.repository = None THEN Reply(h, "keep") ELSE To(g, "mint")
      [] h.operation = "create" /\ ~h.again -> To(g, "create")
      [] h.operation \in {"select", "create"} /\ h.again ->
           IF h.argument \in h.found THEN To(g, "saveSelection")
                                     ELSE Reply(h, "keep")
      [] OTHER -> To(g, "list")

\* An operation that requires a session answers 401, GET /session answers
\* that nobody is signed in; both leave the cookie as it is.
Unauthenticated(h) == Reply(h, "keep")

Moves(r, h) == run' = [run EXCEPT ![r] = h]

Joined(r) == { q \in Requests : /\ run[q].phase = "joined"
                                /\ host[q] = host[r]
                                /\ run[q].session = run[r].session }

Rotating(r) == rotation[host[r]][run[r].session] = r

\* The promise of a rotation settles: everyone who waits for it goes on with
\* the session it returns, and the process forgets the rotation.
Settle(r, session) ==
    /\ run' = [q \in Requests |->
                 IF q = r \/ q \in Joined(r)
                   THEN IF session = None THEN Unauthenticated(run[q])
                                          ELSE Authenticated(run[q], session)
                   ELSE run[q]]
    /\ rotation' = [rotation EXCEPT ![host[r]][run[r].session] = None]

Fails(r) ==
    /\ run' = [q \in Requests |->
                 IF q = r \/ q \in Joined(r) THEN Reply(run[q], "keep")
                                             ELSE run[q]]
    /\ rotation' = [rotation EXCEPT ![host[r]][run[r].session] = None]

At(r, phase) == run[r].phase = phase
Session(r) == store[run[r].session]
Write(r, session) == store' = [store EXCEPT ![run[r].session] = session]

\* GitHub issues a token pair for an authorization it still knows.
Issue ==
    /\ Len(issued) < MaxPairs
    /\ issued' = Append(issued, github.revocations)

NewPair == Len(issued) + 1

unchangedGitHub == UNCHANGED <<github, aged, issued>>
unchangedRevocations == UNCHANGED <<generation, deliveries>>
unchangedClient == UNCHANGED <<cookie, identifiers, calls, events, starts>>
unchangedHistory == UNCHANGED <<completed, ended>>

------------------------------------------------------------------------------
(* A request arrives and is answered.                                      *)

\* session(): the identifier of the cookie, or a new one; the reply sets it.
Begin(r, operation, argument) ==
    LET sid == IF cookie # None THEN cookie ELSE identifiers + 1
    IN  /\ At(r, "idle")
        /\ calls < MaxCalls
        /\ calls' = calls + 1
        /\ identifiers' = IF cookie # None THEN identifiers ELSE identifiers + 1
        /\ Moves(r, [Idle EXCEPT
                       !.phase = CASE operation = "start" -> "start"
                                   [] operation = "callback" -> "pending"
                                   [] OTHER -> "read",
                       !.operation = operation, !.session = sid,
                       !.argument = argument, !.created = (cookie = None),
                       !.began = generation])
        /\ UNCHANGED <<store, cookie, rotation, host, events, starts>>
        /\ unchangedGitHub /\ unchangedRevocations /\ unchangedHistory

Arguments(operation) ==
    CASE operation \in {"select", "create"} -> Repositories
      [] operation = "callback" -> 1..starts
      [] OTHER -> {None}

Deliver(r) ==
    /\ At(r, "reply")
    /\ cookie' = CASE run[r].reply = "set" -> run[r].session
                   [] run[r].reply = "clear" -> None
                   [] run[r].created -> run[r].session
                   [] OTHER -> cookie
    /\ Moves(r, Idle)
    /\ UNCHANGED <<store, identifiers, rotation, host, calls, events, starts>>
    /\ unchangedGitHub /\ unchangedRevocations /\ unchangedHistory

------------------------------------------------------------------------------
(* authenticatedState                                                      *)

AfterRead(h, session) ==
    CASE h.operation = "disconnect" -> [h EXCEPT !.phase = "delete", !.snapshot = session]
      [] IsUser(session) -> [h EXCEPT !.phase = "generation", !.snapshot = session]
      [] OTHER -> Unauthenticated(h)

Read(r) ==
    /\ At(r, "read")
    /\ Moves(r, AfterRead(run[r], Session(r)))
    /\ UNCHANGED <<store, rotation, host>>
    /\ unchangedClient /\ unchangedGitHub /\ unchangedRevocations /\ unchangedHistory

\* Mutant: only a generation from the future is refused.
MustDropNewer(h) == h.snapshot.generation > generation

\* A session of an earlier generation is dropped, and so is an aged one whose
\* refresh token is gone or has expired too.
MustDrop(h) == h.snapshot.generation # generation

\* One rotation per session and process: the others wait for its promise.
refreshAuthenticatedState(r) ==
    LET h == run[r] IN
    IF rotation[host[r]][h.session] = None
      THEN /\ Moves(r, To(h, "refresh"))
           /\ rotation' = [rotation EXCEPT ![host[r]][h.session] = r]
      ELSE /\ Moves(r, To(h, "joined"))
           /\ UNCHANGED rotation

CheckGeneration(r) ==
    LET h == run[r] IN
    /\ At(r, "generation")
    /\ \/ /\ MustDrop(h) \/ h.snapshot.pair \in aged
          /\ Moves(r, To(h, "drop"))
          /\ UNCHANGED rotation
       \/ /\ ~MustDrop(h)
          /\ h.snapshot.pair \notin aged
          /\ Moves(r, Authenticated(h, h.snapshot))
          /\ UNCHANGED rotation
       \/ /\ ~MustDrop(h)
          /\ h.snapshot.pair \in aged
          /\ refreshAuthenticatedState(r)
    /\ UNCHANGED <<store, host>>
    /\ unchangedClient /\ unchangedGitHub /\ unchangedRevocations /\ unchangedHistory

Drop(r) ==
    /\ At(r, "drop")
    /\ Write(r, None)
    /\ Moves(r, Unauthenticated(run[r]))
    /\ UNCHANGED <<rotation, host>>
    /\ unchangedClient /\ unchangedGitHub /\ unchangedRevocations /\ unchangedHistory

------------------------------------------------------------------------------
(* rotateUserToken                                                         *)

\* GitHub takes a refresh token once, and the old access token ends with it;
\* its answer may be lost.
Refresh(r) ==
    LET h == run[r] IN
    /\ At(r, "refresh")
    /\ \/ /\ h.snapshot.pair \in github.fresh
          /\ Issue
          /\ github' = [github EXCEPT
                          !.live = (@ \ {h.snapshot.pair}) \cup {NewPair},
                          !.fresh = (@ \ {h.snapshot.pair}) \cup {NewPair}]
          /\ \/ Moves(r, [h EXCEPT !.phase = "rotated", !.minted = NewPair]) /\ UNCHANGED rotation
             \/ Fails(r)
          /\ UNCHANGED aged
       \/ /\ h.snapshot.pair \notin github.fresh
          /\ Moves(r, To(h, "rejected"))
          /\ UNCHANGED rotation /\ unchangedGitHub
       \/ /\ Fails(r)
          /\ unchangedGitHub
    /\ UNCHANGED <<store, host>>
    /\ unchangedClient /\ unchangedRevocations /\ unchangedHistory

\* bad_refresh_token: another process may have rotated it already.
Rejected(r) ==
    /\ At(r, "rejected")
    /\ IF IsUser(Session(r)) /\ Session(r).pair # run[r].snapshot.pair
         THEN Settle(r, Session(r))
         ELSE Moves(r, To(run[r], "consume")) /\ UNCHANGED rotation
    /\ UNCHANGED <<store, host>>
    /\ unchangedClient /\ unchangedGitHub /\ unchangedRevocations /\ unchangedHistory

Consume(r) ==
    /\ At(r, "consume")
    /\ Write(r, None)
    /\ Settle(r, None)
    /\ UNCHANGED host
    /\ unchangedClient /\ unchangedGitHub /\ unchangedRevocations /\ unchangedHistory

\* old keeps the pair the rotation began with, snapshot the session read now.
AfterRotation(h, session) ==
    IF IsUser(session)
      THEN [h EXCEPT !.phase = "recheck", !.snapshot = session,
                     !.old = h.snapshot.pair]
      ELSE [h EXCEPT !.phase = "revokeRotated", !.snapshot = None]

Rotated(r) ==
    /\ At(r, "rotated")
    /\ Moves(r, AfterRotation(run[r], Session(r)))
    /\ UNCHANGED <<store, rotation, host>>
    /\ unchangedClient /\ unchangedGitHub /\ unchangedRevocations /\ unchangedHistory

AfterRecheck(h) ==
    CASE MustDrop(h) -> To(h, "dropRotated")
      [] h.snapshot.pair # h.old -> To(h, "revokeRotated")
      [] OTHER -> To(h, "rotate")

Recheck(r) ==
    /\ At(r, "recheck")
    /\ Moves(r, AfterRecheck(run[r]))
    /\ UNCHANGED <<store, rotation, host>>
    /\ unchangedClient /\ unchangedGitHub /\ unchangedRevocations /\ unchangedHistory

DropRotated(r) ==
    /\ At(r, "dropRotated")
    /\ Write(r, None)
    /\ Moves(r, [run[r] EXCEPT !.phase = "revokeRotated", !.snapshot = None])
    /\ UNCHANGED <<rotation, host>>
    /\ unchangedClient /\ unchangedGitHub /\ unchangedRevocations /\ unchangedHistory

\* revokeUserAccessToken is best-effort: it may reach GitHub or not.
RevokeRotated(r) ==
    /\ At(r, "revokeRotated")
    /\ github' \in {github, [github EXCEPT !.live = @ \ {run[r].minted}]}
    /\ Settle(r, run[r].snapshot)
    /\ UNCHANGED <<store, host, aged, issued>>
    /\ unchangedClient /\ unchangedRevocations /\ unchangedHistory

Rotate(r) ==
    LET updated == [run[r].snapshot EXCEPT !.pair = run[r].minted] IN
    /\ At(r, "rotate")
    /\ Write(r, updated)
    /\ Settle(r, updated)
    /\ UNCHANGED host
    /\ unchangedClient /\ unchangedGitHub /\ unchangedRevocations /\ unchangedHistory

------------------------------------------------------------------------------
(* withUserAuthorization, loadRepositories, selectDestination and          *)
(* createDestination                                                       *)

Accepted(h) == h.snapshot.pair \in github.live

AfterRefusal(h) == [h EXCEPT !.phase = "unauthorized", !.resume = h.phase]

\* POST /user/repos. The new repository may be one the app is installed on.
Create(r) ==
    LET h == run[r] IN
    /\ At(r, "create")
    /\ \/ /\ Accepted(h)
          /\ h.argument \notin github.installed
          /\ github' \in {github, [github EXCEPT !.installed = @ \cup {h.argument}]}
          /\ Moves(r, [h EXCEPT !.phase = "list", !.attempt = 0])
       \/ /\ ~Accepted(h)
          /\ Moves(r, AfterRefusal(h))
          /\ UNCHANGED github
       \/ /\ Moves(r, Reply(h, "keep"))
          /\ UNCHANGED github
    /\ UNCHANGED <<store, rotation, host, aged, issued>>
    /\ unchangedClient /\ unchangedRevocations /\ unchangedHistory

List(r) ==
    LET h == run[r] IN
    /\ At(r, "list")
    /\ \/ /\ Accepted(h)
          /\ Moves(r, [h EXCEPT !.phase = "saveList", !.found = github.installed])
       \/ /\ ~Accepted(h)
          /\ Moves(r, AfterRefusal(h))
       \/ Moves(r, Reply(h, "keep"))
    /\ UNCHANGED <<store, rotation, host>>
    /\ unchangedClient /\ unchangedGitHub /\ unchangedRevocations /\ unchangedHistory

\* A 401 of the user token: retried once when the session was rotated since,
\* and otherwise the end of the session that holds this very token.
AfterReread(h, session) ==
    CASE h.attempt = 0 /\ IsUser(session) /\ session.pair # h.snapshot.pair ->
           [h EXCEPT !.phase = h.resume, !.snapshot = session, !.attempt = 1]
      [] IsUser(session) /\ session.pair = h.snapshot.pair -> To(h, "dropExpired")
      [] OTHER -> Unauthenticated(h)

Unauthorized(r) ==
    /\ At(r, "unauthorized")
    /\ Moves(r, AfterReread(run[r], Session(r)))
    /\ UNCHANGED <<store, rotation, host>>
    /\ unchangedClient /\ unchangedGitHub /\ unchangedRevocations /\ unchangedHistory

DropExpired(r) ==
    /\ At(r, "dropExpired")
    /\ Write(r, None)
    /\ Moves(r, Unauthenticated(run[r]))
    /\ UNCHANGED <<rotation, host>>
    /\ unchangedClient /\ unchangedGitHub /\ unchangedRevocations /\ unchangedHistory

\* A selection goes on to authenticate again, whatever was found for create.
AfterListing(h) ==
    IF h.operation = "create" \/ (h.operation = "select" /\ h.argument \in h.found)
      THEN [h EXCEPT !.phase = "read", !.again = TRUE]
      ELSE Reply(h, "keep")

SaveList(r) ==
    /\ At(r, "saveList")
    /\ Write(r, Listed(run[r].snapshot, run[r].found))
    /\ Moves(r, AfterListing(run[r]))
    /\ UNCHANGED <<rotation, host>>
    /\ unchangedClient /\ unchangedGitHub /\ unchangedRevocations /\ unchangedHistory

SaveSelection(r) ==
    /\ At(r, "saveSelection")
    /\ Write(r, Choose(run[r].snapshot, run[r].argument))
    /\ Moves(r, Reply(run[r], "keep"))
    /\ UNCHANGED <<rotation, host>>
    /\ unchangedClient /\ unchangedGitHub /\ unchangedRevocations /\ unchangedHistory

------------------------------------------------------------------------------
(* repositoryContext: the installation token a document request works with *)

\* The cached token serves until it expires.
UseCached(r) ==
    /\ At(r, "mint")
    /\ run[r].snapshot.installation # None
    /\ Moves(r, To(run[r], "use"))
    /\ UNCHANGED <<store, rotation, host>>
    /\ unchangedClient /\ unchangedGitHub /\ unchangedRevocations /\ unchangedHistory

Mint(r) ==
    LET h == run[r] IN
    /\ At(r, "mint")
    /\ \/ /\ h.snapshot.repository \in github.installed
          /\ Moves(r, To(h, "saveInstallation"))
       \/ /\ h.snapshot.repository \notin github.installed
          /\ Moves(r, To(h, "clear"))
       \/ Moves(r, Reply(h, "keep"))
    /\ UNCHANGED <<store, rotation, host>>
    /\ unchangedClient /\ unchangedGitHub /\ unchangedRevocations /\ unchangedHistory

SaveInstallation(r) ==
    /\ At(r, "saveInstallation")
    /\ Write(r, [run[r].snapshot EXCEPT !.installation = run[r].snapshot.repository])
    /\ Moves(r, To(run[r], "use"))
    /\ UNCHANGED <<rotation, host>>
    /\ unchangedClient /\ unchangedGitHub /\ unchangedRevocations /\ unchangedHistory

\* The document request itself; what it does is the subject of GitHubStore.
Use(r) ==
    /\ At(r, "use")
    /\ Moves(r, Reply(run[r], "keep"))
    /\ UNCHANGED <<store, rotation, host>>
    /\ unchangedClient /\ unchangedGitHub /\ unchangedRevocations /\ unchangedHistory

\* clearSelectedRepository reads the session again and clears only a choice
\* that is still the one the token was refused for.
AfterClearRead(h, session) ==
    IF session # None /\ session.repository = h.snapshot.repository
      THEN [h EXCEPT !.phase = "saveClear", !.snapshot = session]
      ELSE Reply(h, "keep")

Clear(r) ==
    /\ At(r, "clear")
    /\ Moves(r, AfterClearRead(run[r], Session(r)))
    /\ UNCHANGED <<store, rotation, host>>
    /\ unchangedClient /\ unchangedGitHub /\ unchangedRevocations /\ unchangedHistory

SaveClear(r) ==
    /\ At(r, "saveClear")
    /\ Write(r, Choose(run[r].snapshot, None))
    /\ Moves(r, Reply(run[r], "keep"))
    /\ UNCHANGED <<rotation, host>>
    /\ unchangedClient /\ unchangedGitHub /\ unchangedRevocations /\ unchangedHistory

------------------------------------------------------------------------------
(* disconnect                                                              *)

Delete(r) ==
    /\ At(r, "delete")
    /\ Write(r, None)
    /\ ended' = ended \cup {run[r].session}
    /\ Moves(r, IF IsUser(run[r].snapshot) THEN To(run[r], "revoke")
                                           ELSE Reply(run[r], "clear"))
    /\ UNCHANGED <<rotation, host, completed>>
    /\ unchangedClient /\ unchangedGitHub /\ unchangedRevocations

RevokeToken(r) ==
    /\ At(r, "revoke")
    /\ github' \in {github, [github EXCEPT !.live = @ \ {run[r].snapshot.pair}]}
    /\ Moves(r, Reply(run[r], "clear"))
    /\ UNCHANGED <<store, rotation, host, aged, issued>>
    /\ unchangedClient /\ unchangedRevocations /\ unchangedHistory

------------------------------------------------------------------------------
(* authorizationUrl and completeAuthorization                              *)

Start(r) ==
    /\ At(r, "start")
    /\ starts' = starts + 1
    /\ Write(r, PendingSession(starts + 1))
    /\ Moves(r, Reply(run[r], "keep"))
    /\ UNCHANGED <<cookie, identifiers, calls, events, rotation, host>>
    /\ unchangedGitHub /\ unchangedRevocations /\ unchangedHistory

\* The callback must return the state of the pending authorization. The user
\* may have denied the authorization.
Pending(r) ==
    LET h == run[r] IN
    /\ At(r, "pending")
    /\ IF IsPending(Session(r)) /\ Session(r).state = h.argument
         THEN \E next \in {"abandon", "exchange"} : Moves(r, To(h, next))
         ELSE Moves(r, Reply(h, "clear"))
    /\ UNCHANGED <<store, rotation, host>>
    /\ unchangedClient /\ unchangedGitHub /\ unchangedRevocations /\ unchangedHistory

\* exchangeAuthorizationCode and GET /user; either may fail.
Exchange(r) ==
    LET h == run[r] IN
    /\ At(r, "exchange")
    /\ \/ /\ Issue
          /\ github' = [github EXCEPT !.live = @ \cup {NewPair},
                                      !.fresh = @ \cup {NewPair}]
          /\ \E next \in {"authorize", "abandon"} :
               Moves(r, [h EXCEPT !.phase = next, !.minted = NewPair])
          /\ UNCHANGED aged
       \/ /\ Moves(r, To(h, "abandon"))
          /\ unchangedGitHub
    /\ UNCHANGED <<store, rotation, host>>
    /\ unchangedClient /\ unchangedRevocations /\ unchangedHistory

Authorize(r) ==
    /\ At(r, "authorize")
    /\ Moves(r, [run[r] EXCEPT !.phase = "move",
                               !.snapshot = UserSession(run[r].minted, generation)])
    /\ UNCHANGED <<store, rotation, host>>
    /\ unchangedClient /\ unchangedGitHub /\ unchangedRevocations /\ unchangedHistory

\* move: atomic, and only while something is still stored under the source.
move(sessions, source, replacement, session) ==
    [sessions EXCEPT ![source] = None, ![replacement] = session]

Move(r) ==
    LET h == run[r] IN
    /\ At(r, "move")
    /\ IF Session(r) # None
         THEN /\ store' = move(store, h.session, identifiers + 1, h.snapshot)
              /\ identifiers' = identifiers + 1
              /\ completed' = [completed EXCEPT ![h.argument] = @ + 1]
              /\ Moves(r, Reply([h EXCEPT !.session = identifiers + 1], "set"))
         ELSE /\ Moves(r, To(h, "abandon"))
              /\ UNCHANGED <<store, identifiers, completed>>
    /\ UNCHANGED <<cookie, calls, events, starts, rotation, host, ended>>
    /\ unchangedGitHub /\ unchangedRevocations

Abandon(r) ==
    /\ At(r, "abandon")
    /\ Write(r, None)
    /\ Moves(r, Reply(run[r], "clear"))
    /\ UNCHANGED <<rotation, host>>
    /\ unchangedClient /\ unchangedGitHub /\ unchangedRevocations /\ unchangedHistory

------------------------------------------------------------------------------
(* The webhook and the world around the gateway.                           *)

\* Bounds how often the world acts between the calls of a client.
Event ==
    /\ events < MaxEvents
    /\ events' = events + 1
    /\ UNCHANGED <<cookie, identifiers, calls, starts>>

\* Revocation number d is delivered at least once, at any time after it.
Webhook(d) ==
    /\ d \in 1..github.revocations
    /\ deliveries' = deliveries \cup {d}
    /\ generation' = IF d \in deliveries THEN generation ELSE generation + 1
    /\ UNCHANGED <<store, rotation, host, run>>
    /\ unchangedClient /\ unchangedGitHub /\ unchangedHistory

\* The user revokes the authorization at GitHub: every token of it ends.
UserRevokes ==
    /\ Event
    /\ github.revocations < MaxRevocations
    /\ github' = [github EXCEPT !.live = {}, !.fresh = {},
                                !.revocations = @ + 1]
    /\ UNCHANGED <<store, rotation, host, run, aged, issued>>
    /\ unchangedRevocations /\ unchangedHistory

Uninstall(x) ==
    /\ Event
    /\ x \in github.installed
    /\ github' = [github EXCEPT !.installed = @ \ {x}]
    /\ UNCHANGED <<store, rotation, host, run, aged, issued>>
    /\ unchangedRevocations /\ unchangedHistory

Age(p) ==
    /\ Event
    /\ p \in github.live \ aged
    /\ aged' = aged \cup {p}
    /\ UNCHANGED <<store, rotation, host, run, github, issued>>
    /\ unchangedRevocations /\ unchangedHistory

\* The lifetime of the stored record ends.
Expire(id) ==
    /\ Event
    /\ store[id] # None
    /\ store' = [store EXCEPT ![id] = None]
    /\ UNCHANGED <<rotation, host, run>>
    /\ unchangedGitHub /\ unchangedRevocations /\ unchangedHistory

------------------------------------------------------------------------------
(* The specification.                                                      *)

\* signedOut: no session; pending: an authorization has begun; connected: a
\* session without a repository; chosen: a session that has selected one.
Init ==
    \E beginning \in Beginnings, x \in Repositories, h \in Hosts :
      LET signedIn == beginning \in {"connected", "chosen"}
          known == beginning # "signedOut"
          first == CASE beginning = "pending" -> PendingSession(1)
                     [] beginning = "chosen" -> Choose(UserSession(1, 0), x)
                     [] OTHER -> UserSession(1, 0)
      IN  /\ store = [id \in Identifiers |->
                        IF id = 1 /\ known THEN first ELSE None]
          /\ cookie = IF known THEN 1 ELSE None
          /\ identifiers = IF known THEN 1 ELSE 0
          /\ starts = IF beginning = "pending" THEN 1 ELSE 0
          /\ generation = 0 /\ deliveries = {}
          /\ github = [live |-> IF signedIn THEN {1} ELSE {},
                       fresh |-> IF signedIn THEN {1} ELSE {},
                       installed |-> Repositories, revocations |-> 0]
          /\ aged = {}
          /\ issued = IF signedIn THEN <<0>> ELSE <<>>
          /\ rotation = [p \in Processes |-> [id \in Identifiers |-> None]]
          /\ host = h
          /\ run = [r \in Requests |-> Idle]
          /\ calls = 0 /\ events = 0
          /\ completed = [a \in Authorizations |-> 0]
          /\ ended = {}

Handle(r) ==
    \/ Deliver(r) \/ Read(r) \/ CheckGeneration(r) \/ Drop(r)
    \/ Refresh(r) \/ Rejected(r) \/ Consume(r) \/ Rotated(r) \/ Recheck(r)
    \/ DropRotated(r) \/ RevokeRotated(r) \/ Rotate(r)
    \/ Create(r) \/ List(r) \/ Unauthorized(r) \/ DropExpired(r)
    \/ SaveList(r) \/ SaveSelection(r)
    \/ UseCached(r) \/ Mint(r) \/ SaveInstallation(r) \/ Use(r)
    \/ Clear(r) \/ SaveClear(r)
    \/ Delete(r) \/ RevokeToken(r)
    \/ Start(r) \/ Pending(r) \/ Exchange(r) \/ Authorize(r) \/ Move(r)
    \/ Abandon(r)

Next ==
    \/ \E r \in Requests, o \in Operations : \E a \in Arguments(o) : Begin(r, o, a)
    \/ \E r \in Requests : Handle(r)
    \/ \E d \in 1..MaxRevocations : Webhook(d)
    \/ UserRevokes
    \/ \E x \in Repositories : Uninstall(x)
    \/ \E p \in Pairs : Age(p)
    \/ \E id \in Identifiers : Expire(id)

Spec == Init /\ [][Next]_vars

------------------------------------------------------------------------------
(* Properties.                                                             *)

\* Types of the state.
TypeOK ==
    /\ store \in [Identifiers -> Sessions \cup {None}]
    /\ cookie \in Identifiers \cup {None}
    /\ generation = Cardinality(deliveries)
    /\ github.live \subseteq Pairs /\ github.fresh \subseteq Pairs
    /\ \A r \in Requests : run[r].phase \in Phases

\* A document request that arrives after the webhook has announced a
\* revocation never works on the repository with an authorization older than
\* that revocation (authenticatedState compares generations on every request,
\* rotateUserToken compares them again after the rotation, and a session
\* written back late carries the generation it was read with).
RevokedGrantReachesNoRepository ==
    \A r \in Requests :
      run[r].phase \in {"mint", "saveInstallation", "use"}
        => issued[run[r].snapshot.pair] >= run[r].began

\* The installation token a session keeps was minted for the repository the
\* session has selected, however selections, listings and token requests
\* overlap (repositoryContext writes repository and token together,
\* selectDestination, loadRepositories and clearSelectedRepository drop the
\* token with the choice).
InstallationMatchesRepository ==
    \A id \in Identifiers :
      IsUser(store[id]) /\ store[id].installation # None
        => store[id].installation = store[id].repository

RotationPhases ==
    {"refresh", "rejected", "consume", "rotated", "recheck", "dropRotated",
     "revokeRotated", "rotate"}

\* In one process at most one rotation of a session is under way, and whoever
\* waits for a rotation waits for one that is under way (the map
\* userTokenRefreshes holds it until it settles, whichever way it ends).
RotationsAreShared ==
    \A r \in Requests :
      /\ run[r].phase \in RotationPhases => Rotating(r)
      /\ run[r].phase = "joined" =>
           \E q \in Requests \ {r} :
             /\ rotation[host[r]][run[r].session] = q
             /\ run[q].phase \in RotationPhases
             /\ run[q].session = run[r].session

\* One authorization makes at most one session, also when its callback comes
\* more than once (move finds nothing under the identifier the second time).
AuthorizationUsedOnce == \A a \in Authorizations : completed[a] <= 1

\* What a disconnect deleted stays deleted: no handler that read the session
\* before writes it back.
DisconnectIsFinal == \A id \in ended : ~IsUser(store[id])

\* However requests, webhooks and callbacks overlap, what a session is used
\* with was granted for it: a grant that is not revoked, a token of its
\* repository, one rotation at a time, and one session per authorization
\* (authenticatedState, repositoryContext, refreshAuthenticatedState,
\* completeAuthorization).
GrantsAreSound ==
    /\ RevokedGrantReachesNoRepository
    /\ InstallationMatchesRepository
    /\ RotationsAreShared
    /\ AuthorizationUsedOnce
==============================================================================
