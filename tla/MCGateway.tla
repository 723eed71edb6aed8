------------------------------ MODULE MCGateway ------------------------------
(*****************************************************************************)
(* Small instances of the gateway and its clients: the GitHub adapter, the   *)
(* session records and the sessions, the routes with the two clients of the  *)
(* application, the settings that choose a destination, and the native       *)
(* host's broker and session.  One of them is there in a behaviour.          *)
(*****************************************************************************)
EXTENDS MCGitHubStore, TLC

CONSTANTS Null, c1, c2, i1, i2, q1, q2, git, mega

VARIABLES
    part,  \* the component that is there
    v1, v2, v3, v4, v5, v6, v7, v8, v9, v10, v11, v12, v13, v14, v15, v16  \* its variables

parts == <<part, v1, v2, v3, v4, v5, v6, v7, v8, v9, v10, v11, v12, v13, v14,
           v15, v16, vars>>

Symmetry == Permutations({c1, c2}) \cup Permutations({i1, i2}) \cup Permutations({q1, q2})

SessionCalls ==
       [name : {"get", "take", "delete"}, id : {i1, i2}, to : {Null}, value : {Null}]
  \cup [name : {"set"}, id : {i1, i2}, to : {Null}, value : {b}]
  \cup {c \in [name : {"move"}, id : {i1, i2}, to : {i1, i2}, value : {b}] : c.id # c.to}

\* The keys of each store may have been rotated.
SessionStores == [kind : {"memory", "redis", "file"}, seals : {{"current", "previous", "lost"}}]

Keeping == INSTANCE SessionStore WITH
    Callers <- {c1, c2}, Identifiers <- {i1, i2}, Values <- {a},
    Calls <- SessionCalls, Stores <- SessionStores, MaxCalls <- 2,
    MaxRestarts <- 1, MaxExpiries <- 1, None <- Null, kind <- v1,
    records <- v2, expired <- v3, run <- v4, turn <- v5, calls <- v6,
    restarts <- v7, expiries <- v8

Sessions == INSTANCE GatewaySessions WITH
    Requests <- {c1, c2}, Repositories <- {q1, q2},
    Hosts <- {h \in [{c1, c2} -> {1, 2}] : 1 \in {h[c1], h[c2]}},
    Operations <- {"session", "destinations", "select", "create", "document", "disconnect", "start", "callback"},
    Beginnings <- {"signedOut", "pending", "connected", "chosen"},
    MaxCalls <- 2, MaxPairs <- 2, MaxRevocations <- 1, MaxEvents <- 1,
    None <- Null, store <- v1, cookie <- v2, identifiers <- v3,
    generation <- v4, deliveries <- v5, github <- v6, aged <- v7,
    issued <- v8, rotation <- v9, host <- v10, run <- v11, calls <- v12,
    events <- v13, starts <- v14, completed <- v15, ended <- v16

Transport == INSTANCE GatewayTransport WITH
    Calls <- {"revision", "list", "entries", "read", "write", "deleteDocument", "deleteEntry", "deleteEntries", "head", "download", "upload", "deleteObject"},
    Disturbances <- {"write", "delete", "object", "empty", "percent", "out", "unselected"},
    MaxCalls <- 2, MaxEvents <- 2, MaxRevision <- 3, provider <- v1,
    host <- v2, session <- v3, remote <- v4, known <- v5, call <- v6,
    calls <- v7, events <- v8

Broker == INSTANCE NativeBroker WITH
    Providers <- {git, mega}, MaxCalls <- 3, MaxRequests <- 2,
    MaxTransfers <- 1, Chunks <- 1, MaxFaults <- 1, calls <- v1,
    sequence <- v2, cancels <- v3, requests <- v4, signalled <- v5,
    downloads <- v6, uploads <- v7, files <- v8, active <- v9, closed <- v10,
    closing <- v11, faults <- v12, harmed <- v13

Session == INSTANCE NativeSession WITH
    Requests <- {c1, c2}, Life <- 1, MaxTime <- 2, MaxCookies <- 2,
    MaxJars <- 3, MaxFaults <- 1, now <- v1, jars <- v2, session <- v3,
    client <- v4, record <- v5, requests <- v6, closed <- v7, issued <- v8,
    signedIn <- v9, faults <- v10, story <- v11

Settings == INSTANCE SyncSettings WITH
    Hosts <- {"browser", "native"}, Accessible <- [git |-> {1}, mega |-> {1}],
    Operations <- {"open", "choose", "connect", "select", "create", "refresh", "disconnect", "leave"},
    MaxActs <- 2, MaxEvents <- 1, host <- v1, gateway <- v2, accessible <- v3,
    memory <- v4, selection <- v5, page <- v6, conn <- v7, tasks <- v8,
    pass <- v9, checkpoint <- v10, acts <- v11, events <- v12, story <- v13

\* The repository while another component is there.
Rest == Init /\ head = 0

PartsInit ==
    \/ part = "github" /\ Init
       /\ v1 = "absent" /\ v2 = "absent" /\ v3 = "absent" /\ v4 = "absent"
       /\ v5 = "absent" /\ v6 = "absent" /\ v7 = "absent" /\ v8 = "absent"
       /\ v9 = "absent" /\ v10 = "absent" /\ v11 = "absent" /\ v12 = "absent"
       /\ v13 = "absent" /\ v14 = "absent" /\ v15 = "absent" /\ v16 = "absent"
    \/ part = "keeping" /\ Keeping!Init /\ Rest
       /\ v9 = "absent" /\ v10 = "absent" /\ v11 = "absent" /\ v12 = "absent"
       /\ v13 = "absent" /\ v14 = "absent" /\ v15 = "absent" /\ v16 = "absent"
    \/ part = "sessions" /\ Sessions!Init /\ Rest
    \/ part = "transport" /\ Transport!Init /\ Rest
       /\ v9 = "absent" /\ v10 = "absent" /\ v11 = "absent" /\ v12 = "absent"
       /\ v13 = "absent" /\ v14 = "absent" /\ v15 = "absent" /\ v16 = "absent"
    \/ part = "broker" /\ Broker!Init /\ Rest
       /\ v14 = "absent" /\ v15 = "absent" /\ v16 = "absent"
    \/ part = "session" /\ Session!Init /\ Rest
       /\ v12 = "absent" /\ v13 = "absent" /\ v14 = "absent" /\ v15 = "absent"
       /\ v16 = "absent"
    \/ part = "settings" /\ Settings!Init /\ Rest
       /\ v14 = "absent" /\ v15 = "absent" /\ v16 = "absent"

PartsNext ==
    \/ part = "github" /\ Next /\ UNCHANGED <<part, v1, v2, v3, v4, v5, v6, v7, v8, v9, v10, v11, v12, v13, v14, v15, v16>>
    \/ part = "keeping" /\ Keeping!Next /\ UNCHANGED <<part, v9, v10, v11,
                    v12, v13, v14, v15, v16, vars>>
    \/ part = "sessions" /\ Sessions!Next /\ UNCHANGED <<part, vars>>
    \/ part = "transport" /\ Transport!Next /\ UNCHANGED <<part, v9, v10, v11,
                    v12, v13, v14, v15, v16, vars>>
    \/ part = "broker" /\ Broker!Next /\ UNCHANGED <<part, v14, v15, v16, vars>>
    \/ part = "session" /\ Session!Next /\ UNCHANGED <<part, v12, v13, v14,
                    v15, v16, vars>>
    \/ part = "settings" /\ Settings!Next /\ UNCHANGED <<part, v14, v15, v16,
                    vars>>

PartsSpec == PartsInit /\ [][PartsNext]_parts

------------------------------------------------------------------------------
\* The GitHub adapter implements the store it promises: every call takes effect
\* at one instant, on the revision it named, or not at all, whatever other
\* calls do between its requests to GitHub (Implements of GitHubStore).
StoreKept ==
    /\ part = "github" => Store!StoreInit
    /\ [][part = "github" => [Store!StoreNext]_(Store!storeVars)]_parts

\* The store keeps the map of sessions it promises: every call takes effect at
\* one instant between its start and its answer, or not at all, whatever other
\* calls, failures, restarts and expiries do, with the exception SessionMap
\* states for a record sealed with a previous key (session-store.ts: get, set,
\* take, move and delete of each store).
ImplementsMap ==
    /\ part = "keeping" => Keeping!Map!SInit
    /\ [][part = "keeping" => [Keeping!Map!SNext]_(Keeping!Map!svars)]_parts

\* However requests, webhooks and callbacks overlap, what a session is used
\* with was granted for it: a grant that is not revoked, a token of its
\* repository, one rotation at a time, and one session per authorization
\* (authenticatedState, repositoryContext, refreshAuthenticatedState,
\* completeAuthorization).
GrantsAreSound == part = "sessions" => Sessions!GrantsAreSound

\* What a worker is told on either host is what happened at the provider: no
\* absence that a failure faked, no success without its effect, and the same
\* answer from the browser and the native client, with the exceptions above.
RepliesAreTrue == part = "transport" => Transport!RepliesAreTrue

\* Every way a request ends gives back what it held, and a cancellation touches
\* only requests of its own number (cancel, finish_request, the transfer maps).
NothingIsHeld == part = "broker" => Broker!NothingIsHeld

\* What the client sends is the session of this process: kept over every
\* response, although the record is cleared after each, and forgotten when the
\* credential store fails (persist_session, SessionPersistence::persist).
AuthorityIsTrue == part = "session" => Session!AuthorityIsTrue

\* Once the replies are in, the status, the page, the checkpoint and the
\* remembered repository are those of the destination that was chosen last,
\* unless something changed there that the application could not know.
SettingsSettle == part = "settings" => Settings!SettingsSettle

==============================================================================
