-------------------------- MODULE GatewayTransport --------------------------
(***************************************************************************)
(* What a synchronization worker learns from a call of its transport.  The *)
(* same call goes through one of three clients -- the browser's GitHub and *)
(* MEGA gateway clients, and the webview transport over the native broker  *)
(* -- to the gateway's routes and an adapter, whose store is abstract here *)
(* (GitHubStore and MegaStore model it).  Meanwhile another device changes *)
(* the destination, the session loses its destination or its sign-in, and  *)
(* requests fail.                                                          *)
(***************************************************************************)
EXTENDS Naturals, FiniteSets

CONSTANTS
    Calls,      \* the operations that are called
    Disturbances,
    MaxCalls, MaxEvents,
    MaxRevision \* bound on the revisions of the document

VARIABLES
    provider, host,
    session,    \* the gateway's session
    remote,     \* revision of the document, content of the object, a stray file
    known,      \* what the worker last learnt of the document and the object
    call, calls, events

vars == <<provider, host, session, remote, known, call, calls, events>>

Missing == 0
Place(op) == IF op \in {"head", "download", "upload", "deleteObject"} THEN "obj" ELSE "doc"
Deletions == {"deleteDocument", "deleteEntry", "deleteEntries", "deleteObject"}
Lookups == {"read", "head", "download"}
Listings == {"list", "entries"}

\* Only these carry an abort signal of the worker.
Abortable == {"revision", "download", "upload"}

(* What a call ends with: a result, or an error that the workers and the   *)
(* scheduler tell apart.  The bytes of a page are a result for a client    *)
(* that does not look at them.                                             *)
Fate(kind, delay) == [kind |-> kind, delay |-> delay]
Failed == Fate("failed", 0)
Denied == Fate("denied", 0)
Aborted == Fate("aborted", 0)
PageBytes == Fate("page", 0)
Conflict == Fate("conflict", 0)
Done == Fate("done", 0)
Nothing == Fate("absent", 0)
Value == Fate("value", 0)

(***************************************************************************)
(* The gateway                                                             *)
(***************************************************************************)
Reply(status, items, delay) == [status |-> status, items |-> items, delay |-> delay]

\* No reply reaches the client: the connection breaks, or the call is aborted.
Lost == Reply(0, {}, 0)
AbortedReply == Reply(1, {}, 0)
Arrived(reply) == reply \notin {Lost, AbortedReply}

(* The adapters' answer before they reach a store. *)
GitHubContext(s) == CASE s = "out" -> 401 [] s = "unselected" -> 404 [] OTHER -> 200
MegaContext(s) == CASE s = "out" -> 401 [] s = "unselected" -> 409 [] OTHER -> 200
Unconfigured == 503

Context ==
    IF session = "unconfigured" THEN Unconfigured
    ELSE IF provider = "github" THEN GitHubContext(session) ELSE MegaContext(session)

(* The store's verdict on a call. *)
Refused(op, expected) ==
    LET current == remote[Place(op)] IN
    \/ op = "write" /\ expected # current
    \/ op = "upload" /\ current # Missing /\ current # 1      \* another publication is at that path
    \/ op \in Deletions /\ current # Missing /\ expected # Missing /\ expected # current

Stored(op) ==
    CASE op = "write"    -> [remote EXCEPT !.doc = @ + 1]
      [] op = "upload"   -> [remote EXCEPT !.obj = 1]
      [] op \in Deletions -> [remote EXCEPT ![Place(op)] = Missing]
      [] OTHER           -> remote

Listed(op) ==
    {x \in {"doc"} : remote.doc # Missing}
      \cup {x \in {"obj"} : op = "entries" /\ remote.obj # Missing}
      \cup {x \in {remote.stray} : x # "none"}

(* The routes: an optional lookup of what is not there is 204, a download  *)
(* of it is 404, and a deletion has no body.                               *)
RouteDocument(op) ==
    CASE op = "read" /\ remote.doc = Missing -> Reply(204, {}, 0)
      [] op \in Deletions                   -> Reply(204, {}, 0)
      [] op \in Listings                    -> Reply(200, Listed(op), 0)
      [] op = "revision" /\ provider = "mega" -> Reply(404, {}, 0)    \* no such route
      [] OTHER                              -> Reply(200, {"doc"}, 0)

RouteObject(op) ==
    CASE op = "head" /\ remote.obj = Missing     -> Reply(204, {}, 0)
      [] op = "download" /\ remote.obj = Missing -> Reply(404, {}, 0)
      [] op = "deleteObject"                    -> Reply(204, {}, 0)
      [] OTHER                                  -> Reply(200, {"obj"}, 0)

Route(op) == IF Place(op) = "obj" THEN RouteObject(op) ELSE RouteDocument(op)

(***************************************************************************)
(* The browser's clients                                                   *)
(***************************************************************************)
Ok(reply) == reply.status \in 200 .. 299

GitHubGatewayError(reply) ==
    CASE reply.status = 429         -> Fate("limited", reply.delay)
      [] reply.status \in {401, 403} -> Denied
      [] OTHER                      -> Failed

MegaGatewayError(reply) ==
    CASE reply.status = 429         -> Fate("limited", 0)
      [] reply.status \in {401, 403} -> Denied
      [] OTHER                      -> Failed

(* responseJson and the type guards refuse a page that is not JSON.  A     *)
(* stray file is a document like another to them.                          *)
Parsed(reply) == IF "page" \in reply.items THEN Failed ELSE Value

(* A download looks at neither the type nor the digest of the reply.       *)
browserObjectDownloadBlob(reply) == IF "page" \in reply.items THEN PageBytes ELSE Value

\* Mutant: what is not a document is taken for an absent one.
GitHubDocumentLenient(op, reply) ==
    CASE op = "read" /\ (reply.status \in {204, 404} \/ "page" \in reply.items) -> Nothing
      [] reply.status = 409 /\ op \in Deletions \cup {"write"} -> Conflict
      [] op \in {"deleteDocument", "deleteEntry"} /\ reply.status = 404 -> Done
      [] ~Ok(reply) -> GitHubGatewayError(reply)
      [] op \in Deletions -> Done
      [] OTHER -> Parsed(reply)

GitHubDocument(op, reply) ==
    CASE op = "read" /\ reply.status \in {204, 404} -> Nothing
      [] reply.status = 409 /\ op \in Deletions \cup {"write"} -> Conflict
      [] op \in {"deleteDocument", "deleteEntry"} /\ reply.status = 404 -> Done
      [] ~Ok(reply) -> GitHubGatewayError(reply)
      [] op \in Deletions -> Done
      [] OTHER -> Parsed(reply)

GitHubObject(op, reply) ==
    CASE op = "head" /\ reply.status \in {204, 404} -> Nothing
      [] reply.status = 409 /\ op \in {"upload", "deleteObject"} -> Conflict
      [] op = "deleteObject" /\ reply.status = 404 -> Done
      [] ~Ok(reply) -> GitHubGatewayError(reply)
      [] op = "deleteObject" -> Done
      [] op = "download" -> browserObjectDownloadBlob(reply)
      [] OTHER -> Parsed(reply)

MegaDocument(op, reply) ==
    CASE op = "read" /\ reply.status \in {204, 404} -> Nothing
      [] reply.status = 409 /\ op \in Deletions \cup {"write"} -> Conflict
      [] op \in {"deleteDocument", "deleteEntry"} /\ reply.status = 404 -> Done
      [] ~Ok(reply) -> MegaGatewayError(reply)
      [] op \in Deletions -> Done
      [] OTHER -> Parsed(reply)

MegaObject(op, reply) ==
    CASE op = "head" /\ reply.status \in {204, 404} -> Nothing
      [] reply.status = 409 /\ op \in {"upload", "deleteObject"} -> Conflict
      [] op = "deleteObject" /\ reply.status = 404 -> Done
      [] ~Ok(reply) -> MegaGatewayError(reply)
      [] op = "deleteObject" -> Done
      [] op = "download" -> browserObjectDownloadBlob(reply)
      [] OTHER -> Parsed(reply)

(* MEGA has no revision call: SelectedLibrarySyncTransport and the broker  *)
(* answer null for it.                                                     *)
NoSuchCall(op) == op = "revision" /\ provider = "mega"

(* The fetch rejects when nothing arrives. *)
Browser(op, reply) ==
    CASE NoSuchCall(op) -> Nothing
      [] ~Arrived(reply) -> IF reply = Lost THEN Failed ELSE Aborted
      [] Arrived(reply) /\ provider = "github" ->
            IF Place(op) = "obj" THEN GitHubObject(op, reply) ELSE GitHubDocument(op, reply)
      [] Arrived(reply) /\ provider = "mega" ->
            IF Place(op) = "obj" THEN MegaObject(op, reply) ELSE MegaDocument(op, reply)

(***************************************************************************)
(* The packaged applications' transport                                    *)
(***************************************************************************)
(* The broker answers with a result or with an error code. *)
Code(code) == Fate(code, 0)
InvalidResponse == Code("invalid-response")

status_error(reply) ==
    CASE reply.status = 401 -> Code("authentication-required")
      [] reply.status = 403 -> Code("permission-denied")
      [] reply.status = 409 -> Code("conflict")
      [] reply.status = 429 -> Fate("rate-limited", reply.delay)
      [] reply.status >= 500 -> Code("transport-unavailable")
      [] OTHER              -> InvalidResponse

(* Unlike the browser's clients the broker refuses a path with an unsafe   *)
(* percent sign, and a document without content.                           *)
validate_path(item) == item # "percent"
validate_text(item) == item # "empty"
ensure_json_content_type(reply) == "page" \notin reply.items

validate_documents(reply) ==
    ensure_json_content_type(reply) /\ \A item \in reply.items : validate_path(item) /\ validate_text(item)
validate_entries(reply) == ensure_json_content_type(reply) /\ \A item \in reply.items : validate_path(item)

Validated(op, reply) ==
    IF IF op = "entries" THEN validate_entries(reply) ELSE validate_documents(reply)
    THEN Value ELSE InvalidResponse

BrokerWrite(op, reply) ==
    CASE reply.status = 409 -> Code("conflict")
      [] op = "deleteDocument" /\ reply.status = 404 -> Done
      [] ~Ok(reply) -> status_error(reply)
      [] op = "deleteDocument" -> Done
      [] OTHER -> Validated(op, reply)

BrokerDocument(op, reply) ==
    CASE op = "read" /\ reply.status \in {204, 404} -> Nothing
      [] reply.status = 409 /\ op \in Deletions -> Code("conflict")
      [] op = "deleteEntry" /\ reply.status = 404 -> Done
      [] ~Ok(reply) -> status_error(reply)
      [] op \in Deletions -> Done
      [] OTHER -> Validated(op, reply)

BrokerDeleteObject(reply) ==
    CASE reply.status = 404 -> Done
      [] ~Ok(reply) -> status_error(reply)
      [] OTHER -> Done

(* sync_download_begin wants the digest and the type of a publication.     *)
validate_download(reply) == "page" \notin reply.items

BrokerObject(op, reply) ==
    CASE op = "head" /\ reply.status \in {204, 404} -> Nothing
      [] ~Ok(reply) -> status_error(reply)
      [] op = "download" -> IF validate_download(reply) THEN Value ELSE InvalidResponse
      [] OTHER -> Validated(op, reply)

request_error(reply) == Code(IF reply = Lost THEN "transport-unavailable" ELSE "cancelled")

Broker(op, reply) ==
    CASE NoSuchCall(op)                    -> Nothing
      [] ~Arrived(reply)                   -> request_error(reply)
      [] Arrived(reply) /\ op \in {"write", "deleteDocument"} -> BrokerWrite(op, reply)
      [] Arrived(reply) /\ op = "deleteObject" -> BrokerDeleteObject(reply)
      [] Arrived(reply) /\ op \in {"head", "download", "upload"} -> BrokerObject(op, reply)
      [] OTHER                             -> BrokerDocument(op, reply)

(* The codes that are no failure of their own; a rate limit keeps its delay. *)
mapNativeError(fate) ==
    CASE fate.kind = "conflict"     -> Conflict
      [] fate.kind = "cancelled"    -> Aborted
      [] fate.kind = "rate-limited" -> Fate("limited", fate.delay)
      [] fate.kind \in {"authentication-required", "permission-denied"} -> Denied
      [] OTHER                      -> Failed

Native(op, reply) ==
    LET fate == Broker(op, reply)
    IN IF fate \in {Value, Done, Nothing} THEN fate ELSE mapNativeError(fate)

(***************************************************************************)
(* A call                                                                  *)
(***************************************************************************)
Idle == [pc |-> "none", op |-> "none", expected |-> Missing, reply |-> Reply(200, {}, 0),
         session |-> "selected", before |-> [doc |-> 0, obj |-> 0, stray |-> "none"],
         after |-> [doc |-> 0, obj |-> 0, stray |-> "none"], fate |-> Done]

Init ==
    /\ provider \in {"github", "mega"} /\ host \in {"browser", "native"}
    /\ session \in {"selected", "unconfigured"}
    /\ remote \in [doc : {0, 1}, obj : {0, 1}, stray : {"none"}]
    /\ known = [doc |-> Missing, obj |-> Missing]
    /\ call = Idle /\ calls = 0 /\ events = 0

(* Writes and deletions carry the revision the worker knows. *)
Ask(op) ==
    /\ call.pc \in {"none", "over"} /\ calls < MaxCalls
    /\ op = "deleteEntry" \/ op = "deleteEntries" => known.doc # Missing
    /\ call' = [Idle EXCEPT !.pc = "sent", !.op = op,
                            !.expected = IF op \in {"write"} \cup Deletions THEN known[Place(op)] ELSE Missing]
    /\ calls' = calls + 1
    /\ UNCHANGED <<provider, host, session, remote, known, events>>

(* The gateway serves the request. *)
Serve ==
    /\ call.pc = "sent" /\ remote.doc < MaxRevision
    /\ LET refused == Context # 200 \/ Refused(call.op, call.expected)
           reply == IF Context # 200 THEN Reply(Context, {}, 0)
                    ELSE IF refused THEN Reply(409, {}, 0) ELSE Route(call.op)
       IN /\ remote' = IF refused THEN remote ELSE Stored(call.op)
          /\ call' = [call EXCEPT !.pc = "replied", !.reply = reply, !.session = session,
                                  !.before = remote, !.after = remote']
    /\ UNCHANGED <<provider, host, session, known, calls, events>>

(* The provider fails or limits the request; the gateway passes it on. *)
ProviderRefuses ==
    /\ call.pc = "sent" /\ session = "selected" /\ events < MaxEvents
    /\ \E reply \in {Reply(502, {}, 0), Reply(429, {}, IF provider = "github" THEN 5 ELSE 0), Reply(403, {}, 0)} :
          call' = [call EXCEPT !.pc = "replied", !.reply = reply, !.before = remote, !.after = remote]
    /\ events' = events + 1
    /\ UNCHANGED <<provider, host, session, remote, known, calls>>

(* A proxy before the gateway answers a request for data with a page. *)
ProxyAnswers ==
    /\ call.pc = "sent" /\ call.op \in Lookups \cup Listings \cup {"revision"} /\ events < MaxEvents
    /\ call' = [call EXCEPT !.pc = "replied", !.reply = Reply(200, {"page"}, 0), !.before = remote, !.after = remote]
    /\ events' = events + 1
    /\ UNCHANGED <<provider, host, session, remote, known, calls>>

(* The reply is lost: the worker cannot tell whether it was served. *)
LoseReply ==
    /\ call.pc = "replied" /\ Arrived(call.reply) /\ events < MaxEvents
    /\ call' = [call EXCEPT !.reply = Lost]
    /\ events' = events + 1
    /\ UNCHANGED <<provider, host, session, remote, known, calls>>

(* The worker's signal aborts the call, before or after it was served. *)
AbortCall ==
    /\ call.pc \in {"sent", "replied"} /\ call.op \in Abortable /\ Arrived(call.reply) /\ events < MaxEvents
    /\ call' = IF call.pc = "replied" THEN [call EXCEPT !.reply = AbortedReply]
               ELSE [call EXCEPT !.pc = "replied", !.reply = AbortedReply, !.before = remote, !.after = remote]
    /\ events' = events + 1
    /\ UNCHANGED <<provider, host, session, remote, known, calls>>

(* What the worker knows afterwards. *)
Learnt(c, fate) ==
    LET place == Place(c.op) IN
    CASE fate.kind = "absent" /\ c.op \in Lookups -> [known EXCEPT ![place] = Missing]
      [] fate.kind = "done" /\ c.op \in Deletions -> [known EXCEPT ![place] = Missing]
      [] fate.kind = "value" /\ c.op \in {"read", "write", "head", "upload"} -> [known EXCEPT ![place] = c.after[place]]
      [] fate.kind = "value" /\ c.op \in Listings -> [known EXCEPT !.doc = c.after.doc]
      [] OTHER -> known

Answer ==
    /\ call.pc = "replied"
    /\ LET fate == IF host = "browser" THEN Browser(call.op, call.reply) ELSE Native(call.op, call.reply)
       IN /\ call' = [call EXCEPT !.pc = "over", !.fate = fate]
          /\ known' = Learnt(call, fate)
    /\ UNCHANGED <<provider, host, session, remote, calls, events>>

(***************************************************************************)
(* The world                                                               *)
(***************************************************************************)
Disturb(kind) ==
    /\ kind \in Disturbances /\ events < MaxEvents /\ events' = events + 1
    /\ CASE kind = "write"  -> remote' = [remote EXCEPT !.doc = @ + 1] /\ remote.doc < MaxRevision /\ UNCHANGED session
         [] kind = "delete" -> remote' = [remote EXCEPT !.doc = 0, !.obj = 0] /\ UNCHANGED session
         [] kind = "object" -> remote' = [remote EXCEPT !.obj = 2] /\ UNCHANGED session
         [] kind \in {"empty", "percent"} -> remote' = [remote EXCEPT !.stray = kind] /\ UNCHANGED session
         [] kind \in {"out", "unselected"} -> session = "selected" /\ session' = kind /\ UNCHANGED remote
    /\ UNCHANGED <<provider, host, known, call, calls>>

Next ==
    \/ \E op \in Calls : Ask(op)
    \/ Serve \/ ProviderRefuses \/ ProxyAnswers \/ LoseReply \/ AbortCall \/ Answer
    \/ \E kind \in Disturbances : Disturb(kind)

Spec == Init /\ [][Next]_vars

(***************************************************************************)
(* Properties                                                              *)
(***************************************************************************)
Over == call.pc = "over"

(* A worker is told that a document or an object is absent, or that its    *)
(* deletion is done, only when the destination did not hold it once the    *)
(* gateway had served the call -- except on GitHub while the session has   *)
(* no repository, see AbsenceIsReal.                                       *)
AbsenceIsSeen ==
    Over /\ call.fate \in {Nothing, Done} /\ call.op \in Lookups \cup Deletions
      => call.after[Place(call.op)] = Missing \/ call.session = "unselected"

(* The same without the exception: an absent answer and a deletion that is *)
(* done always mean that the destination does not hold the entry.          *)
AbsenceIsReal ==
    Over /\ call.fate \in {Nothing, Done} /\ call.op \in Lookups \cup Deletions
      => call.after[Place(call.op)] = Missing

(* A write or an upload the worker is told succeeded is what the           *)
(* destination holds, and replaced exactly the revision the worker knew;   *)
(* a conflict, a denial and a rate limit mean that nothing was changed.    *)
ToldWhatHappened ==
    Over =>
      /\ call.fate = Value /\ call.op = "write" => call.before.doc = call.expected /\ call.after.doc = call.expected + 1
      /\ call.fate = Value /\ call.op = "upload" => call.after.obj = 1 /\ call.before.obj \in {Missing, 1}
      /\ call.fate.kind \in {"conflict", "denied", "limited"} => call.after = call.before

(* A stray file without content or with a percent sign in its name fails   *)
(* the listings of the packaged applications alone; a 409 to a call that   *)
(* changes nothing -- a MEGA session without a folder -- is a conflict to  *)
(* them alone; and the page of a proxy that answers a download is refused  *)
(* by them, while the browser hands its bytes to the worker, whose         *)
(* repository hashes what it stores.                                       *)
KnownDifference(op, reply) ==
    \/ reply.items \cap {"empty", "percent"} # {}
    \/ reply.status = 409 /\ op \in Lookups \cup Listings
    \/ "page" \in reply.items /\ op = "download"

(* The browser's clients and the packaged transport make the same of every *)
(* reply, of a lost one and of an aborted call (mapNativeError), except    *)
(* for the differences just named: which host a worker runs on does not    *)
(* decide whether it retries, waits, merges again, or takes an entry for   *)
(* absent.                                                                 *)
HostsAgree ==
    call.pc = "replied" /\ ~KnownDifference(call.op, call.reply)
      => Browser(call.op, call.reply) = Native(call.op, call.reply)

\* What a worker is told on either host is what happened at the provider: no
\* absence that a failure faked, no success without its effect, and the same
\* answer from the browser and the native client, with the exceptions above.
RepliesAreTrue ==
    /\ AbsenceIsSeen
    /\ ToldWhatHappened
    /\ HostsAgree
=============================================================================
