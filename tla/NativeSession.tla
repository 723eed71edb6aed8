---------------------------- MODULE NativeSession ---------------------------
(***************************************************************************)
(* The packaged application's session with the synchronization gateway:    *)
(* the cookie jar the HTTP client uses, the jar the session state refers   *)
(* to, the record in the operating system's credential store, and what a   *)
(* restart makes of it.                                                    *)
(***************************************************************************)
EXTENDS Naturals, FiniteSets

CONSTANTS
    Requests,       \* requests in progress at one time
    Life,           \* MAX_PERSISTED_LIFETIME_MS, also the cookies' lifetime
    MaxTime, MaxCookies, MaxJars, MaxFaults

None == 0
Modes == {"protected", "session-only"}

VARIABLES
    now,
    jars,       \* contents of each jar: [value, until]
    session,    \* SessionState: jar, mode, created, expires
    client,     \* the jar the HTTP client was built with
    record,     \* the credential store's entry
    requests, closed, issued, signedIn, faults, story

vars == <<now, jars, session, client, record, requests, closed, issued, signedIn, faults, story>>

NoCookie == [value |-> None, until |-> 0, path |-> "/"]
NoRecord == [value |-> None, created |-> 0, expires |-> 0]
NoRequest == [pc |-> "none", op |-> "use", jar |-> None, sent |-> None]
NoStory == [failed |-> FALSE, mark |-> 0, crossed |-> FALSE]

(* reqwest's Jar answers with the cookies that are alive. *)
Held(jar) == IF now < jars[jar].until THEN jars[jar].value ELSE None

(* cookies(&self.origin): the cookies that apply to the root path of the   *)
(* origin.  The gateway sets its own for /api/sync/<provider>; only one    *)
(* that restore put back applies to "/".                                   *)
Header(jar) == IF jars[jar].path = "/" THEN Held(jar) ELSE None

fail_closed(jar) == [jar |-> jar, mode |-> "session-only", created |-> 0, expires |-> 0]
Fresh(jar) == [jar |-> jar, mode |-> "protected", created |-> 0, expires |-> 0]

(***************************************************************************)
(* with_protected_store and restore                                        *)
(***************************************************************************)
Restorable(r) ==
    /\ r # NoRecord
    /\ r.created <= now
    /\ now < r.expires
    /\ r.expires - r.created <= Life

Restored(jar, r) == [jar |-> jar, mode |-> "protected", created |-> r.created, expires |-> r.expires]

Fault == faults < MaxFaults /\ faults' = faults + 1

JarsWith(cookie) == [j \in 1 .. MaxJars |-> IF j = 1 THEN cookie ELSE NoCookie]

(* The process starts with an empty jar 1.  A record that cannot be        *)
(* restored is cleared; a store that fails leaves a session without one.   *)
Begin(r) ==
    /\ requests' = [q \in Requests |-> NoRequest]
    /\ closed' = FALSE
    /\ client' = 1
    /\ \/ /\ session' = IF Restorable(r) THEN Restored(1, r) ELSE Fresh(1)
          /\ jars' = JarsWith(IF Restorable(r) THEN [value |-> r.value, until |-> r.expires, path |-> "/"] ELSE NoCookie)
          /\ record' = IF Restorable(r) THEN r ELSE NoRecord
          /\ story' = [NoStory EXCEPT !.mark = issued] /\ UNCHANGED faults
       \/ /\ Fault                    \* load fails, or the clearing does
          /\ session' = fail_closed(1) /\ jars' = JarsWith(NoCookie)
          /\ story' = [NoStory EXCEPT !.failed = TRUE, !.mark = issued] /\ UNCHANGED record

Init ==
    /\ now = 0
    /\ jars = [j \in 1 .. MaxJars |-> NoCookie]
    /\ session = Fresh(1)
    /\ client = 1
    /\ record = NoRecord
    /\ requests = [q \in Requests |-> NoRequest]
    /\ closed = FALSE
    /\ issued = 0 /\ signedIn = None /\ faults = 0
    /\ story = NoStory

Restart ==
    /\ Begin(record)
    /\ UNCHANGED <<now, issued, signedIn>>

Tick ==
    /\ now < MaxTime /\ now' = now + 1
    /\ UNCHANGED <<jars, session, client, record, requests, closed, issued, signedIn, faults, story>>

(***************************************************************************)
(* Requests: the client, and so the jar, is the one of the time they are   *)
(* built                                                                   *)
(***************************************************************************)
Ask(q, op) ==
    /\ ~closed
    /\ requests[q] = NoRequest
    /\ requests' = [requests EXCEPT ![q] = [pc |-> "sent", op |-> op, jar |-> client, sent |-> Held(client)]]
    /\ UNCHANGED <<now, jars, session, client, record, closed, issued, signedIn, faults, story>>

SetCookie(jar, value) == jars' = [jars EXCEPT ![jar] = [value |-> value, until |-> now + Life, path |-> "provider"]]

(* The gateway gives a stranger a session, renews one that is signed in,   *)
(* signs in with a new one and drops the cookie of one that signs out.     *)
Answer(q) ==
    /\ requests[q].pc = "sent"
    /\ LET r == requests[q]
           new == r.op = "signIn" \/ (r.op = "use" /\ r.sent = None)
       IN  /\ new => issued < MaxCookies
           /\ issued' = IF new THEN issued + 1 ELSE issued
           /\ CASE r.op = "signOut" -> jars' = [jars EXCEPT ![r.jar] = NoCookie]
                [] new -> SetCookie(r.jar, issued + 1)
                [] r.op = "use" /\ r.sent # None /\ r.sent = signedIn -> SetCookie(r.jar, r.sent)
                [] OTHER -> UNCHANGED jars
           /\ signedIn' = CASE r.op = "signIn" -> issued + 1
                            [] r.op = "signOut" /\ r.sent = signedIn -> None
                            [] OTHER -> signedIn
           /\ story' = [story EXCEPT !.crossed =
                CASE r.op = "signIn" -> r.jar # client
                  [] r.op = "use" -> story.crossed \/ (new /\ signedIn # None)
                  [] OTHER -> story.crossed \/ r.sent # signedIn]
    /\ requests' = [requests EXCEPT ![q].pc = "answered"]
    /\ UNCHANGED <<now, session, client, record, closed, faults>>

(* A new jar.  One that only the session state refers to stays empty, so   *)
(* the next new jar is again that one.                                     *)
NextJar == IF session.jar = client THEN session.jar + 1 ELSE session.jar

\* Mutant: the client is built again with the session state's jar.
ClearRecordAnew ==
    /\ record' = NoRecord
    /\ NextJar <= MaxJars
    /\ session' = Fresh(NextJar)
    /\ client' = NextJar

(* persist with nothing to keep: the record goes, and the session state    *)
(* takes a new jar; the client keeps the one it has.                       *)
ClearRecord ==
    /\ record' = NoRecord
    /\ NextJar <= MaxJars
    /\ session' = Fresh(NextJar)
    /\ UNCHANGED client

StoreRecord(value) ==
    LET created == IF session.expires = 0 THEN now ELSE session.created
        expires == IF session.expires = 0 THEN now + Life ELSE session.expires
    IN  /\ record' = [value |-> value, created |-> created, expires |-> expires]
        /\ session' = [session EXCEPT !.created = created, !.expires = expires]
        /\ UNCHANGED client

(* The store fails: the state forgets its authority and the client is      *)
(* built again from it; the record stays what it was.                      *)
PersistFails ==
    /\ NextJar <= MaxJars
    /\ session' = fail_closed(NextJar)
    /\ client' = NextJar
    /\ story' = [story EXCEPT !.failed = TRUE, !.mark = issued]
    /\ UNCHANGED record

(* persist_session, after every response. *)
Persist(q) ==
    /\ requests[q].pc = "answered"
    /\ requests' = [requests EXCEPT ![q] = NoRequest]
    /\ LET header == Header(session.jar)
           kept == header # None /\ (session.expires = 0 \/ now < session.expires)
       IN  \/ session.mode = "session-only" /\ UNCHANGED <<session, client, record, faults, story>>
           \/ /\ session.mode = "protected"
              /\ IF kept THEN StoreRecord(header) ELSE ClearRecord
              /\ UNCHANGED <<faults, story>>
           \/ session.mode = "protected" /\ Fault /\ PersistFails
    /\ UNCHANGED <<now, jars, closed, issued, signedIn>>

(* The request fails or is cancelled before its answer. *)
Drop(q) ==
    /\ requests[q].pc = "sent"
    /\ requests' = [requests EXCEPT ![q] = NoRequest]
    /\ UNCHANGED <<now, jars, session, client, record, closed, issued, signedIn, faults, story>>

(* teardown: requests are cancelled, the state and the client get a new    *)
(* jar; the record stays for the next start.                               *)
Teardown ==
    /\ ~closed /\ closed' = TRUE
    /\ NextJar <= MaxJars
    /\ session' = [session EXCEPT !.jar = NextJar]
    /\ client' = NextJar
    /\ requests' = [q \in Requests |-> IF requests[q].pc = "sent" THEN NoRequest ELSE requests[q]]
    /\ UNCHANGED <<now, jars, record, issued, signedIn, faults, story>>

Next ==
    \/ \E q \in Requests :
         \/ \E op \in {"use", "signIn", "signOut"} : Ask(q, op)
         \/ Answer(q) \/ Persist(q) \/ Drop(q)
    \/ Restart \/ Teardown \/ Tick

Spec == Init /\ [][Next]_vars

(***************************************************************************)
(* Properties                                                              *)
(***************************************************************************)
TypeOK ==
    /\ now \in 0 .. MaxTime
    /\ session.mode \in Modes
    /\ session.jar \in 1 .. MaxJars /\ client \in 1 .. MaxJars
    /\ record.value \in 0 .. issued

Quiet == \A q \in Requests : requests[q] = NoRequest

(* After the credential store failed, no request sends a cookie the        *)
(* process had before: authority that cannot be kept is forgotten.         *)
FailureForgets ==
    story.failed => \A q \in Requests :
        requests[q].pc = "sent" /\ requests[q].jar = client =>
          requests[q].sent = None \/ requests[q].sent > story.mark

(* A host that reports protected persistence has the session it is signed  *)
(* in with in the store when no request is in progress.                    *)
ProtectedMeansKept ==
    (/\ session.mode = "protected" /\ ~closed /\ Quiet
     /\ signedIn # None /\ Held(client) = signedIn)
      => record.value = signedIn

(* persist replaces the session state's jar after every response, because  *)
(* it sees no cookie of the gateway; the client goes on sending the        *)
(* session it is signed in with nevertheless, for as long as the process   *)
(* and the credential store last.  An answer to a request that was sent    *)
(* before the sign-in, or with a jar given up since, may take it away      *)
(* (story.crossed).                                                        *)
SurvivesResponses ==
    signedIn > story.mark /\ ~story.crossed /\ ~closed => jars[client].value = signedIn

\* What the client sends is the session of this process: kept over every
\* response, although the record is cleared after each, and forgotten when the
\* credential store fails (persist_session, SessionPersistence::persist).
AuthorityIsTrue ==
    /\ SurvivesResponses
    /\ FailureForgets
=============================================================================
