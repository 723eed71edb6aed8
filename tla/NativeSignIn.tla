---------------------------- MODULE NativeSignIn ----------------------------
(***************************************************************************)
(* Signing in from the packaged application: the webview's authorization   *)
(* client, the native list of pending authorizations, the system browser,  *)
(* the gateway's one-time handoffs and the deep link that brings one back. *)
(***************************************************************************)
EXTENDS Naturals, FiniteSets

CONSTANTS
    MaxAttempts,    \* authorizations the reader starts
    MaxPending,     \* MAX_PENDING_NATIVE_AUTHORIZATIONS
    Ttl,            \* NATIVE_AUTHORIZATION_TTL_SECONDS and authorizationTimeoutMs
    HandoffTtl,     \* the gateway's ttlMs
    MaxTime, MaxHandoffs, MaxFaults

Attempts == 1 .. MaxAttempts
None == 0

VARIABLES
    attempts,   \* run of NativeAuthorizationClient, by attempt
    active,     \* NativeAuthorizationClient.active
    pending,    \* NativeAuthorizationState.pending: when each one expires
    cookie,     \* the browser's native session cookie: the attempt that set it
    logins,     \* authorizations the gateway waits for
    handoffs,   \* the gateway's handoff store
    links,      \* deep links the browser was redirected to
    redeeming,  \* redemptions in progress
    events,     \* sync-authorization-completed events not yet delivered
    jar,        \* the attempt whose session the native client holds
    now, faults,
    story       \* redemptions, and those begun too late

vars == <<attempts, active, pending, cookie, logins, handoffs, links, redeeming, events, jar, now, faults, story>>

Unused == [pc |-> "unused", outcome |-> "none", since |-> 0]

Init ==
    /\ attempts = [a \in Attempts |-> Unused]
    /\ active = None
    /\ pending = [a \in Attempts |-> 0]
    /\ cookie = None
    /\ logins = {} /\ handoffs = {} /\ links = {} /\ redeeming = {} /\ events = {}
    /\ jar = None
    /\ now = 0 /\ faults = 0
    /\ story = [redeemed |-> [a \in Attempts |-> 0], late |-> {}, withdrawn |-> {}]

gateway == <<cookie, logins, handoffs, links>>
Fault == faults < MaxFaults /\ faults' = faults + 1

(***************************************************************************)
(* NativeAuthorizationClient                                               *)
(***************************************************************************)
(* authorize: one at a time. *)
Authorize(a) ==
    /\ active = None
    /\ attempts[a] = Unused /\ \A b \in 1 .. a - 1 : attempts[b] # Unused
    /\ now + Ttl <= MaxTime
    /\ active' = a
    /\ attempts' = [attempts EXCEPT ![a] = [pc |-> "begin", outcome |-> "none", since |-> now]]
    /\ UNCHANGED <<pending, gateway, redeeming, events, jar, now, faults, story>>

Waiting(p) == {a \in Attempts : p[a] # 0}

(* sync_broker_status and sync_authorization_begin.  The first may fail, or *)
(* name an origin that is not allowed: then nothing waits at the broker.    *)
Begin(a) ==
    /\ attempts[a].pc = "begin"
    /\ \/ LET kept == [b \in Attempts |-> IF pending[b] > now THEN pending[b] ELSE 0] IN
          /\ IF Cardinality(Waiting(kept)) >= MaxPending
             THEN /\ pending' = kept
                  /\ attempts' = [attempts EXCEPT ![a].pc = "finally", ![a].outcome = "failed"]
             ELSE /\ pending' = [kept EXCEPT ![a] = now + Ttl]
                  /\ attempts' = [attempts EXCEPT ![a].pc = "open"]
          /\ UNCHANGED faults
       \/ /\ Fault
          /\ attempts' = [attempts EXCEPT ![a].pc = "finally", ![a].outcome = "failed"]
          /\ UNCHANGED pending
    /\ UNCHANGED <<active, gateway, redeeming, events, jar, now, story>>

(* /native/auth/start: a new native session waits for the provider. *)
StartAtGateway(a) == cookie' = a /\ logins' = logins \cup {a}

(* openExternal; the page's cancellation is looked at only afterwards.  The *)
(* browser follows /native/auth/start.                                      *)
OpenExternal(a) ==
    /\ attempts[a].pc = "open"
    /\ \/ /\ attempts' = [attempts EXCEPT ![a].pc = "completed"]
          /\ StartAtGateway(a)
          /\ UNCHANGED faults
       \/ /\ Fault
          /\ attempts' = [attempts EXCEPT ![a].pc = "finally", ![a].outcome = "failed"]
          /\ UNCHANGED <<cookie, logins>>
    /\ UNCHANGED <<active, pending, handoffs, links, redeeming, events, jar, now, story>>

(* The promise the run waits for is settled once. *)
Settle(a, outcome) ==
    /\ attempts[a].pc \in {"begin", "open", "completed"} /\ attempts[a].outcome = "none"
    /\ attempts' = [attempts EXCEPT ![a].outcome = outcome]

Abort(a) ==
    /\ Fault /\ active = a
    /\ Settle(a, "aborted")
    /\ UNCHANGED <<active, pending, gateway, redeeming, events, jar, now, story>>

\* Mutant: the wait has no time limit.
NeverTimesOut(a) == FALSE /\ UNCHANGED vars

Timeout(a) ==
    /\ now >= attempts[a].since + Ttl
    /\ Settle(a, "timeout")
    /\ UNCHANGED <<active, pending, gateway, redeeming, events, jar, now, faults, story>>

\* Mutant: the listener takes every event for its own.
AnyEvent(a, e) == e \in events
OwnEvent(a, e) == e \in events /\ e.attempt = a

Event(a, e) ==
    /\ OwnEvent(a, e)
    /\ Settle(a, e.outcome)
    /\ events' = events \ {e}
    /\ UNCHANGED <<active, pending, gateway, redeeming, jar, now, faults, story>>

(* Nobody listens any more. *)
EventMissed(e) ==
    /\ e \in events
    /\ active = None \/ active # e.attempt
    /\ events' = events \ {e}
    /\ UNCHANGED <<attempts, active, pending, gateway, redeeming, jar, now, faults, story>>

Completed(a) ==
    /\ attempts[a].pc = "completed" /\ attempts[a].outcome # "none"
    /\ attempts' = [attempts EXCEPT ![a].pc = "finally"]
    /\ UNCHANGED <<active, pending, gateway, redeeming, events, jar, now, faults, story>>

(* sync_authorization_cancel, whatever the outcome was. *)
Finally(a) ==
    /\ attempts[a].pc = "finally"
    /\ attempts' = [attempts EXCEPT ![a].pc = "done"]
    /\ active' = None
    /\ pending' = [pending EXCEPT ![a] = 0]
    /\ story' = [story EXCEPT !.withdrawn = @ \cup {a}]
    /\ UNCHANGED <<gateway, redeeming, events, jar, now, faults>>

(***************************************************************************)
(* The system browser and the gateway's callback                           *)
(***************************************************************************)
Issue(a, outcome) ==
    LET h == [id |-> Cardinality(links) + 1, attempt |-> a, outcome |-> outcome] IN
    /\ Cardinality(links) < MaxHandoffs
    /\ handoffs' = handoffs \cup {[link |-> h, until |-> now + HandoffTtl]}
    /\ links' = links \cup {h}

(* The native session ends in the browser with the deep link of attempt a. *)
RedirectNative(a, outcome) == Issue(a, outcome) /\ cookie' = None

(* The provider sends the browser back for attempt a, with the cookie the  *)
(* browser has by then.  A state that is not the cookie's is invalid, and   *)
(* the failure goes to the attempt the cookie belongs to.                   *)
Callback(a, granted) ==
    /\ a \in Attempts /\ attempts[a].pc \in {"completed", "finally", "done"}
    /\ cookie # None
    /\ IF cookie # a THEN RedirectNative(cookie, "invalid") /\ cookie \in logins /\ UNCHANGED logins
       ELSE /\ a \in logins /\ logins' = logins \ {a}
            /\ RedirectNative(a, IF granted THEN "authorized" ELSE "denied")
    /\ UNCHANGED <<attempts, active, pending, redeeming, events, jar, now, faults, story>>

(***************************************************************************)
(* The deep link, the native side and the redemption                       *)
(***************************************************************************)
Take(l) == pending' = [pending EXCEPT ![l.attempt] = 0]

(* A link may come late or twice. *)
DeepLink(l) ==
    /\ l \in links
    /\ pending[l.attempt] # 0
    /\ Take(l)
    /\ IF pending[l.attempt] <= now THEN UNCHANGED <<redeeming, story>>
       ELSE /\ redeeming' = redeeming \cup {[link |-> l, pc |-> "sent"]}
            /\ story' = [story EXCEPT !.late = IF l.attempt \in story.withdrawn THEN @ \cup {l.attempt} ELSE @]
    /\ UNCHANGED <<attempts, active, gateway, events, jar, now, faults>>

(* consume takes the handoff before it looks at it. *)
Consume(r) ==
    /\ r \in redeeming /\ r.pc = "sent"
    /\ LET found == {h \in handoffs : h.link = r.link}
           valid == \E h \in found : h.until > now
       IN  /\ handoffs' = handoffs \ found
           /\ redeeming' = (redeeming \ {r}) \cup {[r EXCEPT !.pc = IF valid THEN "valid" ELSE "refused"]}
    /\ UNCHANGED <<attempts, active, pending, cookie, logins, links, events, jar, now, faults, story>>

(* The answer, with the session cookie when the handoff was authorized. *)
Answer(r) ==
    /\ r \in redeeming /\ r.pc # "sent"
    /\ redeeming' = redeeming \ {r}
    /\ LET a == r.link.attempt
           signsIn == r.pc = "valid" /\ r.link.outcome = "authorized"
       IN  \/ /\ events' = events \cup {[attempt |-> a, outcome |-> IF r.pc = "valid" THEN r.link.outcome ELSE "failed"]}
              /\ jar' = IF signsIn THEN a ELSE jar
              /\ story' = IF signsIn THEN [story EXCEPT !.redeemed[a] = @ + 1] ELSE story
              /\ UNCHANGED faults
           \/ /\ Fault                        \* the answer is lost
              /\ events' = events \cup {[attempt |-> a, outcome |-> "failed"]}
              /\ UNCHANGED <<jar, story>>
    /\ UNCHANGED <<attempts, active, pending, gateway, now>>

(* The application is closed and opened again. *)
Restart ==
    /\ Fault
    /\ attempts' = [a \in Attempts |-> IF attempts[a] = Unused THEN Unused
                                       ELSE [attempts[a] EXCEPT !.pc = "done"]]
    /\ active' = None
    /\ pending' = [a \in Attempts |-> 0]
    /\ redeeming' = {} /\ events' = {} /\ jar' = None
    /\ story' = [story EXCEPT !.withdrawn = @ \cup {a \in Attempts : attempts[a] # Unused}]
    /\ UNCHANGED <<gateway, now>>

Tick ==
    /\ now < MaxTime /\ now' = now + 1
    /\ UNCHANGED <<attempts, active, pending, gateway, redeeming, events, jar, faults, story>>

Client ==
    \E a \in Attempts :
      Begin(a) \/ OpenExternal(a) \/ Timeout(a) \/ (\E e \in events : Event(a, e)) \/ Completed(a) \/ Finally(a)

Next ==
    \/ Client
    \/ \E a \in Attempts :
         \/ Authorize(a) \/ Abort(a)
         \/ \E granted \in BOOLEAN : Callback(a, granted)
    \/ \E e \in events : EventMissed(e)
    \/ \E l \in links : DeepLink(l)
    \/ \E r \in redeeming : Consume(r) \/ Answer(r)
    \/ Restart \/ Tick

Spec == Init /\ [][Next]_vars

(* Commands answer, timers fire and time passes. *)
FairSpec == Spec /\ WF_vars(Client) /\ WF_vars(Tick)

(***************************************************************************)
(* Properties                                                              *)
(***************************************************************************)
(* A deep link that arrives after its attempt was withdrawn (cancelled,    *)
(* timed out, answered, or lost with the process) redeems nothing.         *)
NoLateRedemption == story.late = {}

(* The page is told it is authorized only by the one redemption of its own *)
(* attempt that put a session into the native client, however often the    *)
(* deep link came.                                                         *)
AuthorizedIsRedeemed ==
    \A a \in Attempts : attempts[a].outcome = "authorized" => story.redeemed[a] = 1

(* Every attempt ends, so that the reader can start another: nothing that  *)
(* happens in the browser, or does not, keeps the client busy for ever.    *)
AttemptEnds == \A a \in Attempts : (active = a) ~> (active # a)

(* Deep links that come late, twice or for another attempt sign nobody in  *)
(* and fool no attempt (PendingAuthorizations.consume, the handoff store). *)
RedemptionIsRight ==
    /\ NoLateRedemption
    /\ AuthorizedIsRedeemed
=============================================================================
