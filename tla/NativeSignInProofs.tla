------------------------- MODULE NativeSignInProofs -------------------------
(***************************************************************************)
(* Deep links that come late, twice or for another attempt sign nobody in, *)
(* for every number of attempts, handoffs and faults and every time limit. *)
(*                                                                         *)
(* RedemptionIsRight is not inductive: it says nothing of the pending list *)
(* and of redemptions in progress, which are what a deep link meets.  The  *)
(* invariant SignInInv adds that an attempt is either still pending, or    *)
(* being redeemed once, or over: its authorization is taken from the list  *)
(* before the redemption begins, and no attempt comes back to the list.    *)
(***************************************************************************)
EXTENDS NativeSignIn, TLAPS

\* The records keep their fields.
IsAttempt(x) == x = [pc |-> x.pc, outcome |-> x.outcome, since |-> x.since]
IsClient(f) == f = [a \in Attempts |-> f[a]] /\ \A a \in Attempts : IsAttempt(f[a])
IsStory(x) ==
    /\ x = [redeemed |-> x.redeemed, late |-> x.late, withdrawn |-> x.withdrawn]
    /\ x.redeemed = [a \in Attempts |-> x.redeemed[a]]

\* What is on its way names an attempt.
MessagesShape ==
    /\ \A l \in links : l.attempt \in Attempts
    /\ \A r \in redeeming : r = [link |-> r.link, pc |-> r.pc] /\ r.link \in links
    /\ \A e \in events : e.attempt \in Attempts

\* The shape of the state, as far as the steps depend on it.
Shape ==
    /\ IsClient(attempts)
    /\ pending = [a \in Attempts |-> pending[a]]
    /\ IsStory(story)
    /\ cookie \in Attempts \cup {None}
    /\ MessagesShape

\* Nothing of attempt a is being redeemed or was.
Untouched(a) ==
    /\ \A r \in redeeming : r.link.attempt # a
    /\ story.redeemed[a] = 0

\* An attempt is in the pending list only between its beginning and the first of
\* its deep link, its cancellation and a restart.
PendingSound ==
    \A a \in Attempts :
        /\ pending[a] # 0 => Untouched(a)
        /\ attempts[a].pc \in {"unused", "begin"} => pending[a] = 0 /\ Untouched(a)
        /\ a \in story.withdrawn => attempts[a].pc = "done" /\ pending[a] = 0

\* One redemption of an attempt is in progress, and none succeeded before it.
RedeemingSound ==
    \A r \in redeeming :
        /\ story.redeemed[r.link.attempt] = 0
        /\ \A s \in redeeming : s.link.attempt = r.link.attempt => s = r

\* An event that says authorized was sent by the redemption that succeeded.
EventsSound ==
    \A e \in events : e.outcome = "authorized" => story.redeemed[e.attempt] = 1

SignInInv ==
    /\ Shape
    /\ PendingSound
    /\ RedeemingSound
    /\ EventsSound
    /\ RedemptionIsRight

-----------------------------------------------------------------------------
\* Initially no attempt was made.
LEMMA SignInInit == Init => SignInInv
<1> SUFFICES ASSUME Init PROVE SignInInv
  OBVIOUS
<1>1. \A a \in Attempts : attempts[a] = Unused /\ pending[a] = 0 /\ story.redeemed[a] = 0
  BY DEF Init
<1>2. story.late = {} /\ story.withdrawn = {} /\ redeeming = {} /\ events = {} /\ links = {}
  BY DEF Init
<1>3. Shape
  <2>1. IsClient(attempts)
    BY DEF Init, IsClient, IsAttempt, Unused
  <2>2. IsStory(story)
    BY DEF Init, IsStory
  <2>3. pending = [a \in Attempts |-> pending[a]] /\ cookie = None
    BY DEF Init
  <2>4. MessagesShape
    BY <1>2 DEF MessagesShape
  <2>5. QED
    BY <2>1, <2>2, <2>3, <2>4 DEF Shape
<1>4. QED
  BY <1>1, <1>2, <1>3 DEF SignInInv, PendingSound, Untouched, RedeemingSound, EventsSound,
     RedemptionIsRight, NoLateRedemption, AuthorizedIsRedeemed, Unused

-----------------------------------------------------------------------------
\* A step of the page: it begins no attempt that was begun before, and settles one
\* as authorized only by an event of that attempt.
PageStep ==
    /\ links' = links /\ redeeming' = redeeming /\ story' = story /\ events' \subseteq events
    /\ cookie' \in Attempts \cup {None}
    /\ IsClient(attempts)' /\ pending' = [b \in Attempts |-> pending'[b]]
    /\ \A b \in Attempts :
          /\ pending'[b] # 0 => pending[b] # 0 \/ attempts[b].pc = "begin"
          /\ attempts'[b].pc \in {"unused", "begin"} =>
                attempts[b].pc \in {"unused", "begin"} /\ pending'[b] = 0
          /\ attempts[b].pc = "done" => attempts'[b].pc = "done"
          /\ attempts'[b].outcome = "authorized" =>
                \/ attempts[b].outcome = "authorized"
                \/ \E e \in events : e.attempt = b /\ e.outcome = "authorized"

\* Such a step keeps the invariant (NativeAuthorizationClient).
LEMMA PageKeeps ==
  ASSUME SignInInv, PageStep
  PROVE  SignInInv'
<1>1. Shape'
  BY DEF SignInInv, Shape, MessagesShape, PageStep
<1>2. \A b \in Attempts : Untouched(b)' <=> Untouched(b)
  BY DEF Untouched, PageStep
<1>3. PendingSound'
  BY <1>2 DEF SignInInv, PendingSound, PageStep
<1>4. RedeemingSound' /\ EventsSound'
  BY DEF SignInInv, RedeemingSound, EventsSound, PageStep
<1>5. RedemptionIsRight'
  BY
  DEF SignInInv, EventsSound, RedemptionIsRight, NoLateRedemption, AuthorizedIsRedeemed,
         PageStep
<1>6. QED
  BY <1>1, <1>3, <1>4, <1>5 DEF SignInInv

\* What a step leaves that changes only attempt a.
Changed(a, pc, outcome) ==
    /\ IsClient(attempts)'
    /\ attempts'[a].pc = pc /\ attempts'[a].outcome = outcome
    /\ \A b \in Attempts \ {a} : attempts'[b] = attempts[b]

\* The program counter of a run moves.
LEMMA PcChanged ==
  ASSUME Shape, NEW a \in Attempts, NEW pc, attempts' = [attempts EXCEPT ![a].pc = pc]
  PROVE  Changed(a, pc, attempts[a].outcome)
  BY DEF Shape, IsClient, IsAttempt, Changed

\* The promise a run waits for is settled.
LEMMA OutcomeChanged ==
  ASSUME Shape, NEW a \in Attempts, NEW outcome,
         attempts' = [attempts EXCEPT ![a].outcome = outcome]
  PROVE  Changed(a, attempts[a].pc, outcome)
  BY DEF Shape, IsClient, IsAttempt, Changed

\* A command that fails ends the run.
LEMMA RunFailed ==
  ASSUME Shape, NEW a \in Attempts,
         attempts' = [attempts EXCEPT ![a].pc = "finally", ![a].outcome = "failed"]
  PROVE  Changed(a, "finally", "failed")
<1>1. /\ attempts = [b \in Attempts |-> attempts[b]]
      /\ \A b \in Attempts : IsAttempt(attempts[b])
  BY DEF Shape, IsClient
<1>2. attempts[a] = [pc |-> attempts[a].pc, outcome |-> attempts[a].outcome,
                     since |-> attempts[a].since]
  BY <1>1 DEF IsAttempt
<1>3. attempts'[a] = [pc |-> "finally", outcome |-> "failed", since |-> attempts[a].since]
  BY Zenon, <1>1, <1>2
<1>4. /\ attempts' = [b \in Attempts |-> attempts'[b]]
      /\ \A b \in Attempts \ {a} : attempts'[b] = attempts[b]
  BY <1>1
<1>5. QED
  BY <1>1, <1>3, <1>4 DEF IsClient, IsAttempt, Changed

\* What the page does with an attempt (authorize, sync_authorization_begin,
\* openExternal, the settled promise and the finally block) keeps the invariant.
LEMMA ClientKeeps ==
  ASSUME NEW a \in Attempts, SignInInv,
         \/ Authorize(a) \/ Begin(a) \/ OpenExternal(a) \/ Abort(a) \/ Timeout(a)
         \/ (\E e \in events : Event(a, e)) \/ Completed(a) \/ Finally(a)
  PROVE  SignInInv'
<1>0. /\ Shape /\ PendingSound
      /\ cookie \in Attempts \cup {None}
      /\ pending = [b \in Attempts |-> pending[b]]
  BY DEF SignInInv, Shape
<1>1. CASE Authorize(a)
  <2>1. /\ attempts' = [attempts EXCEPT ![a] = [pc |-> "begin", outcome |-> "none", since |-> now]]
        /\ attempts[a].pc = "unused"
        /\ UNCHANGED <<pending, cookie, links, redeeming, events, story>>
    BY <1>1 DEF Authorize, gateway, Unused
  <2>2. IsClient(attempts)'
    BY <1>0, <2>1 DEF Shape, IsClient, IsAttempt
  <2>3. \A b \in Attempts : IF b = a THEN attempts'[b].pc = "begin" /\ attempts'[b].outcome = "none"
                            ELSE attempts'[b] = attempts[b]
    BY <1>0, <2>1 DEF Shape, IsClient
  <2>4. \A b \in Attempts : attempts[b].pc \in {"unused", "begin"} => pending[b] = 0
    BY <1>0 DEF PendingSound
  <2>5. PageStep
    BY <1>0, <2>1, <2>2, <2>3, <2>4 DEF PageStep
  <2>6. QED
    BY <2>5, PageKeeps
<1>2. CASE Begin(a)
  <2> DEFINE kept == [b \in Attempts |-> IF pending[b] > now THEN pending[b] ELSE 0]
  <2>1. /\ attempts[a].pc = "begin"
        /\ UNCHANGED <<cookie, links, redeeming, events, story>>
    BY <1>2 DEF Begin, gateway
  <2>2. /\ kept = [b \in Attempts |-> kept[b]]
        /\ \A b \in Attempts : kept[b] # 0 => pending[b] # 0
    OBVIOUS
  <2>3. \A b \in Attempts : attempts[b].pc \in {"unused", "begin"} => pending[b] = 0
    BY <1>0 DEF PendingSound
  <2>4. \/ /\ attempts' = [attempts EXCEPT ![a].pc = "finally", ![a].outcome = "failed"]
           /\ pending' \in {kept, pending}
        \/ /\ attempts' = [attempts EXCEPT ![a].pc = "open"]
           /\ pending' = [kept EXCEPT ![a] = now + Ttl]
    BY <1>2 DEF Begin
  <2>5. /\ IsClient(attempts)'
        /\ attempts'[a].pc \in {"finally", "open"}
        /\ attempts'[a].outcome \in {"failed", attempts[a].outcome}
        /\ \A b \in Attempts \ {a} : attempts'[b] = attempts[b]
    <3>1. Changed(a, "finally", "failed") \/ Changed(a, "open", attempts[a].outcome)
      BY <1>0, <2>4, PcChanged, RunFailed, Zenon
    <3>2. QED
      BY <3>1 DEF Changed
  <2> HIDE DEF kept
  <2>6. /\ pending' = [b \in Attempts |-> pending'[b]]
        /\ \A b \in Attempts \ {a} : pending'[b] \in {kept[b], pending[b]}
    BY <1>0, <2>2, <2>4
  <2>7. PageStep
    BY <1>0, <2>1, <2>2, <2>3, <2>5, <2>6 DEF PageStep
  <2>8. QED
    BY <2>7, PageKeeps
<1>3. CASE OpenExternal(a)
  <2>1. /\ attempts[a].pc = "open" /\ cookie' \in {a, cookie}
        /\ UNCHANGED <<pending, links, redeeming, events, story>>
    BY <1>3 DEF OpenExternal, StartAtGateway
  <2>2. \/ attempts' = [attempts EXCEPT ![a].pc = "completed"]
        \/ attempts' = [attempts EXCEPT ![a].pc = "finally", ![a].outcome = "failed"]
    BY <1>3 DEF OpenExternal
  <2>3. /\ IsClient(attempts)'
        /\ attempts'[a].pc \in {"completed", "finally"}
        /\ attempts'[a].outcome \in {attempts[a].outcome, "failed"}
        /\ \A b \in Attempts \ {a} : attempts'[b] = attempts[b]
    <3>1. Changed(a, "finally", "failed") \/ Changed(a, "completed", attempts[a].outcome)
      BY <1>0, <2>2, PcChanged, RunFailed, Zenon
    <3>2. QED
      BY <3>1 DEF Changed
  <2>4. \A b \in Attempts : attempts[b].pc \in {"unused", "begin"} => pending[b] = 0
    BY <1>0 DEF PendingSound
  <2>5. PageStep
    BY <1>0, <2>1, <2>3, <2>4 DEF PageStep
  <2>6. QED
    BY <2>5, PageKeeps
<1>4. ASSUME NEW outcome, Settle(a, outcome), events' \subseteq events,
             UNCHANGED <<pending, cookie, links, redeeming, story>>,
             outcome = "authorized" =>
                \E e \in events : e.attempt = a /\ e.outcome = "authorized"
      PROVE  SignInInv'
  <2>1. attempts' = [attempts EXCEPT ![a].outcome = outcome]
    BY <1>4 DEF Settle
  <2>2. Changed(a, attempts[a].pc, outcome)
    BY <1>0, <2>1, OutcomeChanged, Zenon
  <2>3. \A b \in Attempts : attempts[b].pc \in {"unused", "begin"} => pending[b] = 0
    BY <1>0 DEF PendingSound
  <2>4. PageStep
    BY <1>0, <1>4, <2>2, <2>3 DEF PageStep, Changed
  <2>5. QED
    BY <2>4, PageKeeps
<1>5. CASE Abort(a) \/ Timeout(a)
  BY <1>4, <1>5 DEF Abort, Timeout, gateway
<1>6. CASE \E e \in events : Event(a, e)
  <2>1. PICK e \in events : Event(a, e)
    BY <1>6
  <2>2. e.attempt = a /\ Settle(a, e.outcome)
    BY <2>1 DEF Event, OwnEvent
  <2>3. QED
    BY <1>4, <2>1, <2>2 DEF Event, gateway
<1>7. CASE Completed(a)
  <2>1. /\ attempts[a].pc = "completed"
        /\ attempts' = [attempts EXCEPT ![a].pc = "finally"]
        /\ UNCHANGED <<pending, cookie, links, redeeming, events, story>>
    BY <1>7 DEF Completed, gateway
  <2>2. Changed(a, "finally", attempts[a].outcome)
    BY <1>0, <2>1, PcChanged, Zenon
  <2>3. \A b \in Attempts : attempts[b].pc \in {"unused", "begin"} => pending[b] = 0
    BY <1>0 DEF PendingSound
  <2>4. PageStep
    BY <1>0, <2>1, <2>2, <2>3 DEF PageStep, Changed
  <2>5. QED
    BY <2>4, PageKeeps
<1>8. CASE Finally(a)
  <2>1. /\ attempts[a].pc = "finally"
        /\ attempts' = [attempts EXCEPT ![a].pc = "done"]
        /\ pending' = [pending EXCEPT ![a] = 0]
        /\ story' = [story EXCEPT !.withdrawn = @ \cup {a}]
        /\ UNCHANGED <<cookie, links, redeeming, events>>
    BY <1>8 DEF Finally, gateway
  <2>2. Changed(a, "done", attempts[a].outcome)
    BY <1>0, <2>1, PcChanged, Zenon
  <2>3. /\ pending' = [b \in Attempts |-> pending'[b]] /\ pending'[a] = 0
        /\ \A b \in Attempts \ {a} : pending'[b] = pending[b]
    BY <1>0, <2>1
  <2>4. /\ IsStory(story)'
        /\ story'.redeemed = story.redeemed /\ story'.late = story.late
        /\ story'.withdrawn = story.withdrawn \cup {a}
    BY SMTT(40), <1>0, <2>1 DEF Shape, IsStory
  <2>5. Shape'
    BY <1>0, <2>1, <2>2, <2>3, <2>4 DEF Shape, MessagesShape, Changed
  <2>6. \A b \in Attempts : Untouched(b)' <=> Untouched(b)
    BY <2>1, <2>4 DEF Untouched
  <2>7. PendingSound'
    BY <1>0, <2>2, <2>3, <2>4, <2>6 DEF PendingSound, Changed
  <2>8. RedeemingSound' /\ EventsSound' /\ RedemptionIsRight'
    <3>1. RedeemingSound' /\ EventsSound'
      BY <2>1, <2>4 DEF SignInInv, RedeemingSound, EventsSound
    <3>2. RedemptionIsRight'
      BY <2>2, <2>4
      DEF SignInInv, RedemptionIsRight, NoLateRedemption, AuthorizedIsRedeemed,
             Changed
    <3>3. QED
      BY <3>1, <3>2
  <2>9. QED
    BY <2>5, <2>7, <2>8 DEF SignInInv
<1>9. QED
  BY <1>1, <1>2, <1>3, <1>5, <1>6, <1>7, <1>8

-----------------------------------------------------------------------------
\* A step of the gateway or of a redemption that leaves the page alone.
SessionStep ==
    /\ attempts' = attempts /\ story' = story
    /\ cookie' \in Attempts \cup {None} /\ MessagesShape'
    /\ pending' = [b \in Attempts |-> pending'[b]]
    /\ \A e \in events' : e.outcome = "authorized" => e \in events
    /\ \A r \in redeeming' :
          /\ story.redeemed[r.link.attempt] = 0 /\ pending'[r.link.attempt] = 0
          /\ attempts[r.link.attempt].pc \notin {"unused", "begin"}
          /\ \A s \in redeeming' : s.link.attempt = r.link.attempt => s = r
    /\ \A b \in Attempts : pending'[b] # 0 => pending[b] # 0

\* Such a step keeps the invariant (the callback, the deep link, consume).
LEMMA SessionKeeps ==
  ASSUME SignInInv, SessionStep
  PROVE  SignInInv'
<1>1. Shape'
  BY DEF SignInInv, Shape, SessionStep
<1>2. PendingSound'
  BY DEF SignInInv, PendingSound, Untouched, SessionStep
<1>3. RedeemingSound' /\ EventsSound'
  BY DEF SignInInv, RedeemingSound, EventsSound, SessionStep
<1>4. RedemptionIsRight'
  BY DEF SignInInv, RedemptionIsRight, NoLateRedemption, AuthorizedIsRedeemed, SessionStep
<1>5. QED
  BY <1>1, <1>2, <1>3, <1>4 DEF SignInInv

\* What the invariant says of a redemption in progress: its attempt is not pending.
LEMMA RedemptionKnows ==
  ASSUME SignInInv, NEW r \in redeeming
  PROVE  /\ r.link \in links /\ r.link.attempt \in Attempts
         /\ story.redeemed[r.link.attempt] = 0 /\ pending[r.link.attempt] = 0
         /\ attempts[r.link.attempt].pc \notin {"unused", "begin"}
         /\ \A s \in redeeming : s.link.attempt = r.link.attempt => s = r
<1>1. r.link \in links /\ r.link.attempt \in Attempts
  BY DEF SignInInv, Shape, MessagesShape
<1>2. ~Untouched(r.link.attempt)
  BY DEF Untouched
<1>3. QED
  BY <1>1, <1>2 DEF SignInInv, PendingSound, RedeemingSound

\* The provider sends the browser back to the gateway, which issues a handoff.
LEMMA CallbackKeeps ==
  ASSUME NEW a \in Attempts, NEW granted \in BOOLEAN, SignInInv, Callback(a, granted)
  PROVE  SignInInv'
<1>1. /\ attempts' = attempts /\ pending' = pending /\ redeeming' = redeeming
      /\ events' = events /\ story' = story /\ cookie' = None
  BY DEF Callback, RedirectNative
<1>2. \E outcome : \E b \in {a, cookie} : Issue(b, outcome) /\ cookie # None
  BY DEF Callback, RedirectNative
<1>3. PICK b \in Attempts : \E outcome : Issue(b, outcome)
  BY <1>2 DEF SignInInv, Shape
<1>4. links \subseteq links' /\ \A l \in links' : l \in links \/ l.attempt = b
  BY <1>3 DEF Issue
<1>5. MessagesShape'
  BY <1>1, <1>4 DEF SignInInv, Shape, MessagesShape
<1>6. \A r \in redeeming :
         /\ story.redeemed[r.link.attempt] = 0 /\ pending[r.link.attempt] = 0
         /\ attempts[r.link.attempt].pc \notin {"unused", "begin"}
         /\ \A s \in redeeming : s.link.attempt = r.link.attempt => s = r
  BY RedemptionKnows
<1>7. SessionStep
  BY <1>1, <1>5, <1>6 DEF SessionStep, SignInInv, Shape
<1>8. QED
  BY <1>7, SessionKeeps

\* A deep link takes its authorization from the pending list before it is redeemed
\* (PendingAuthorizations.consume).
LEMMA DeepLinkKeeps ==
  ASSUME NEW l \in links, SignInInv, DeepLink(l)
  PROVE  SignInInv'
<1> DEFINE new == [link |-> l, pc |-> "sent"]
<1>1. /\ l.attempt \in Attempts /\ pending[l.attempt] # 0
      /\ pending = [b \in Attempts |-> pending[b]]
      /\ cookie \in Attempts \cup {None} /\ MessagesShape
  BY DEF DeepLink, SignInInv, Shape, MessagesShape
<1>2. /\ attempts' = attempts /\ cookie' = cookie /\ links' = links /\ events' = events
      /\ pending' = [pending EXCEPT ![l.attempt] = 0]
  BY DEF DeepLink, Take, gateway
<1>3. /\ l.attempt \notin story.withdrawn /\ Untouched(l.attempt)
      /\ attempts[l.attempt].pc \notin {"unused", "begin"}
  BY <1>1 DEF SignInInv, PendingSound
<1>4. IsStory(story)
  BY DEF SignInInv, Shape
<1>5. story' = story /\ redeeming' \in {redeeming, redeeming \cup {new}}
  <2>1. CASE redeeming' = redeeming /\ story' = story
    BY <2>1
  <2>2. CASE /\ redeeming' = redeeming \cup {new}
             /\ story' = [story EXCEPT !.late = story.late]
    BY <1>4, <2>2 DEF IsStory
  <2>3. QED
    BY <1>3, <2>1, <2>2 DEF DeepLink
<1>6. /\ pending' = [b \in Attempts |-> pending'[b]] /\ pending'[l.attempt] = 0
      /\ \A b \in Attempts : b # l.attempt => pending'[b] = pending[b]
  BY <1>1, <1>2
<1>7. \A r \in redeeming :
         /\ r.link \in links /\ r.link.attempt \in Attempts
         /\ story.redeemed[r.link.attempt] = 0 /\ pending[r.link.attempt] = 0
         /\ attempts[r.link.attempt].pc \notin {"unused", "begin"}
         /\ \A s \in redeeming : s.link.attempt = r.link.attempt => s = r
  BY RedemptionKnows
<1>8. new.link = l /\ new = [link |-> new.link, pc |-> new.pc]
  OBVIOUS
<1>9. story.redeemed[l.attempt] = 0 /\ \A r \in redeeming : r.link.attempt # l.attempt
  BY <1>3 DEF Untouched
<1> HIDE DEF new
<1>10. MessagesShape'
  BY <1>1, <1>2, <1>5, <1>8 DEF MessagesShape
<1>11. SessionStep
  BY <1>1, <1>2, <1>3, <1>5, <1>6, <1>7, <1>8, <1>9, <1>10 DEF SessionStep
<1>12. QED
  BY <1>11, SessionKeeps

\* The gateway takes the handoff, whether or not it is still valid.
LEMMA ConsumeKeeps ==
  ASSUME NEW r \in redeeming, SignInInv, Consume(r)
  PROVE  SignInInv'
<1>1. PICK pc : redeeming' = (redeeming \ {r}) \cup {[r EXCEPT !.pc = pc]}
  BY Zenon DEF Consume
<1> DEFINE new == [r EXCEPT !.pc = pc]
<1>2. /\ attempts' = attempts /\ pending' = pending /\ cookie' = cookie
      /\ links' = links /\ events' = events /\ story' = story
  BY DEF Consume
<1>3. /\ r = [link |-> r.link, pc |-> r.pc] /\ cookie \in Attempts \cup {None}
      /\ pending = [b \in Attempts |-> pending[b]] /\ MessagesShape
  BY DEF SignInInv, Shape, MessagesShape
<1>4. new.link = r.link /\ new = [link |-> new.link, pc |-> new.pc]
  BY <1>3
<1>5. \A s \in redeeming :
         /\ s.link \in links /\ s.link.attempt \in Attempts
         /\ story.redeemed[s.link.attempt] = 0 /\ pending[s.link.attempt] = 0
         /\ attempts[s.link.attempt].pc \notin {"unused", "begin"}
         /\ \A t \in redeeming : t.link.attempt = s.link.attempt => t = s
  BY RedemptionKnows
<1>6. redeeming' = (redeeming \ {r}) \cup {new}
  BY <1>1
<1> HIDE DEF new
<1>7. MessagesShape'
  BY <1>2, <1>3, <1>4, <1>5, <1>6 DEF MessagesShape
<1>8. SessionStep
  BY <1>2, <1>3, <1>4, <1>5, <1>6, <1>7 DEF SessionStep
<1>9. QED
  BY <1>8, SessionKeeps

\* The answer signs the native client in at most once for an attempt, and the event
\* tells the page so.
LEMMA AnswerKeeps ==
  ASSUME NEW r \in redeeming, SignInInv, Answer(r)
  PROVE  SignInInv'
<1> DEFINE a == r.link.attempt
           signsIn == r.pc = "valid" /\ r.link.outcome = "authorized"
<1>1. /\ a \in Attempts /\ story.redeemed[a] = 0 /\ pending[a] = 0
      /\ attempts[a].pc \notin {"unused", "begin"}
      /\ \A s \in redeeming \ {r} : s.link.attempt # a
  BY RedemptionKnows
<1>2. /\ redeeming' = redeeming \ {r} /\ attempts' = attempts /\ pending' = pending
      /\ cookie' = cookie /\ links' = links
  BY DEF Answer, gateway
<1>3. \E outcome :
         /\ events' = events \cup {[attempt |-> a, outcome |-> outcome]}
         /\ \/ outcome # "authorized" /\ story' = story
            \/ outcome = "authorized" /\ story' = [story EXCEPT !.redeemed[a] = @ + 1]
  <2> DEFINE told == IF r.pc = "valid" THEN r.link.outcome ELSE "failed"
  <2>1. \/ /\ events' = events \cup {[attempt |-> a, outcome |-> told]}
           /\ story' = IF signsIn THEN [story EXCEPT !.redeemed[a] = @ + 1] ELSE story
        \/ /\ events' = events \cup {[attempt |-> a, outcome |-> "failed"]}
           /\ story' = story
    BY DEF Answer
  <2>2. signsIn <=> told = "authorized"
    OBVIOUS
  <2> HIDE DEF told, signsIn, a
  <2>3. QED
    BY <2>1, <2>2
<1>4. PICK outcome :
         /\ events' = events \cup {[attempt |-> a, outcome |-> outcome]}
         /\ \/ outcome # "authorized" /\ story' = story
            \/ outcome = "authorized" /\ story' = [story EXCEPT !.redeemed[a] = @ + 1]
  BY <1>3
<1>5. \A e \in events' : e \in events \/ (e.attempt = a /\ e.outcome = outcome)
  BY <1>4
<1>6. /\ cookie \in Attempts \cup {None} /\ pending = [b \in Attempts |-> pending[b]]
      /\ MessagesShape /\ IsStory(story) /\ Shape
  BY DEF SignInInv, Shape
<1> HIDE DEF a
<1>7. MessagesShape'
  BY <1>1, <1>2, <1>5, <1>6 DEF MessagesShape
<1>8. CASE outcome # "authorized" /\ story' = story
  <2>1. \A s \in redeeming :
           /\ story.redeemed[s.link.attempt] = 0 /\ pending[s.link.attempt] = 0
           /\ attempts[s.link.attempt].pc \notin {"unused", "begin"}
           /\ \A t \in redeeming : t.link.attempt = s.link.attempt => t = s
    BY RedemptionKnows
  <2>2. SessionStep
    BY <1>2, <1>5, <1>6, <1>7, <1>8, <2>1 DEF SessionStep
  <2>3. QED
    BY <2>2, SessionKeeps
<1>9. CASE outcome = "authorized" /\ story' = [story EXCEPT !.redeemed[a] = @ + 1]
  <2>1. /\ IsStory(story)' /\ story'.redeemed[a] = 1
        /\ story'.late = story.late /\ story'.withdrawn = story.withdrawn
        /\ \A b \in Attempts : b # a => story'.redeemed[b] = story.redeemed[b]
    BY <1>1, <1>6, <1>9 DEF IsStory
  <2>2. Shape'
    BY <1>2, <1>6, <1>7, <2>1 DEF Shape
  <2>3. PendingSound'
    BY <1>1, <1>2, <2>1 DEF SignInInv, PendingSound, Untouched
  <2>4. RedeemingSound'
    BY <1>1, <1>2, <1>7, <2>1 DEF SignInInv, RedeemingSound, Shape, MessagesShape
  <2>5. EventsSound'
    BY <1>1, <1>5, <1>6, <2>1 DEF SignInInv, EventsSound, MessagesShape
  <2>6. RedemptionIsRight'
    BY <1>1, <1>2, <2>1 DEF SignInInv, RedemptionIsRight, NoLateRedemption,
       AuthorizedIsRedeemed
  <2>7. QED
    BY <2>2, <2>3, <2>4, <2>5, <2>6 DEF SignInInv
<1>10. QED
  BY <1>4, <1>8, <1>9

\* The application is closed and opened again: every attempt that was made is over.
LEMMA RestartKeeps ==
  ASSUME SignInInv, Restart
  PROVE  SignInInv'
<1>1. /\ pending' = [b \in Attempts |-> 0] /\ redeeming' = {} /\ events' = {}
      /\ cookie' = cookie /\ links' = links
      /\ story' = [story EXCEPT !.withdrawn = @ \cup {b \in Attempts : attempts[b] # Unused}]
  BY DEF Restart, gateway
<1>2. attempts' = [b \in Attempts |-> IF attempts[b] = Unused THEN Unused
                                      ELSE [attempts[b] EXCEPT !.pc = "done"]]
  BY DEF Restart
<1>3. /\ IsClient(attempts) /\ IsStory(story) /\ MessagesShape
      /\ cookie \in Attempts \cup {None}
  BY DEF SignInInv, Shape
<1>4. /\ IsStory(story)' /\ story'.redeemed = story.redeemed /\ story'.late = story.late
      /\ story'.withdrawn = story.withdrawn \cup {b \in Attempts : attempts[b] # Unused}
  BY <1>1, <1>3 DEF IsStory
<1>5. /\ IsClient(attempts)'
      /\ \A b \in Attempts : /\ attempts'[b].outcome = attempts[b].outcome
                             /\ IF attempts[b] = Unused THEN attempts'[b] = Unused
                                ELSE attempts'[b].pc = "done"
  BY <1>2, <1>3 DEF IsClient, IsAttempt, Unused
<1>6. Shape'
  BY <1>1, <1>3, <1>4, <1>5 DEF Shape, MessagesShape
<1>7. PendingSound'
  BY <1>1, <1>4, <1>5 DEF SignInInv, PendingSound, Untouched, Unused
<1>8. RedeemingSound' /\ EventsSound'
  BY <1>1 DEF RedeemingSound, EventsSound
<1>9. RedemptionIsRight'
  BY <1>4, <1>5 DEF SignInInv, RedemptionIsRight, NoLateRedemption, AuthorizedIsRedeemed
<1>10. QED
  BY <1>6, <1>7, <1>8, <1>9 DEF SignInInv

\* Missed events and time change nothing that the invariant speaks of.
LEMMA OthersKeep ==
  ASSUME SignInInv, Tick \/ (\E e \in events : EventMissed(e)) \/ UNCHANGED vars
  PROVE  SignInInv'
<1>1. /\ attempts' = attempts /\ pending' = pending /\ redeeming' = redeeming
      /\ events' \subseteq events /\ story' = story /\ cookie' = cookie /\ links' = links
  BY DEF Tick, EventMissed, vars, gateway
<1>2. MessagesShape'
  BY <1>1 DEF SignInInv, Shape, MessagesShape
<1>3. \A r \in redeeming :
         /\ story.redeemed[r.link.attempt] = 0 /\ pending[r.link.attempt] = 0
         /\ attempts[r.link.attempt].pc \notin {"unused", "begin"}
         /\ \A s \in redeeming : s.link.attempt = r.link.attempt => s = r
  BY RedemptionKnows
<1>4. SessionStep
  BY <1>1, <1>2, <1>3 DEF SessionStep, SignInInv, Shape
<1>5. QED
  BY <1>4, SessionKeeps

-----------------------------------------------------------------------------
\* A deep link redeems nothing after its attempt was withdrawn, and the page is told
\* that it is authorized only by the one redemption of its own attempt
\* (PendingAuthorizations.consume, NativeAuthorizationClient, the handoff store).
THEOREM RedemptionIsAlwaysRight == Spec => []RedemptionIsRight
<1>1. SignInInv /\ [Next]_vars => SignInInv'
  <2> SUFFICES ASSUME SignInInv, [Next]_vars PROVE SignInInv'
    OBVIOUS
  <2>1. CASE \/ Client \/ \E a \in Attempts : Authorize(a) \/ Abort(a)
    BY <2>1, ClientKeeps DEF Client
  <2>2. CASE \E a \in Attempts, granted \in BOOLEAN : Callback(a, granted)
    BY <2>2, CallbackKeeps
  <2>3. CASE \E l \in links : DeepLink(l)
    BY <2>3, DeepLinkKeeps
  <2>4. CASE \E r \in redeeming : Consume(r) \/ Answer(r)
    BY <2>4, ConsumeKeeps, AnswerKeeps
  <2>5. CASE Restart
    BY <2>5, RestartKeeps
  <2>6. CASE Tick \/ (\E e \in events : EventMissed(e)) \/ UNCHANGED vars
    BY <2>6, OthersKeep
  <2>7. QED
    BY <2>1, <2>2, <2>3, <2>4, <2>5, <2>6 DEF Next
<1>2. SignInInv => RedemptionIsRight
  BY DEF SignInInv
<1>3. QED
  BY SignInInit, <1>1, <1>2, PTL DEF Spec
=============================================================================
