----------------------------- MODULE SessionMap -----------------------------
(***************************************************************************)
(* What GatewaySessionStore promises to the adapters of the gateway: a map *)
(* from session identifiers to sessions.  Every call takes effect at one   *)
(* instant between its beginning and its answer, take and move consume     *)
(* what they find, and a session disappears by itself only once its time   *)
(* has passed.                                                             *)
(*                                                                         *)
(* One kind of call promises less.  A get that finds a record sealed with  *)
(* a key other than the current one rewrites or deletes that record before *)
(* it answers; a failure on the way loses the session, and in a shared     *)
(* store this write may fall on what another caller has stored meanwhile.  *)
(***************************************************************************)
CONSTANTS Callers, Identifiers, Values, Calls, None

VARIABLES map,      \* [Identifiers -> Values or None]
          made,     \* the calls: [Callers -> [stage, call, answer]]
          old,      \* identifiers whose record is sealed with another key
          expired,  \* identifiers whose time has passed
          shared    \* other callers may write between two steps of a call

svars == <<map, made, old, expired, shared>>

Waiting == [stage |-> "none", call |-> None, answer |-> None]

SInit ==
    /\ map \in [Identifiers -> Values \cup {None}]
    /\ made = [c \in Callers |-> Waiting]
    /\ expired = {}

Call(c, call) ==
    /\ made[c].stage = "none"
    /\ made' = [made EXCEPT ![c] = [stage |-> "called", call |-> call, answer |-> None]]
    /\ UNCHANGED map

\* A move needs a session to move; a shared store does not open it.
Movable(id) == map[id] # None \/ (shared /\ id \in old)

Effect(call) ==
    CASE call.name = "get" -> map
      [] call.name \in {"take", "delete"} -> [map EXCEPT ![call.id] = None]
      [] call.name = "set" -> [map EXCEPT ![call.id] = call.value]
      [] call.name = "move" ->
           IF Movable(call.id)
             THEN [[map EXCEPT ![call.id] = None] EXCEPT ![call.to] = call.value]
             ELSE map

\* A call answers with the session it found, and with the new one when it
\* stored one; a session that is not there is absent or, when its record
\* cannot be opened, refused.
Answers(call) ==
    CASE call.name \in {"get", "take"} ->
           IF map[call.id] # None THEN {map[call.id]}
                                  ELSE {None} \cup {a \in {"refused"} : call.id \in old}
      [] call.name = "move" -> {IF Movable(call.id) THEN call.value ELSE "refused"}
      [] OTHER -> {None}

Happens(c) ==
    /\ made[c].stage = "called"
    /\ map' = Effect(made[c].call)
    /\ \E answer \in Answers(made[c].call) :
         made' = [made EXCEPT ![c].stage = "done", ![c].answer = answer]

\* A get has found a record under another key.
Rotates(c) ==
    /\ made[c].stage = "called" /\ made[c].call.name = "get"
    /\ made[c].call.id \in old
    /\ made' = [made EXCEPT ![c].stage = "rotating", ![c].answer = map[made[c].call.id]]
    /\ UNCHANGED map

\* It stores the session again, or deletes the record.
Rewrites(c) ==
    LET id == made[c].call.id IN
    /\ made[c].stage = "rotating"
    /\ shared \/ map[id] = made[c].answer
    /\ \/ /\ map' = [map EXCEPT ![id] = made[c].answer]
          /\ UNCHANGED made
       \/ /\ map' = [map EXCEPT ![id] = made[c].answer]
          /\ made' = [made EXCEPT ![c].stage = "done"]
       \/ /\ map' = [map EXCEPT ![id] = None]
          /\ \E answer \in {None, "refused", "failed"} :
               made' = [made EXCEPT ![c].stage = "done", ![c].answer = answer]

Return(c) ==
    /\ made[c].stage = "done"
    /\ made' = [made EXCEPT ![c] = Waiting]
    /\ UNCHANGED map

\* A call that fails says nothing about whether it took effect.
Fails(c) ==
    /\ made[c].stage \in {"called", "rotating", "done"}
    /\ made' = [made EXCEPT ![c].stage = "done", ![c].answer = "failed"]
    /\ map' \in {map} \cup {m \in {Effect(made[c].call)} : made[c].stage = "called"}

Without(ids) == [id \in Identifiers |-> IF id \in ids THEN None ELSE map[id]]

\* Sessions whose time has passed go, when somebody looks or by themselves.
Expire ==
    /\ expired \subseteq expired'
    /\ \E ids \in SUBSET expired' : map' = Without(ids)
    /\ UNCHANGED made

\* The process ends with its calls; what has happened has happened.
Restart ==
    /\ made' = [c \in Callers |-> Waiting]
    /\ \E ids \in SUBSET expired : map' = Without(ids)
    /\ UNCHANGED expired

\* A call never makes the time of a session pass, and every record is sealed
\* with the current key.
SNext ==
    /\ UNCHANGED shared /\ old' \subseteq old
    /\ \/ /\ expired' \subseteq expired
          /\ \E c \in Callers :
               \/ \E call \in Calls : Call(c, call)
               \/ Happens(c) \/ Rotates(c) \/ Rewrites(c) \/ Fails(c) \/ Return(c)
       \/ Expire \/ Restart

SSpec == SInit /\ [][SNext]_svars
=============================================================================
