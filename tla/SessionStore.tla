---------------------------- MODULE SessionStore ----------------------------
(***************************************************************************)
(* The three encrypted session stores of the gateway: in memory, in Redis  *)
(* and in a file.  A stored record is sealed with the current key, with a  *)
(* previous key (it is sealed again when it is read), or with a key the    *)
(* gateway no longer has (it is deleted when it is read).                  *)
(*                                                                         *)
(* The memory store works in one turn of the event loop.  The Redis store  *)
(* sends one command per step.  The file store runs its calls one after    *)
(* the other, and each reads the file, writes a temporary file beside it   *)
(* and renames that over it; the process may end between any two steps.    *)
(***************************************************************************)
EXTENDS Naturals

CONSTANTS
    Callers, Identifiers,
    Values,       \* the sessions that may be stored at the beginning
    Calls,        \* the calls that are made
    Stores,       \* the kinds of store, and the seals of the records they start with
    MaxCalls,     \* bound: calls made
    MaxRestarts,  \* bound: restarts of the process
    MaxExpiries,  \* bound: records that expire
    None

VARIABLES
    kind,      \* "memory", "redis" or "file"
    records,   \* what is stored: [Identifiers -> record or None]
    expired,   \* identifiers whose record has passed its expiry time
    run,       \* the calls: [phase, call, seen, next, past, answer]
    turn,      \* the call the file store is working on, or None
    calls, restarts, expiries

vars == <<kind, records, expired, run, turn, calls, restarts, expiries>>

Seals == {"current", "previous", "lost"}
Record(value, seal) == [value |-> value, seal |-> seal]

Idle == [phase |-> "idle", call |-> None, seen |-> None, next |-> None,
         past |-> {}, answer |-> None]

At(c, phase) == run[c].phase = phase
Moves(c, phase) == run' = [run EXCEPT ![c].phase = phase]
Answers(c, answer) ==
    run' = [run EXCEPT ![c] = [Idle EXCEPT !.phase = "answer", !.call = run[c].call,
                                           !.answer = answer]]

Fails(c) == Answers(c, "failed")

\* decrypt: the value a record opens to, or None.
Open(record) ==
    IF record = None \/ record.seal = "lost" THEN None ELSE record.value

\* What a caller can see in stored records, given which have expired.
Visible(stored, past) ==
    [id \in Identifiers |-> IF id \in past THEN None ELSE Open(stored[id])]

------------------------------------------------------------------------------
(* What each call makes of the records, and what it answers.               *)

\* get drops a record that expired or cannot be opened, and seals one of a
\* previous key again; take removes it whatever it is; move removes a source
\* it cannot open and stores nothing.
AfterGet(stored, past, id) ==
    [stored EXCEPT ![id] =
       IF Visible(stored, past)[id] = None THEN None
                                           ELSE Record(@.value, "current")]

AfterMove(stored, past, call) ==
    LET without == [stored EXCEPT ![call.id] = None] IN
    IF Visible(stored, past)[call.id] = None
      THEN without
      ELSE [without EXCEPT ![call.to] = Record(call.value, "current")]

After(stored, past, call) ==
    CASE call.name = "get" -> AfterGet(stored, past, call.id)
      [] call.name \in {"take", "delete"} -> [stored EXCEPT ![call.id] = None]
      [] call.name = "set" -> [stored EXCEPT ![call.id] = Record(call.value, "current")]
      [] call.name = "move" -> AfterMove(stored, past, call)

\* invalidProviderSession is "refused".
Unreadable(stored, past, id) ==
    stored[id] # None /\ id \notin past /\ stored[id].seal = "lost"

Answer(stored, past, call) ==
    LET found == Visible(stored, past)[call.id] IN
    CASE call.name \in {"get", "take"} ->
           IF Unreadable(stored, past, call.id) THEN "refused" ELSE found
      [] call.name = "move" -> IF found = None THEN "refused" ELSE call.value
      [] OTHER -> None

\* A record that is stored anew has a new lifetime; sealing it again has none.
Renewed(stored, past, call) ==
    CASE call.name = "set" -> {call.id}
      [] call.name = "move" /\ Visible(stored, past)[call.id] # None -> {call.to}
      [] OTHER -> {}

------------------------------------------------------------------------------
Begin(c, call) ==
    /\ At(c, "idle")
    /\ calls < MaxCalls
    /\ calls' = calls + 1
    /\ run' = [run EXCEPT ![c] = [Idle EXCEPT !.phase = "called", !.call = call]]
    /\ UNCHANGED <<kind, records, expired, turn, restarts, expiries>>

End(c) ==
    /\ At(c, "answer")
    /\ run' = [run EXCEPT ![c] = Idle]
    /\ UNCHANGED <<kind, records, expired, turn, calls, restarts, expiries>>

\* The whole call in one turn of the event loop.
Perform(c) ==
    /\ kind = "memory"
    /\ At(c, "called")
    /\ records' = After(records, expired, run[c].call)
    /\ expired' = expired \ Renewed(records, expired, run[c].call)
    /\ Answers(c, Answer(records, expired, run[c].call))
    /\ UNCHANGED <<kind, turn, calls, restarts, expiries>>

------------------------------------------------------------------------------
(* Redis: SET, GETDEL, DEL and the move script are one command each, and   *)
(* Redis itself forgets a key whose time has come.                         *)

\* MOVE_SESSION_SCRIPT asks only whether the source key exists.
moveScript(stored, call) ==
    IF stored[call.id] = None
      THEN stored
      ELSE [[stored EXCEPT ![call.id] = None]
              EXCEPT ![call.to] = Record(call.value, "current")]

\* A command may fail before or after Redis carried it out.
Command(c) ==
    LET call == run[c].call
        moved == call.name = "move" /\ records[call.id] # None
        renewed == IF call.name = "set" THEN {call.id} ELSE IF moved THEN {call.to} ELSE {}
    IN  /\ kind = "redis"
        /\ At(c, "called")
        /\ call.name # "get"
        /\ \/ /\ records' = IF call.name = "move" THEN moveScript(records, call)
                                                ELSE After(records, {}, call)
              /\ expired' = expired \ renewed
              /\ Answers(c, IF moved THEN call.value ELSE Answer(records, {}, call)) \/ Fails(c)
           \/ Fails(c) /\ UNCHANGED <<records, expired>>
        /\ UNCHANGED <<kind, turn, calls, restarts, expiries>>

\* GET, and what the reply calls for.
Fetch(c) ==
    LET record == records[run[c].call.id]
        goes(phase, answer) ==
          run' = [run EXCEPT ![c].phase = phase, ![c].seen = record, ![c].answer = answer]
    IN
    /\ kind = "redis"
    /\ At(c, "called")
    /\ run[c].call.name = "get"
    /\ \/ CASE record = None -> Answers(c, None)
            [] record # None /\ record.seal = "lost" -> goes("purge", "refused")
            [] record # None /\ record.seal = "previous" -> goes("ttl", None)
            [] OTHER -> Answers(c, record.value)
       \/ Fails(c)
    /\ UNCHANGED <<kind, records, expired, turn, calls, restarts, expiries>>

\* The catch of get: DEL, and invalidProviderSession.
Catch(c) == run' = [run EXCEPT ![c].phase = "purge", ![c].answer = "refused"]

\* PTTL: a key that is gone by now is deleted once more.
Remaining(c) ==
    /\ At(c, "ttl")
    /\ \/ Moves(c, IF records[run[c].call.id] = None THEN "purge" ELSE "reseal")
       \/ Catch(c)
    /\ UNCHANGED <<kind, records, expired, turn, calls, restarts, expiries>>

Purge(c) ==
    /\ At(c, "purge")
    /\ \/ records' = [records EXCEPT ![run[c].call.id] = None] /\ (Answers(c, run[c].answer) \/ Fails(c))
       \/ Fails(c) /\ UNCHANGED records
    /\ UNCHANGED <<kind, expired, turn, calls, restarts, expiries>>

\* SET of the value that was read, sealed with the current key.
Reseal(c) ==
    /\ At(c, "reseal")
    /\ \/ /\ records' = [records EXCEPT ![run[c].call.id] = Record(run[c].seen.value, "current")]
          /\ expired' = expired \ {run[c].call.id}
          /\ Answers(c, run[c].seen.value) \/ Catch(c)
       \/ Catch(c) /\ UNCHANGED <<records, expired>>
    /\ UNCHANGED <<kind, turn, calls, restarts, expiries>>

------------------------------------------------------------------------------
(* The file: serialized() lets one call work at a time.                    *)

\* MUTANT: calls do not wait for each other.
SerializedNot(c) == TRUE

Serialized(c) == turn = None

\* set also removes what has expired.
removeExpired(stored, past) ==
    [id \in Identifiers |-> IF id \in past THEN None ELSE stored[id]]

\* get and take write only what they changed.
Writes(call, after) == call.name \in {"set", "move", "delete"} \/ after # records

Load(c) ==
    LET call == run[c].call
        kept == IF call.name = "set" THEN removeExpired(records, expired) ELSE records
        after == After(kept, expired, call)
        rotates == call.name = "get" /\ call.id \notin expired /\ after # records
    IN  /\ kind = "file"
        /\ At(c, "called")
        /\ Serialized(c)
        /\ turn' = c
        /\ \/ run' = [run EXCEPT ![c].phase = IF Writes(call, after) THEN "write" ELSE "done",
                                 ![c].seen = IF rotates THEN records[call.id] ELSE None,
                                 ![c].next = after, ![c].past = expired,
                                 ![c].answer = Answer(records, expired, call)]
           \/ run' = [run EXCEPT ![c].phase = "done", ![c].past = expired, ![c].answer = "failed"]
        /\ UNCHANGED <<kind, records, expired, calls, restarts, expiries>>

\* writeFile to a temporary name.  A failure is reported and the old file
\* stays; but when get was sealing a record again, its catch deletes that
\* record and writes once more.
Store(c) ==
    LET resealing == run[c].seen # None /\ run[c].answer # "refused" IN
    /\ At(c, "write")
    /\ \/ Moves(c, "rename")
       \/ /\ resealing
          /\ run' = [run EXCEPT ![c].next[run[c].call.id] = None, ![c].answer = "refused"]
       \/ /\ ~resealing
          /\ run' = [run EXCEPT ![c].phase = "done", ![c].answer = "failed"]
    /\ UNCHANGED <<kind, records, expired, turn, calls, restarts, expiries>>

\* take looks at the expiry only after the file was written.
Rename(c) ==
    LET call == run[c].call
        gone(past) == past \ Renewed(records, run[c].past, call)
    IN
    /\ At(c, "rename")
    /\ records' = run[c].next
    /\ expired' = gone(expired)
    /\ run' = [run EXCEPT ![c].phase = "done", ![c].past = gone(@),
                          ![c].answer = IF call.name = "take"
                                          THEN Answer(records, expired, call) ELSE @]
    /\ UNCHANGED <<kind, turn, calls, restarts, expiries>>

\* The next call may begin.
Release(c) ==
    /\ At(c, "done")
    /\ turn' = None
    /\ Answers(c, run[c].answer)
    /\ UNCHANGED <<kind, records, expired, calls, restarts, expiries>>

------------------------------------------------------------------------------
\* Time passes the expiry of a record: Redis forgets the key, the others find
\* out when they read it.
Expire(id) ==
    /\ records[id] # None
    /\ id \notin expired
    /\ expiries < MaxExpiries
    /\ expiries' = expiries + 1
    /\ expired' = expired \cup {id}
    /\ records' = IF kind = "redis" THEN [records EXCEPT ![id] = None] ELSE records
    /\ UNCHANGED <<kind, run, turn, calls, restarts>>

\* The process ends and starts again: only memory is lost with it.
Restart ==
    /\ kind # "memory"
    /\ restarts < MaxRestarts
    /\ restarts' = restarts + 1
    /\ run' = [c \in Callers |-> Idle]
    /\ turn' = None
    /\ UNCHANGED <<kind, records, expired, calls, expiries>>

Init ==
    \E store \in Stores :
      /\ kind = store.kind
      /\ records \in [Identifiers -> { Record(v, s) : v \in Values, s \in store.seals }
                                       \cup {None}]
      /\ expired = {}
      /\ run = [c \in Callers |-> Idle]
      /\ turn = None
      /\ calls = 0 /\ restarts = 0 /\ expiries = 0

Next ==
    \/ \E c \in Callers, call \in Calls : Begin(c, call)
    \/ \E c \in Callers :
         \/ End(c) \/ Perform(c) \/ Command(c) \/ Fetch(c) \/ Remaining(c)
         \/ Purge(c) \/ Reseal(c) \/ Load(c) \/ Store(c) \/ Rename(c) \/ Release(c)
    \/ \E id \in Identifiers : Expire(id)
    \/ Restart

Spec == Init /\ [][Next]_vars

------------------------------------------------------------------------------
(* The promise of the interface.                                           *)

\* A file call works with the expiry times as they were when it looked.
Past ==
    IF turn # None /\ run[turn].call.name # "take" THEN run[turn].past ELSE expired

\* A get that found a record under another key and has not finished with it.
Rotating(h) ==
    h.seen # None /\ h.phase \in {"ttl", "reseal", "purge", "write", "rename"}

\* A call has happened once its effect can be seen, or, if it has none, once
\* it has read what it answers.
StageOf(h) ==
    CASE h.phase = "idle" -> "none"
      [] h.phase \in {"answer", "done"} -> "done"
      [] Rotating(h) -> "rotating"
      [] h.phase \in {"write", "rename"} /\ h.call.name = "get" -> "done"
      [] OTHER -> "called"

\* Each of the stores is the map the interface promises, whatever the other
\* callers do meanwhile, whatever fails and wherever the process ends: the file
\* is replaced as a whole by a rename and its calls wait for each other, Redis
\* commands and the move script are atomic.  What a get promises less of a
\* record under a previous key is what SessionMap says: in Redis the record is
\* written or deleted after other callers' writes, and in both Redis and the
\* file a failure of that write deletes the session.
Map ==
    INSTANCE SessionMap WITH
      map <- Visible(records, Past),
      old <- {id \in Identifiers : records[id] # None /\ records[id].seal # "current"},
      shared <- kind = "redis",
      made <- [c \in Callers |->
                 [stage |-> StageOf(run[c]), call |-> run[c].call,
                  answer |-> CASE Rotating(run[c]) -> Open(run[c].seen)
                               [] StageOf(run[c]) = "done" -> run[c].answer
                               [] OTHER -> None]]

ImplementsMap == Map!SSpec

=============================================================================
