----------------------------- MODULE DocumentStore -----------------------------
(***************************************************************************)
(* What the synchronization gateway promises its callers about the remote  *)
(* folder of a provider, whichever provider it is: the contract of         *)
(* apps/sync-gateway/src/gateway-contract.ts and of the tables of          *)
(* docs/sync-gateway-api.md ("creates/replaces a document; 409 on revision *)
(* mismatch").                                                             *)
(*                                                                         *)
(* A call takes effect in one instant between its beginning and its        *)
(* answer, or not at all.  A revision identifies the content a path had    *)
(* when it was read, so the model uses the content itself as the revision. *)
(***************************************************************************)

CONSTANTS Clients,    \* the callers; each has one call in progress at a time
          Paths,      \* the paths of the remote folder
          Requests,   \* the calls that are made
          Absent,     \* the revision of a path that holds nothing
          Unchecked   \* the expectedRevision of a call that names none

VARIABLES documents,  \* what each path holds
          request,    \* the call each caller made last
          status,     \* how far it is
          result      \* what its reads returned

storeVars == <<documents, request, status, result>>

\* The answers that end a call.
Answers == {"ok", "conflict", "error"}

Nothing == [p \in Paths |-> Absent]

Reads == {"read", "list", "download"}

\* Whether what the paths hold is what the caller believes they hold.
\*   read, list, download   return what the paths hold
\*   write                  replaces the revision it names, Absent to create
\*   upload                 stores an immutable object, once
\*   delete, entry          removes a path, unless it holds another revision
\*   entries                removes several paths together
Matches(r, d) ==
    CASE r.op \in Reads -> TRUE
      [] r.op = "write" -> d[r.path] = r.expected
      [] r.op = "upload" -> d[r.path] \in {Absent, r.content}
      [] r.op \in {"delete", "entry"} ->
            d[r.path] = Absent \/ r.expected \in {Unchecked, d[r.path]}
      [] r.op = "entries" ->
            \A p \in DOMAIN r.wanted : d[p] = Absent \/ r.wanted[p] = {d[p]}

\* What the paths hold after the call took effect.
Outcome(r, d) ==
    CASE r.op \in Reads -> d
      [] r.op \in {"write", "upload"} -> [d EXCEPT ![r.path] = r.content]
      [] r.op \in {"delete", "entry"} -> [d EXCEPT ![r.path] = Absent]
      [] r.op = "entries" ->
            [p \in Paths |-> IF p \in DOMAIN r.wanted THEN Absent ELSE d[p]]

StoreInit ==
    /\ documents = Nothing
    /\ request = [c \in Clients |-> Absent]
    /\ status = [c \in Clients |-> "ok"]
    /\ result = [c \in Clients |-> Nothing]

Call(c) ==
    /\ status[c] \in Answers
    /\ \E r \in Requests : request' = [request EXCEPT ![c] = r]
    /\ status' = [status EXCEPT ![c] = "pending"]
    /\ result' = [result EXCEPT ![c] = Nothing]
    /\ UNCHANGED documents

\* The call takes effect.  Its answer may be lost on the way, and a call that
\* has more to do reports later.
Effect(c) ==
    /\ status[c] = "pending"
    /\ Matches(request[c], documents)
    /\ documents' = Outcome(request[c], documents)
    /\ result' = IF request[c].op \in Reads THEN [result EXCEPT ![c] = documents] ELSE result
    /\ \E s \in {"ok", "error", "applied"} : status' = [status EXCEPT ![c] = s]
    /\ UNCHANGED request

\* A call that took effect reports.  Only the removal of a single entry may
\* still report a conflict then: it goes on to a second file.
Report(c) ==
    /\ status[c] = "applied"
    /\ \E s \in {"ok", "error"} \cup (IF request[c].op = "entry" THEN {"conflict"} ELSE {}) :
          status' = [status EXCEPT ![c] = s]
    /\ UNCHANGED <<documents, request, result>>

\* The call is given up without any effect.
Refuse(c) ==
    /\ status[c] = "pending"
    /\ \E s \in {"conflict", "error"} : status' = [status EXCEPT ![c] = s]
    /\ UNCHANGED <<documents, request, result>>

StoreNext == \E c \in Clients : Call(c) \/ Effect(c) \/ Report(c) \/ Refuse(c)

StoreSpec == StoreInit /\ [][StoreNext]_storeVars
================================================================================
