---------------------------- MODULE NativeBroker ----------------------------
(***************************************************************************)
(* The packaged application: the requests and transfers of the webview's   *)
(* two gateways (GitHub and MEGA) and the native broker that carries them  *)
(* out.  Each gateway numbers its requests by itself; the broker knows a   *)
(* request by that number alone.                                           *)
(***************************************************************************)
EXTENDS Naturals, FiniteSets

CONSTANTS
    Providers,      \* the gateways of the webview
    MaxCalls,       \* calls the webview makes
    MaxRequests,    \* MAX_ACTIVE_REQUESTS
    MaxTransfers,   \* MAX_ACTIVE_TRANSFERS
    Chunks,         \* IPC chunks of an object
    MaxFaults       \* aborts by the caller and failures of the network or the disk

Calls == 1 .. MaxCalls
None == 0

VARIABLES
    calls,      \* the calls of the webview, by the order they start in
    sequence,   \* requestSequence of each gateway
    cancels,    \* numbers of the sync_cancel_request commands on their way
    requests,   \* the broker's map: the call whose signal a number stands for
    signalled,  \* calls whose signal is cancelled
    downloads, uploads, files, active, closed, closing, faults,
    harmed      \* calls told they were cancelled though nobody cancelled them

vars == <<calls, sequence, cancels, requests, signalled, downloads, uploads, files,
          active, closed, closing, faults, harmed>>

Idle == [pc |-> "new", provider |-> None, kind |-> None, id |-> None, aborted |-> FALSE,
         moved |-> 0, signal |-> None]

Init ==
    /\ calls = [n \in Calls |-> Idle]
    /\ sequence = [p \in Providers |-> 0]
    /\ cancels = {}
    /\ requests = [i \in Calls |-> None]
    /\ signalled = {} /\ downloads = {} /\ uploads = {} /\ files = {}
    /\ active = 0
    /\ closed = FALSE /\ closing = FALSE
    /\ faults = 0
    /\ harmed = {}

broker == <<requests, signalled, downloads, uploads, files, active, closed>>

Used == {i \in Calls : requests[i] # None}

(***************************************************************************)
(* The webview: withRequest, execute, downloadObject, uploadObject         *)
(***************************************************************************)
(* A gateway takes its next number and invokes the broker. *)
Start(n, p, kind) ==
    /\ ~closing
    /\ calls[n] = Idle /\ \A m \in 1 .. n - 1 : calls[m] # Idle
    /\ sequence' = [sequence EXCEPT ![p] = @ + 1]
    /\ calls' = [calls EXCEPT ![n] = [Idle EXCEPT !.pc = "asked", !.provider = p, !.kind = kind,
                                                  !.id = sequence'[p]]]
    /\ UNCHANGED <<broker, cancels, closing, faults, harmed>>

Over(n) == [Idle EXCEPT !.pc = "done", !.provider = calls[n].provider, !.id = calls[n].id]

(* downloadObject and uploadObject: begin, the chunks in order, finish.    *)
(* The operation goes on with its next command; a closed transport has no  *)
(* next command.                                                           *)
Goes(n, pc, moved) ==
    calls' = [calls EXCEPT ![n] = IF closing THEN Over(n)
                                  ELSE [@ EXCEPT !.pc = pc, !.moved = moved, !.signal = None]]

(* The operation rejects; unless it was cancelled before, it is now.       *)
Fails(n, code) ==
    /\ calls' = [calls EXCEPT ![n] = Over(n)]
    /\ cancels' = IF calls[n].aborted THEN cancels ELSE cancels \cup {calls[n].id}
    /\ harmed' = IF code = "cancelled" /\ ~calls[n].aborted THEN harmed \cup {n} ELSE harmed

Done(n) == calls' = [calls EXCEPT ![n] = Over(n)] /\ UNCHANGED <<cancels, harmed>>

(* The caller aborts: the promise rejects and the operation goes on until  *)
(* the broker refuses it.                                                  *)
Abort(n) ==
    /\ faults < MaxFaults /\ faults' = faults + 1
    /\ calls[n].pc \notin {"new", "done"} /\ ~calls[n].aborted
    /\ calls' = [calls EXCEPT ![n].aborted = TRUE]
    /\ cancels' = cancels \cup {calls[n].id}
    /\ UNCHANGED <<broker, sequence, closing, harmed>>

(* The application closes both transports. *)
Dispose ==
    /\ faults < MaxFaults /\ faults' = faults + 1
    /\ ~closing /\ closing' = TRUE
    /\ LET open == {n \in Calls : calls[n].pc \notin {"new", "done"}} IN
         /\ calls' = [n \in Calls |-> IF n \in open THEN [calls[n] EXCEPT !.aborted = TRUE] ELSE calls[n]]
         /\ cancels' = cancels \cup {calls[n].id :
                                       n \in {m \in open : ~calls[m].aborted}}
    /\ UNCHANGED <<broker, sequence, harmed>>

(***************************************************************************)
(* The broker's registry                                                   *)
(***************************************************************************)
BeginRefused(n) ==
    closed \/ Cardinality(Used) >= MaxRequests \/ requests[calls[n].id] # None

begin_request(n) == requests' = [requests EXCEPT ![calls[n].id] = n]
finish_request(id) == requests' = [requests EXCEPT ![id] = None]
reserve_transfer == active' = active + 1
release_transfer(k) == active' = IF active >= k THEN active - k ELSE 0

(* A cancelled signal ends what waits for it, before the answer is looked  *)
(* at (CancellationSignal, Cancellable::poll).                             *)
is_cancelled(signal) == signal \in signalled

Fault == faults < MaxFaults /\ faults' = faults + 1

OfNumber(transfers, id) == {n \in transfers : calls[n].id = id}

\* Mutant: cancelling removes the transfers and keeps their slots.
CancelKeepsSlots(c) ==
    /\ c \in cancels /\ cancels' = cancels \ {c}
    /\ ~\E n \in Calls : calls[n].pc = "asked" /\ calls[n].kind = "upload" /\ calls[n].id = c
    /\ signalled' = signalled \cup ({requests[c]} \ {None})
    /\ finish_request(c)
    /\ downloads' = downloads \ OfNumber(downloads, c)
    /\ uploads' = uploads \ OfNumber(uploads, c)
    /\ files' = files \ OfNumber(uploads, c)
    /\ UNCHANGED <<calls, sequence, active, closed, closing, faults, harmed>>

(* cancel: the signal is cancelled and forgotten, the transfers of the      *)
(* number end.  Commands that are not asynchronous run in order, so a       *)
(* cancellation does not overtake the sync_upload_begin sent before it.     *)
Cancel(c) ==
    /\ c \in cancels /\ cancels' = cancels \ {c}
    /\ ~\E n \in Calls : calls[n].pc = "asked" /\ calls[n].kind = "upload" /\ calls[n].id = c
    /\ signalled' = signalled \cup ({requests[c]} \ {None})
    /\ finish_request(c)
    /\ LET down == OfNumber(downloads, c)
           up == OfNumber(uploads, c)
       IN  /\ downloads' = downloads \ down
           /\ uploads' = uploads \ up
           /\ files' = files \ up
           /\ release_transfer(Cardinality(down) + Cardinality(up))
    /\ UNCHANGED <<calls, sequence, closed, closing, faults, harmed>>

Teardown ==
    /\ closing /\ ~closed /\ closed' = TRUE
    /\ signalled' = signalled \cup ({requests[i] : i \in Calls} \ {None})
    /\ requests' = [i \in Calls |-> None]
    /\ downloads' = {} /\ uploads' = {} /\ files' = files \ uploads
    /\ active' = 0
    /\ UNCHANGED <<calls, sequence, cancels, closing, faults, harmed>>

(***************************************************************************)
(* run, send and the commands that answer with one response                *)
(***************************************************************************)
RequestBegin(n) ==
    /\ calls[n].pc = "asked" /\ calls[n].kind = "plain"
    /\ IF BeginRefused(n)
       THEN Fails(n, "transport-unavailable") /\ UNCHANGED requests
       ELSE /\ begin_request(n)
            /\ calls' = [calls EXCEPT ![n].pc = "sent", ![n].signal = n]
            /\ UNCHANGED <<cancels, harmed>>
    /\ UNCHANGED <<sequence, signalled, downloads, uploads, files, active, closed, closing, faults>>

(* finish_request removes whatever the number stands for by then. *)
RequestEnd(n) ==
    /\ calls[n].pc = "sent"
    /\ \/ /\ is_cancelled(n) /\ Fails(n, "cancelled") /\ UNCHANGED faults
       \/ /\ ~is_cancelled(n) /\ Done(n) /\ UNCHANGED faults
       \/ /\ ~is_cancelled(n) /\ Fault /\ Fails(n, "transport-unavailable")
    /\ finish_request(calls[n].id)
    /\ UNCHANGED <<sequence, signalled, downloads, uploads, files, active, closed, closing>>

(***************************************************************************)
(* Downloads                                                               *)
(***************************************************************************)
DownloadBegin(n) ==
    /\ calls[n].pc = "asked" /\ calls[n].kind = "download"
    /\ IF closed \/ active >= MaxTransfers \/ BeginRefused(n)
       THEN Fails(n, "transport-unavailable") /\ UNCHANGED <<requests, active>>
       ELSE /\ begin_request(n) /\ reserve_transfer
            /\ calls' = [calls EXCEPT ![n].pc = "headers", ![n].signal = n]
            /\ UNCHANGED <<cancels, harmed>>
    /\ UNCHANGED <<sequence, signalled, downloads, uploads, files, closed, closing, faults>>

(* The answer is there and not cancelled, or the request is over. *)
DownloadHeaders(n) ==
    /\ calls[n].pc = "headers"
    /\ \/ /\ ~is_cancelled(n)
          /\ calls' = [calls EXCEPT ![n].pc = "insert"]
          /\ UNCHANGED <<requests, active, faults, cancels, harmed>>
       \/ /\ \/ is_cancelled(n) /\ Fails(n, "cancelled") /\ UNCHANGED faults
             \/ ~is_cancelled(n) /\ Fault /\ Fails(n, "transport-unavailable")
          /\ finish_request(calls[n].id) /\ release_transfer(1)
    /\ UNCHANGED <<sequence, signalled, downloads, uploads, files, closed, closing>>

(* A cancellation may come before the transfer is in the map. *)
DownloadInsert(n) ==
    /\ calls[n].pc = "insert"
    /\ downloads' = downloads \cup {n}
    /\ Goes(n, IF Chunks = 0 THEN "finishing" ELSE "next", 0)
    /\ UNCHANGED <<sequence, cancels, requests, signalled, uploads, files, active, closed, closing, faults, harmed>>

(* The transfer leaves the map while a chunk of it is read. *)
DownloadChunk(n) ==
    /\ calls[n].pc = "next" /\ calls[n].kind = "download"
    /\ downloads' = downloads \ {n}
    /\ LET signal == requests[calls[n].id] IN
         IF n \notin downloads
         THEN Fails(n, "cancelled") /\ UNCHANGED active
         ELSE IF signal = None
         THEN Fails(n, "cancelled") /\ release_transfer(1)
         ELSE /\ calls' = [calls EXCEPT ![n].pc = "chunk", ![n].signal = signal]
              /\ UNCHANGED <<active, cancels, harmed>>
    /\ UNCHANGED <<sequence, requests, signalled, uploads, files, closed, closing, faults>>

DownloadChunkRead(n) ==
    /\ calls[n].pc = "chunk"
    /\ \/ /\ ~is_cancelled(calls[n].signal)
          /\ calls' = [calls EXCEPT ![n].pc = "reinsert"]
          /\ UNCHANGED <<requests, active, faults, cancels, harmed>>
       \/ /\ \/ is_cancelled(calls[n].signal) /\ Fails(n, "cancelled") /\ UNCHANGED faults
             \/ ~is_cancelled(calls[n].signal) /\ Fault /\ Fails(n, "transport-unavailable")
          /\ finish_request(calls[n].id) /\ release_transfer(1)
    /\ UNCHANGED <<sequence, signalled, downloads, uploads, files, closed, closing>>

DownloadReinsert(n) ==
    /\ calls[n].pc = "reinsert"
    /\ downloads' = downloads \cup {n}
    /\ Goes(n, IF calls[n].moved + 1 = Chunks THEN "finishing" ELSE "next", calls[n].moved + 1)
    /\ UNCHANGED <<sequence, cancels, requests, signalled, uploads, files, active, closed, closing, faults, harmed>>

DownloadFinish(n) ==
    /\ calls[n].pc = "finishing" /\ calls[n].kind = "download"
    /\ finish_request(calls[n].id)
    /\ downloads' = downloads \ {n}
    /\ IF n \in downloads THEN Done(n) /\ release_transfer(1)
       ELSE Fails(n, "invalid-response") /\ UNCHANGED active
    /\ UNCHANGED <<sequence, signalled, uploads, files, closed, closing, faults>>

(***************************************************************************)
(* Uploads                                                                 *)
(***************************************************************************)
(* When the temporary file cannot be created, the request and the slot are *)
(* given back in the same command.                                         *)
UploadBegin(n) ==
    /\ calls[n].pc = "asked" /\ calls[n].kind = "upload"
    /\ IF closed \/ active >= MaxTransfers \/ BeginRefused(n)
       THEN /\ Fails(n, "transport-unavailable")
            /\ UNCHANGED <<requests, active, uploads, files, faults>>
       ELSE \/ /\ begin_request(n) /\ reserve_transfer
               /\ uploads' = uploads \cup {n} /\ files' = files \cup {n}
               /\ Goes(n, IF Chunks = 0 THEN "finishing" ELSE "next", 0)
               /\ UNCHANGED <<cancels, harmed, faults>>
            \/ /\ Fault /\ Fails(n, "transport-unavailable")
               /\ UNCHANGED <<requests, active, uploads, files>>
    /\ UNCHANGED <<sequence, signalled, downloads, closed, closing>>

UploadChunk(n) ==
    /\ calls[n].pc = "next" /\ calls[n].kind = "upload"
    /\ IF requests[calls[n].id] = None \/ n \notin uploads
       THEN Fails(n, "cancelled") /\ UNCHANGED faults
       ELSE \/ /\ Goes(n, IF calls[n].moved + 1 = Chunks THEN "finishing" ELSE "next", calls[n].moved + 1)
               /\ UNCHANGED <<faults, cancels, harmed>>
            \/ Fault /\ Fails(n, "transport-unavailable")
    /\ UNCHANGED <<broker, sequence, closing>>

(* The transfer and its slot are given up before the object is sent. *)
UploadFinish(n) ==
    /\ calls[n].pc = "finishing" /\ calls[n].kind = "upload"
    /\ uploads' = uploads \ {n}
    /\ IF n \notin uploads
       THEN Fails(n, "cancelled") /\ UNCHANGED <<active, files, requests>>
       ELSE /\ release_transfer(1)
            /\ LET signal == requests[calls[n].id] IN
                 IF closed \/ signal = None
                 THEN Fails(n, "cancelled") /\ files' = files \ {n} /\ finish_request(calls[n].id)
                 ELSE /\ calls' = [calls EXCEPT ![n].pc = "put", ![n].signal = signal]
                      /\ UNCHANGED <<files, requests, cancels, harmed>>
    /\ UNCHANGED <<sequence, signalled, downloads, closed, closing, faults>>

UploadEnd(n) ==
    /\ calls[n].pc = "put"
    /\ \/ /\ is_cancelled(calls[n].signal) /\ Fails(n, "cancelled") /\ UNCHANGED faults
       \/ /\ ~is_cancelled(calls[n].signal) /\ Done(n) /\ UNCHANGED faults
       \/ /\ ~is_cancelled(calls[n].signal) /\ Fault /\ Fails(n, "transport-unavailable")
    /\ files' = files \ {n}
    /\ finish_request(calls[n].id)
    /\ UNCHANGED <<sequence, signalled, downloads, uploads, active, closed, closing>>

Next ==
    \/ \E n \in Calls :
         \/ \E p \in Providers, kind \in {"plain", "download", "upload"} : Start(n, p, kind)
         \/ Abort(n)
         \/ RequestBegin(n) \/ RequestEnd(n)
         \/ DownloadBegin(n) \/ DownloadHeaders(n) \/ DownloadInsert(n)
         \/ DownloadChunk(n) \/ DownloadChunkRead(n) \/ DownloadReinsert(n) \/ DownloadFinish(n)
         \/ UploadBegin(n) \/ UploadChunk(n) \/ UploadFinish(n) \/ UploadEnd(n)
    \/ \E c \in cancels : Cancel(c)
    \/ Dispose \/ Teardown

Spec == Init /\ [][Next]_vars

(***************************************************************************)
(* Properties                                                              *)
(***************************************************************************)
(* Transfers the asynchronous commands hold outside the broker's maps. *)
Held == {n \in Calls : calls[n].pc \in {"headers", "insert", "chunk", "reinsert"}}

(* However cancellation, failures and commands interleave, active_transfers *)
(* counts exactly the transfers of the maps and those a command holds, and  *)
(* never exceeds the limit: no slot is lost and none is given back twice.   *)
SlotsAccounted ==
    ~closed => /\ active = Cardinality(downloads) + Cardinality(uploads) + Cardinality(Held)
               /\ active <= MaxTransfers

Quiet == cancels = {} /\ \A n \in Calls : calls[n].pc \in {"new", "done"}

(* When every call is over and every cancellation is delivered, the broker  *)
(* holds no request, no transfer and no slot, and no temporary upload file  *)
(* is left, also after teardown.                                            *)
NothingLeft ==
    Quiet /\ (closing => closed) =>
      /\ files = {}
      /\ ~closed => downloads = {} /\ uploads = {} /\ active = 0 /\ Used = {}

(* A call is told it was cancelled only when its own caller cancelled it,   *)
(* the transport closed, or another call has the same number.               *)
HarmNeedsTwin ==
    \A n \in harmed : \E m \in Calls \ {n} : calls[m].id = calls[n].id

(* The same without the exception for equal numbers. *)
RequestsIndependent == harmed = {}

\* Every way a request ends gives back what it held, and a cancellation touches
\* only requests of its own number (cancel, finish_request, the transfer maps).
NothingIsHeld ==
    /\ SlotsAccounted
    /\ NothingLeft
    /\ HarmNeedsTwin
=============================================================================
