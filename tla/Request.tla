------------------------------ MODULE Request ------------------------------
(***************************************************************************)
(* The requests of RequestServer (src/Services/RequestServer/Request.cpp)  *)
(* and how ConnectionFromClient.cpp starts, stops and removes them, over   *)
(* the disk cache of module DiskCache.                                     *)
(*                                                                         *)
(* RequestServer has one thread.  A handler that calls the disk cache more *)
(* than once is several steps; "running" says which request is in the      *)
(* middle of one and what it does next, and nothing else happens then.     *)
(* DNS, cookies, curl, the client's pipe and the disk are external: they   *)
(* answer when and how they like, within Incidents.                        *)
(***************************************************************************)
EXTENDS Naturals, Sequences, FiniteSets

CONSTANTS
    Requests, Keys, Varies, Old, MaxParts,  \* as in DiskCache
    Modes,      \* cache modes that requests may have
    Incidents   \* what may go wrong or interfere

IncidentNames ==
    {"dns", "cookie", "network", "hangup", "pipe", "client", "stop", "disconnect", "clear",
     "store", "connect", "substitution"}

\* "none" is what stands in the place of a request, a response or a vary key where
\* there is none.
ASSUME RequestAssumption ==
    /\ Old \notin Requests
    /\ MaxParts \in Nat \ {0}
    /\ "none" \notin Requests \cup Varies
    /\ Modes \subseteq {"Default", "NoStore", "Reload", "NoCache", "ForceCache", "OnlyIfCached",
                    "OnlyIfCachedHeader"}
    /\ Incidents \subseteq IncidentNames

VARIABLES
    open, gone, wrote, waiting, deferred, row, file, sidecar, torn,
    req,        \* the requests
    running,    \* the request whose handler is running, and its next step
    draining,   \* a batch of resumed requests is not through yet
    removal     \* requests whose removal was deferred by request_complete

cacheVars == <<open, gone, wrote, waiting, deferred, row, file, sidecar, torn>>
vars == <<cacheVars, req, running, draining, removal>>

C == INSTANCE DiskCache
-----------------------------------------------------------------------------
States == {"Init", "ReadCache", "WaitForCache", "FailedCacheOnly", "ServeSubstitution",
           "DNSLookup", "RetrieveCookie", "Connect", "Fetch", "Complete", "Error"}
Types == {"Fetch", "Connect", "BackgroundRevalidation"}
Steps == {"open", "create", "spawn", "read", "recreate", "headers", "data",
          "writable", "complete", "aborted"}

\* m_curl_result_code: "unterminated" is CURLE_RECV_ERROR for a response that has no
\* Content-Length, which some servers end in this way.
Results == {"ok", "error", "unterminated"}

\* "ref" is which of m_cache_entry_reader and m_cache_entry_writer is set, "got"
\* and "queued" the parts received and those still in m_response_buffer.
NotStarted ==
    [state |-> "none", type |-> "none", key |-> "none", mode |-> "none", ref |-> "none",
     net |-> "idle", sentHeaders |-> FALSE, got |-> 0, queued |-> 0, result |-> "none",
     pipeClosed |-> FALSE, finished |-> 0]

TypeOK ==
    /\ C!TypeOK
    /\ req \in [Requests ->
        [state : States \cup {"none"}, type : Types \cup {"none"},
         key : Keys \cup {"none", "substituted"}, mode : Modes \cup {"none", "Default"},
         ref : {"none", "reader", "writer"}, net : {"idle", "transfer"},
         sentHeaders : BOOLEAN, pipeClosed : BOOLEAN, got : 0..MaxParts, queued : 0..MaxParts,
         result : Results \cup {"none"}, finished : 0..2]]
    /\ running \in [at : Requests, next : Steps] \cup {[at |-> "none", next |-> "idle"]}
    /\ draining \in BOOLEAN
    /\ removal \subseteq Requests

Idle == [at |-> "none", next |-> "idle"]
At(r, step) == running = [at |-> r, next |-> step]
Then(r, step) == running' = [at |-> r, next |-> step]
Returns == running' = Idle
\* An event is taken from the event loop.
Event == running = Idle /\ ~draining
Alive(r) == req[r].state # "none" /\ r \notin gone
In(r, state) == Alive(r) /\ req[r].state = state

Incident(i) == i \in Incidents

\* is_revalidation_request
IsRevalidation(r) == req[r].ref = "reader" /\ C!is_revalidation_request(r)
\* By its mode or by its Cache-Control header; the header's mode is Default.
is_cache_only_request(r) == req[r].mode \in {"OnlyIfCached", "OnlyIfCachedHeader"}
OpenMode(r) == IF req[r].type = "BackgroundRevalidation" THEN "Revalidate" ELSE "Read"
\* open_entry treats the two modes that permit stale responses alike.
CacheMode(r) ==
    CASE req[r].mode = "OnlyIfCached" -> "ForceCache"
      [] req[r].mode = "OnlyIfCachedHeader" -> "Default"
      [] OTHER -> req[r].mode

cacheUnchanged == UNCHANGED cacheVars
restUnchanged == UNCHANGED <<draining, removal>>
-----------------------------------------------------------------------------
(* The end of a request.                                                   *)

\* handle_error_state: a fetch is reported to its client; the removal of the
\* request is deferred.
HandleError(r, q) ==
    /\ req' = [req EXCEPT ![r] =
        [q EXCEPT !.state = "Error",
                  !.finished = IF q.type = "Fetch" THEN @ + 1 ELSE @]]
    /\ removal' = removal \cup {r}
    /\ UNCHANGED draining

Fail(r) == HandleError(r, req[r]) /\ Returns

\* handle_complete_state.  A transfer that failed is an error, for a fetch; one that
\* is not known to be cut short has to have brought data.
TransferFailed(r) ==
    /\ req[r].type = "Fetch"
    /\ req[r].result = "error" \/ (req[r].result = "unterminated" /\ req[r].got = 0)

CompleteFailed(r) ==
    /\ At(r, "complete") /\ TransferFailed(r)
    /\ Fail(r) /\ cacheUnchanged

\* Mutant: the result of the transfer is not looked at before the flush.
CompleteWritesAnyway(r) ==
    /\ At(r, "complete") /\ req[r].ref = "writer"
    /\ IF req[r].type = "Fetch" /\ ~req[r].sentHeaders
       THEN \/ C!write_status_and_reason(r) /\ req' = [req EXCEPT ![r].sentHeaders = TRUE]
            \/ C!write_fails(r)
               /\ req' = [req EXCEPT ![r].sentHeaders = TRUE, ![r].ref = "none"]
       ELSE C!flush(r) /\ req' = [req EXCEPT ![r].ref = "none"]
    /\ UNCHANGED running /\ restUnchanged

\* Headers the writer has not had yet are written, then the entry is flushed.
CompleteWrites(r) ==
    /\ At(r, "complete") /\ req[r].ref = "writer"
    /\ ~TransferFailed(r)
    /\ IF req[r].type = "Fetch" /\ ~req[r].sentHeaders
       THEN \/ C!write_status_and_reason(r) /\ req' = [req EXCEPT ![r].sentHeaders = TRUE]
            \/ C!write_fails(r)
               /\ req' = [req EXCEPT ![r].sentHeaders = TRUE, ![r].ref = "none"]
       ELSE C!flush(r) /\ req' = [req EXCEPT ![r].ref = "none"]
    /\ UNCHANGED running /\ restUnchanged

\* Mutant: the client is told before the entry is flushed.
CompleteFinishesFirst(r) ==
    /\ At(r, "complete")
    /\ ~TransferFailed(r)
    /\ req' = [req EXCEPT ![r].sentHeaders = @ \/ req[r].type = "Fetch",
                          ![r].finished = IF req[r].type = "Fetch" THEN @ + 1 ELSE @]
    /\ removal' = removal \cup {r}
    /\ Returns /\ cacheUnchanged /\ UNCHANGED draining

\* Only then is the client told.
CompleteFinishes(r) ==
    /\ At(r, "complete") /\ req[r].ref # "writer"
    /\ ~TransferFailed(r)
    /\ req' = [req EXCEPT ![r].sentHeaders = @ \/ req[r].type = "Fetch",
                          ![r].finished = IF req[r].type = "Fetch" THEN @ + 1 ELSE @]
    /\ removal' = removal \cup {r}
    /\ Returns /\ cacheUnchanged /\ UNCHANGED draining

\* transition_to_state(State::Complete)
ToComplete(r, q) ==
    /\ req' = [req EXCEPT ![r] = [q EXCEPT !.state = "Complete"]]
    /\ Then(r, "complete")
    /\ restUnchanged

\* Of a request that is no more its type is remembered, and whether the end of its
\* response was not known.
Remembered(q) ==
    [NotStarted EXCEPT !.type = q.type,
                       !.result = IF q.result = "unterminated" THEN q.result ELSE @]

\* Mutant: the writer is left behind as well.
DestroyedWithWriterOpen(r) ==
    /\ r \notin gone
    /\ gone' = gone \cup {r}
    /\ UNCHANGED <<open, wrote, waiting, deferred, row, file, sidecar, torn>>
    /\ req' = [req EXCEPT ![r] = Remembered(@)]

\* ~Request: a writer is closed, a reader is left behind.
Destroyed(r) ==
    /\ C!Destroy(r)
    /\ req' = [req EXCEPT ![r] = Remembered(@)]

\* The deferred removal runs, the client stops the request, or the connection of
\* a background revalidation is gone.
Remove(r) ==
    /\ Event /\ r \in removal
    /\ removal' = removal \ {r}
    /\ IF r \in gone THEN cacheUnchanged /\ UNCHANGED req ELSE Destroyed(r)
    /\ UNCHANGED <<running, draining>>

stop_request(r) ==
    /\ Event /\ Alive(r)
    /\ IF req[r].type = "BackgroundRevalidation" THEN Incident("disconnect") ELSE Incident("stop")
    /\ Destroyed(r)
    /\ UNCHANGED <<running, draining, removal>>
-----------------------------------------------------------------------------
(* The beginning of a request.                                             *)

Started(r, type, key, mode, state) ==
    [NotStarted EXCEPT !.type = type, !.key = key, !.mode = mode, !.state = state]

start_request(r) ==
    /\ Event /\ req[r] = NotStarted /\ r \notin gone
    /\ \E k \in Keys \cup {"substituted"}, m \in Modes :
        /\ k = "substituted" => Incident("substitution")
        /\ req' = [req EXCEPT ![r] = Started(r, "Fetch", k, m, "Init")]
    /\ Then(r, "open")
    /\ cacheUnchanged /\ restUnchanged

ensure_connection(r) ==
    /\ Event /\ Incident("connect") /\ req[r] = NotStarted /\ r \notin gone
    /\ req' = [req EXCEPT ![r] = Started(r, "Connect", "none", "none", "DNSLookup")]
    /\ cacheUnchanged /\ restUnchanged /\ UNCHANGED running

\* A reader that may be used while it is revalidated starts another request,
\* which waits for that reader.
start_revalidation_request(r) ==
    /\ At(r, "spawn")
    /\ \E s \in Requests :
        /\ req[s] = NotStarted /\ s \notin gone
        /\ C!open_entry_waits(s, req[r].key, "Default", "Revalidate")
        /\ req' = [req EXCEPT
            ![s] = Started(s, "BackgroundRevalidation", req[r].key, "Default", "WaitForCache"),
            ![r].state = "ReadCache"]
    /\ Then(r, "read")
    /\ restUnchanged

\* notify_request_unblocked: the next request of the batch begins again.
ResumeNext(r) ==
    /\ running = Idle
    /\ C!notify_request_unblocked(r)
    /\ draining' = (Len(Head(deferred)) > 1)
    /\ IF r \in gone
       THEN UNCHANGED <<req, running>>
       ELSE req' = [req EXCEPT ![r].state = "Init"] /\ Then(r, "open")
    /\ UNCHANGED removal
-----------------------------------------------------------------------------
(* handle_initial_state                                                    *)

Goes(r, state) == req' = [req EXCEPT ![r].state = state] /\ Returns /\ restUnchanged

\* A substituted resource is read and written to the client.
ServeSubstitution(r) ==
    /\ At(r, "open") /\ req[r].key = "substituted"
    /\ \/ ToComplete(r, [req[r] EXCEPT !.result = "ok", !.sentHeaders = TRUE])
       \/ Incident("pipe") /\ Fail(r)
    /\ cacheUnchanged

\* So does a request whose method or headers make it uncacheable.
SkipCache(r) ==
    /\ At(r, "open") /\ req[r].mode = "NoStore" /\ req[r].key # "substituted"
    /\ Goes(r, "DNSLookup") /\ cacheUnchanged

UsesCache(r) == At(r, "open") /\ req[r].key # "substituted" /\ req[r].mode # "NoStore"

OpenWaits(r) ==
    /\ UsesCache(r)
    /\ C!open_entry_waits(r, req[r].key, CacheMode(r), OpenMode(r))
    /\ Goes(r, "WaitForCache")

\* Starting one more request is bounded by Requests.
OpenReads(r) ==
    /\ UsesCache(r)
    /\ \E type \in C!RevalidationTypes :
        /\ type = "StaleWhileRevalidate" => \E s \in Requests : req[s] = NotStarted /\ s \notin gone
        /\ C!open_entry_opens(r, req[r].key, CacheMode(r), OpenMode(r), type)
        /\ CASE type = "StaleWhileRevalidate" ->
                    req' = [req EXCEPT ![r].ref = "reader"] /\ Then(r, "spawn")
             [] type = "None" ->
                    /\ req' = [req EXCEPT ![r].ref = "reader", ![r].state = "ReadCache"]
                    /\ Then(r, "read")
             [] OTHER ->
                    /\ req' = [req EXCEPT ![r].ref = "reader", ![r].state = "DNSLookup"]
                    /\ Returns
    /\ restUnchanged

\* handle_failed_cache_only_state: a network error for the mode, a response with
\* status 504 for the header.
FailedCacheOnly(r) ==
    \/ /\ req[r].mode = "OnlyIfCachedHeader"
       /\ ToComplete(r, [req[r] EXCEPT !.result = "ok", !.sentHeaders = TRUE])
    \/ (req[r].mode = "OnlyIfCached" \/ Incident("pipe")) /\ Fail(r)

\* No entry: a background revalidation has nothing to do, a request for the
\* cache only fails, any other will write one.
OpenFindsNothing(r) ==
    /\ UsesCache(r)
    /\ \/ C!open_entry_none(req[r].key, CacheMode(r), OpenMode(r))
       \/ C!open_entry_unreadable(req[r].key, CacheMode(r), OpenMode(r))
       \/ C!open_entry_expired(req[r].key, CacheMode(r), OpenMode(r))
    /\ IF req[r].type = "BackgroundRevalidation" THEN ToComplete(r, req[r])
       ELSE IF is_cache_only_request(r) THEN FailedCacheOnly(r)
       ELSE Then(r, "create") /\ UNCHANGED req /\ restUnchanged

\* Mutant: a request that is told to wait goes on without the cache.
CreateEntryOrGoOn(r) ==
    /\ At(r, "create")
    /\ \/ C!create_entry_waits(r, req[r].key) /\ Goes(r, "DNSLookup")
       \/ /\ C!create_entry_opens(r, req[r].key)
          /\ req' = [req EXCEPT ![r].ref = "writer", ![r].state = "DNSLookup"]
          /\ Returns /\ restUnchanged

CreateEntry(r) ==
    /\ At(r, "create")
    /\ \/ C!create_entry_waits(r, req[r].key) /\ Goes(r, "WaitForCache")
       \/ /\ C!create_entry_opens(r, req[r].key)
          /\ req' = [req EXCEPT ![r].ref = "writer", ![r].state = "DNSLookup"]
          /\ Returns /\ restUnchanged
-----------------------------------------------------------------------------
(* handle_read_cache_state                                                 *)

SentHeaders(r) == [req[r] EXCEPT !.sentHeaders = TRUE]

\* The reader writes the body to the client's pipe, now or when the pipe takes it.
SendResult(r) ==
    \/ /\ C!send_complete(r) /\ ~req[r].pipeClosed
       /\ ToComplete(r, [SentHeaders(r) EXCEPT !.result = "ok"])
    \/ /\ C!send_error(r) /\ HandleError(r, SentHeaders(r)) /\ Returns
    \/ /\ C!send_blocks(r) /\ ~req[r].pipeClosed
       /\ req' = [req EXCEPT ![r] = SentHeaders(r)] /\ Returns /\ restUnchanged

ReadCacheSends(r) ==
    /\ At(r, "read")
    /\ \/ SendResult(r)
       \/ Incident("pipe") /\ HandleError(r, SentHeaders(r)) /\ Returns /\ cacheUnchanged

\* A large body is handed over as a file.
ReadCacheHandsOver(r) ==
    /\ At(r, "read")
    /\ \/ /\ C!take_body_file(r)
          /\ ToComplete(r, [SentHeaders(r) EXCEPT !.result = "ok", !.ref = "none"])
       \/ C!take_body_file_fails(r) /\ HandleError(r, SentHeaders(r)) /\ Returns

PipeTakesMore(r) ==
    /\ Event /\ In(r, "ReadCache") /\ open[r].kind = "reader" /\ open[r].sending
    /\ SendResult(r)

\* The reader of a destroyed request keeps the number of a closed descriptor,
\* which may come to stand for another pipe.
OrphanSends(r) ==
    /\ Event /\ r \in gone /\ open[r].kind = "reader" /\ open[r].sending
    /\ C!send_complete(r) \/ C!send_error(r)
    /\ UNCHANGED <<req, running, draining, removal>>
-----------------------------------------------------------------------------
(* The network.                                                            *)

\* The callbacks of handle_dns_lookup_state.
DnsAnswers(r) ==
    /\ Event /\ In(r, "DNSLookup")
    /\ \/ IF req[r].type = "Connect"
          THEN Goes(r, "Connect") \/ ToComplete(r, req[r])
          ELSE Goes(r, "RetrieveCookie")
       \/ Incident("dns") /\ Fail(r)
    /\ cacheUnchanged

ConnectEnds(r) ==
    /\ Event /\ In(r, "Connect")
    /\ ToComplete(r, [req[r] EXCEPT !.result = "ok"]) /\ cacheUnchanged

\* handle_retrieve_cookie_state, its answer and handle_fetch_state: without a
\* primary connection, a curl handle or a pipe the request fails.
CookieAnswers(r) ==
    /\ Event /\ In(r, "RetrieveCookie")
    /\ \/ /\ req' = [req EXCEPT ![r].state = "Fetch", ![r].net = "transfer"]
          /\ Returns /\ restUnchanged
       \/ Incident("cookie") /\ Fail(r)
       \/ Incident("pipe") /\ req[r].type = "Fetch" /\ ~IsRevalidation(r) /\ Fail(r)
    /\ cacheUnchanged

Transfers(r) == In(r, "Fetch") /\ req[r].net = "transfer"

\* on_data_received: the first data of a revalidation means that the entry has
\* changed.  The reader goes, and a writer takes its place.
on_data_received(r) ==
    /\ Event /\ Transfers(r) /\ req[r].got < MaxParts
    /\ LET q == [req[r] EXCEPT !.got = @ + 1, !.queued = @ + 1] IN
       IF IsRevalidation(r)
       THEN /\ C!revalidation_failed(r)
            /\ \/ req' = [req EXCEPT ![r] = [q EXCEPT !.ref = "none"]]
                  /\ Then(r, "recreate") /\ restUnchanged
               \/ /\ Incident("pipe") /\ q.type = "Fetch"
                  /\ HandleError(r, [req[r] EXCEPT !.got = @ + 1, !.ref = "none"])
                  /\ Then(r, "aborted")
       ELSE /\ req' = [req EXCEPT ![r] = q] /\ Then(r, "headers")
            /\ cacheUnchanged /\ restUnchanged

Recreate(r) ==
    /\ At(r, "recreate")
    /\ \/ C!create_entry_opens(r, req[r].key) /\ req' = [req EXCEPT ![r].ref = "writer"]
       \/ C!create_entry_waits(r, req[r].key) /\ UNCHANGED req
    /\ Then(r, "headers") /\ restUnchanged

\* transfer_headers_to_client_if_needed
TransferHeaders(r) ==
    /\ At(r, "headers")
    /\ Then(r, "data") /\ restUnchanged
    /\ IF req[r].sentHeaders \/ req[r].ref # "writer"
       THEN req' = [req EXCEPT ![r] = SentHeaders(r)] /\ cacheUnchanged
       ELSE \/ C!write_status_and_reason(r) /\ req' = [req EXCEPT ![r] = SentHeaders(r)]
            \/ C!write_fails(r) /\ req' = [req EXCEPT ![r] = [SentHeaders(r) EXCEPT !.ref = "none"]]

\* Mutant: the reference to a writer that closed itself is kept.
WriteQueuedKeepsWriter(r) ==
    /\ At(r, "data") \/ At(r, "writable")
    /\ req[r].queued > 0 /\ ~req[r].pipeClosed
    /\ Then(r, "data") /\ restUnchanged
    /\ req' = [req EXCEPT ![r].queued = @ - 1]
    /\ IF req[r].ref = "writer" THEN C!write_data(r) \/ C!write_fails(r) ELSE cacheUnchanged

\* Mutant: the pipe is written to with nothing queued.
WriteUnqueued(r) ==
    /\ At(r, "data") \/ At(r, "writable")
    /\ ~req[r].pipeClosed
    /\ Then(r, "data") /\ restUnchanged
    /\ req' = [req EXCEPT ![r].queued = @ - 1]
    /\ IF req[r].ref = "writer" THEN C!write_data(r) ELSE cacheUnchanged

\* write_queued_bytes_without_blocking: what the client takes is also written to
\* the entry; for a background revalidation that is everything.
WriteQueued(r) ==
    /\ At(r, "data") \/ At(r, "writable")
    /\ req[r].queued > 0 /\ ~req[r].pipeClosed
    /\ Then(r, "data") /\ restUnchanged
    /\ \/ /\ req[r].ref = "writer" /\ C!write_data(r)
          /\ req' = [req EXCEPT ![r].queued = @ - 1]
       \/ /\ req[r].ref = "writer" /\ C!write_fails(r)
          /\ req' = [req EXCEPT ![r].queued = @ - 1, ![r].ref = "none"]
       \/ /\ req[r].ref # "writer" /\ cacheUnchanged
          /\ req' = [req EXCEPT ![r].queued = @ - 1]

\* The rest waits until the pipe's notifier says that it can be written to.
PipeIsFull(r) ==
    /\ At(r, "data") /\ req[r].queued > 0 /\ req[r].type = "Fetch" /\ ~req[r].pipeClosed
    /\ Returns /\ cacheUnchanged /\ UNCHANGED req /\ restUnchanged

\* The client has closed its end: the error ends a transfer in curl's callback,
\* and is only logged when the pipe's notifier was the caller.
PipeIsClosed(r) ==
    /\ At(r, "data") \/ At(r, "writable")
    /\ req[r].queued > 0 /\ req[r].pipeClosed
    /\ IF At(r, "data") /\ req[r].net = "transfer" THEN Then(r, "aborted") ELSE Returns
    /\ cacheUnchanged /\ UNCHANGED req /\ restUnchanged

AllWritten(r) ==
    /\ At(r, "data") /\ req[r].queued = 0
    /\ cacheUnchanged
    /\ IF req[r].result # "none" THEN ToComplete(r, req[r])
       ELSE Returns /\ UNCHANGED req /\ restUnchanged

PipeIsWritable(r) ==
    /\ Event /\ In(r, "Fetch") /\ req[r].queued > 0 /\ req[r].type = "Fetch"
    /\ Then(r, "writable")
    /\ cacheUnchanged /\ UNCHANGED req /\ restUnchanged

ClientClosesPipe(r) ==
    /\ Event /\ Alive(r) /\ req[r].type = "Fetch" /\ Incident("client")
    /\ req[r].state \in {"ReadCache", "Fetch"} /\ ~req[r].pipeClosed
    /\ req' = [req EXCEPT ![r].pipeClosed = TRUE]
    /\ cacheUnchanged /\ UNCHANGED running /\ restUnchanged

\* notify_fetch_complete, when the answer is that nothing has changed ...
NotModified(r) ==
    /\ Event /\ Transfers(r) /\ IsRevalidation(r) /\ req[r].got = 0
    /\ C!revalidation_succeeded(r)
    /\ IF req[r].type = "Fetch"
       THEN /\ req' = [req EXCEPT ![r].state = "ReadCache", ![r].net = "idle"]
            /\ Then(r, "read") /\ restUnchanged
       ELSE ToComplete(r, [req[r] EXCEPT !.net = "idle"])

\* How a transfer may end.
MayEnd(result) ==
    \/ result = "ok"
    \/ result = "error" /\ Incident("network")
    \/ result = "unterminated" /\ Incident("hangup")

\* ... when a revalidation ended without data: the entry is removed ...
RevalidationEnds(r) ==
    /\ Event /\ Transfers(r) /\ IsRevalidation(r)
    /\ C!revalidation_failed(r)
    /\ LET q == [req[r] EXCEPT !.net = "idle", !.ref = "none"] IN
       \/ \E result \in Results :
            /\ MayEnd(result)
            /\ ToComplete(r, [q EXCEPT !.result = result, !.sentHeaders = TRUE])
       \/ Incident("pipe") /\ q.type = "Fetch" /\ HandleError(r, q) /\ Returns

\* ... and otherwise.  What is still queued is written first.
TransferEnded(r, result) ==
    LET q == [req[r] EXCEPT !.net = "idle", !.result = result] IN
    /\ IF req[r].queued = 0 THEN ToComplete(r, q)
       ELSE req' = [req EXCEPT ![r] = q] /\ Returns /\ restUnchanged
    /\ cacheUnchanged

TransferEnds(r) ==
    /\ Event /\ Transfers(r) /\ ~IsRevalidation(r)
    /\ \E result \in Results :
        /\ MayEnd(result) /\ (result = "ok" => req[r].got = MaxParts)
        /\ TransferEnded(r, result)

\* curl reports a transfer that its callback aborted before anything else happens.
TransferAborted(r) == At(r, "aborted") /\ TransferEnded(r, "error")
-----------------------------------------------------------------------------
(* Other clients of the cache.                                             *)

ClearCache ==
    /\ Event /\ Incident("clear")
    /\ C!remove_entries_accessed_since
    /\ UNCHANGED <<req, running, draining, removal>>

StoreAssociatedData ==
    /\ Event /\ Incident("store")
    /\ \E s \in C!Slots : C!store_associated_data(s)
    /\ UNCHANGED <<req, running, draining, removal>>
-----------------------------------------------------------------------------
Init ==
    /\ C!Init
    /\ req = [r \in Requests |-> NotStarted]
    /\ running = Idle
    /\ draining = FALSE
    /\ removal = {}

\* The steps of a handler that has begun, and what was deferred.
Handler(r) ==
    \/ CompleteFailed(r) \/ CompleteWrites(r) \/ CompleteFinishes(r)
    \/ start_revalidation_request(r)
    \/ ServeSubstitution(r) \/ SkipCache(r)
    \/ OpenWaits(r) \/ OpenReads(r) \/ OpenFindsNothing(r) \/ CreateEntry(r)
    \/ ReadCacheSends(r) \/ ReadCacheHandsOver(r)
    \/ Recreate(r) \/ TransferHeaders(r)
    \/ WriteQueued(r) \/ PipeIsFull(r) \/ PipeIsClosed(r) \/ AllWritten(r)
    \/ TransferAborted(r)
Deferred(r) == Remove(r) \/ ResumeNext(r)
Answers(r) ==
    \/ DnsAnswers(r) \/ CookieAnswers(r) \/ ConnectEnds(r)
    \/ NotModified(r) \/ RevalidationEnds(r) \/ TransferEnds(r)
    \/ PipeIsWritable(r) \/ PipeTakesMore(r)

Next ==
    \/ \E r \in Requests :
        \/ Handler(r) \/ Deferred(r) \/ Answers(r) \/ on_data_received(r)
        \/ start_request(r) \/ ensure_connection(r) \/ stop_request(r)
        \/ ClientClosesPipe(r) \/ OrphanSends(r)
    \/ ClearCache \/ StoreAssociatedData

Spec == Init /\ [][Next]_vars

\* Handlers run to their end and deferred calls are made; DNS, the cookie jar,
\* the server and the client answer in the end.
FairSpec ==
    /\ Spec
    /\ WF_vars(\E r \in Requests : Handler(r))
    /\ \A r \in Requests :
        WF_vars(Deferred(r)) /\ WF_vars(Answers(r) \/ on_data_received(r))
-----------------------------------------------------------------------------
(* Properties.                                                             *)

\* Every step of every request is one the disk cache allows: requests call it
\* only when they have no entry and do not wait, so that what DiskCache shows
\* of all callers holds of these.
ImplementsDiskCache == C!Spec

\* A request that is to be resumed is one that waits.  notify_request_unblocked
\* does not look at the state: resuming any other request would start it anew
\* with an entry or a transfer under way.
ResumedWhileWaiting ==
    \A r \in Requests \ gone : C!Waiting(r) => req[r].state = "WaitForCache"

\* The VERIFY_NOT_REACHED of on_data_received: when a revalidation has closed its
\* reader nobody else has the entry, although others may be resumed by then.
RevalidationIsExclusive ==
    \A r \in Requests : At(r, "recreate") => ~C!HasOpenEntry(req[r].key, TRUE)

\* A request does not use an entry that was destroyed: as long as it may use its
\* reference the entry is open, and a writer that was given the headers has the
\* path that flush asserts.
ReferencesAreOpen ==
    \A r \in Requests \ gone :
        /\ req[r].ref # "none" /\ req[r].state \notin {"Complete", "Error"}
            => open[r].kind = req[r].ref
        /\ req[r].ref = "writer" /\ req[r].sentHeaders => open[r].vary # "none"

\* A client that is told of the end of its request may store data for the entry
\* at once: the entry is closed, and in the index if it ever will be.
FinishedMeansFlushed ==
    \A r \in Requests :
        req[r].finished > 0 /\ req[r].state = "Complete" => open[r].kind # "writer"

\* What a fetch stores is a whole response, whenever its transfer, its client or
\* the cache fails; or at least part of one whose end nobody knows, as the comment in
\* handle_complete_state (Request.cpp:1008-1012) permits.
FetchesStoreWholeBodies ==
    \A s \in C!Slots : \A r \in Requests :
        row[s].of = r /\ req[r].type = "Fetch" =>
            \/ row[s].parts = MaxParts
            \/ row[s].parts > 0 /\ req[r].result = "unterminated"

\* The same of all requests (src/Libraries/LibHTTP/Cache/CacheIndex.h:20).
OnlyWholeBodies == \A s \in C!Slots : row[s].of \in Requests => row[s].parts = MaxParts

\* A reader that its request left open, or a client that reads no more.
Abandoned(r) == req[r].pipeClosed \/ (r \in gone /\ open[r].kind = "reader")

\* Every request comes to its end, however many wait for one another's entries,
\* if no reader is left open by a request that is no more.
EveryRequestEnds ==
    [](\A r \in Requests : ~Abandoned(r)) =>
        \A r \in Requests : req[r].state # "none" ~> r \in gone

\* A request that waits for an entry is resumed (Request.h:85).
WaitingEnds ==
    \A r \in Requests : In(r, "WaitForCache") ~> ~In(r, "WaitForCache")
=============================================================================
