--------------------------- MODULE RequestProofs ---------------------------
(***************************************************************************)
(* Proofs about the requests of RequestServer: what they do to the disk    *)
(* cache is what DiskCache allows, and what they keep of their own state.  *)
(*                                                                         *)
(* P is the disk cache that Request calls C, with what is proved of it.    *)
(***************************************************************************)
EXTENDS Request, TLAPS

P == INSTANCE DiskCacheProofs

-----------------------------------------------------------------------------
(* The disk cache.                                                         *)

\* The two names of the disk cache's parameters, operations and states stand for the same.
LEMMA SameCache ==
    /\ C!Init <=> P!Init
    /\ C!Next <=> P!Next
    /\ C!cacheVars = P!cacheVars
    /\ C!TypeOK <=> P!TypeOK
    /\ C!Slots = P!Slots /\ C!NoEntry = P!NoEntry /\ C!Absent = P!Absent
    /\ C!CacheModes = P!CacheModes /\ C!OpenModes = P!OpenModes
    /\ C!RevalidationTypes = P!RevalidationTypes
    /\ \A r : C!Waiting(r) <=> P!Waiting(r)
    /\ \A r : C!is_revalidation_request(r) <=> P!is_revalidation_request(r)
    /\ \A r : C!MayCall(r) <=> P!MayCall(r)
    /\ \A r : C!Waiting(r)' <=> P!Waiting(r)'
    /\ \A r : C!Written(r) = P!Written(r)
    /\ \A k, b : C!HasOpenEntry(k, b) <=> P!HasOpenEntry(k, b)
    /\ \A k, b : C!HasOpenEntry(k, b)' <=> P!HasOpenEntry(k, b)'
    /\ \A r, k : C!WaitFor(r, k) <=> P!WaitFor(r, k)
    /\ \A r, k, m, o : C!open_entry_waits(r, k, m, o) <=> P!open_entry_waits(r, k, m, o)
    /\ \A k, m, o : C!open_entry_none(k, m, o) <=> P!open_entry_none(k, m, o)
    /\ \A k, m, o : C!open_entry_unreadable(k, m, o) <=> P!open_entry_unreadable(k, m, o)
    /\ \A k, m, o : C!open_entry_expired(k, m, o) <=> P!open_entry_expired(k, m, o)
    /\ \A r, k, m, o, t : C!open_entry_opens(r, k, m, o, t) <=> P!open_entry_opens(r, k, m, o, t)
    /\ \A r, k : C!create_entry_waits(r, k) <=> P!create_entry_waits(r, k)
    /\ \A r, k : C!create_entry_opens(r, k) <=> P!create_entry_opens(r, k)
    /\ \A r : C!write_fails(r) <=> P!write_fails(r)
    /\ \A r : C!write_status_and_reason(r) <=> P!write_status_and_reason(r)
    /\ \A r : C!write_data(r) <=> P!write_data(r)
    /\ \A r : C!flush(r) <=> P!flush(r)
    /\ \A r : C!revalidation_succeeded(r) <=> P!revalidation_succeeded(r)
    /\ \A r : C!revalidation_failed(r) <=> P!revalidation_failed(r)
    /\ \A r : C!send_blocks(r) <=> P!send_blocks(r)
    /\ \A r : C!send_complete(r) <=> P!send_complete(r)
    /\ \A r : C!send_error(r) <=> P!send_error(r)
    /\ \A r : C!take_body_file(r) <=> P!take_body_file(r)
    /\ \A r : C!take_body_file_fails(r) <=> P!take_body_file_fails(r)
    /\ \A r : C!store_associated_data(r) <=> P!store_associated_data(r)
    /\ \A r : C!notify_request_unblocked(r) <=> P!notify_request_unblocked(r)
    /\ \A r : C!Destroy(r) <=> P!Destroy(r)
    /\ C!remove_entries_accessed_since <=> P!remove_entries_accessed_since
BY DEF C!diskVars, C!lockVars, C!cacheVars, C!Slots, C!Responses, C!Absent, C!Bodies,
       C!CacheModes, C!OpenModes, C!LifetimeStatuses, C!RevalidationTypes, C!Readers, C!Writers,
       C!NoEntry, C!Entries, C!TypeOK, C!IsReader, C!IsWriter, C!KeyOf, C!OpenOn, C!Elements,
       C!Waiting, C!is_revalidation_request, C!HasOpenEntry, C!WaitFor, C!CloseIn, C!Close,
       C!MarkForDeletion, C!Without, C!RemoveSlots, C!RemoveAndClose, C!Disposition,
       C!PassesLock, C!open_entry_waits, C!open_entry_none, C!open_entry_unreadable,
       C!open_entry_expired, C!open_entry_opens, C!create_entry_waits, C!create_entry_opens,
       C!write_fails, C!write_status_and_reason, C!WriterSlot, C!Written, C!write_data,
       C!flush_succeeds, C!flush_refused, C!flush_interrupted, C!flush, C!revalidation_succeeded,
       C!revalidation_failed, C!FooterIsValid, C!send_blocks, C!send_complete, C!send_error,
       C!take_body_file, C!take_body_file_fails, C!store_associated_data,
       C!remove_entries_accessed_since, C!notify_request_unblocked, C!Destroy, C!FlushCutShort,
       C!DeletionCutShort, C!Crash, C!MayCall, C!open_entry, C!create_entry, C!Write, C!Read,
       C!Init, C!Next, P!diskVars, P!lockVars, P!cacheVars, P!Slots, P!Responses, P!Absent,
       P!Bodies, P!CacheModes, P!OpenModes, P!LifetimeStatuses, P!RevalidationTypes, P!Readers,
       P!Writers, P!NoEntry, P!Entries, P!TypeOK, P!IsReader, P!IsWriter, P!KeyOf, P!OpenOn,
       P!Elements, P!Waiting, P!is_revalidation_request, P!HasOpenEntry, P!WaitFor, P!CloseIn,
       P!Close, P!MarkForDeletion, P!Without, P!RemoveSlots, P!RemoveAndClose, P!Disposition,
       P!PassesLock, P!open_entry_waits, P!open_entry_none, P!open_entry_unreadable,
       P!open_entry_expired, P!open_entry_opens, P!create_entry_waits, P!create_entry_opens,
       P!write_fails, P!write_status_and_reason, P!WriterSlot, P!Written, P!write_data,
       P!flush_succeeds, P!flush_refused, P!flush_interrupted, P!flush, P!revalidation_succeeded,
       P!revalidation_failed, P!FooterIsValid, P!send_blocks, P!send_complete, P!send_error,
       P!take_body_file, P!take_body_file_fails, P!store_associated_data,
       P!remove_entries_accessed_since, P!notify_request_unblocked, P!Destroy, P!FlushCutShort,
       P!DeletionCutShort, P!Crash, P!MayCall, P!open_entry, P!create_entry, P!Write, P!Read,
       P!Init, P!Next

-----------------------------------------------------------------------------
(* The invariant of one request.                                           *)

ReqRecord ==
    [state : States \cup {"none"}, type : Types \cup {"none"},
     key : Keys \cup {"none", "substituted"}, mode : Modes \cup {"none", "Default"},
     ref : {"none", "reader", "writer"}, net : {"idle", "transfer"},
     sentHeaders : BOOLEAN, pipeClosed : BOOLEAN, got : 0..MaxParts, queued : 0..MaxParts,
     result : Results \cup {"none"}, finished : 0..2]

RequestTypes ==
    /\ req \in [Requests -> ReqRecord]
    /\ running \in [at : Requests, next : Steps] \cup {Idle}
    /\ draining \in BOOLEAN
    /\ removal \subseteq Requests

Ended == {"Complete", "Error"}
Fetching == {"DNSLookup", "RetrieveCookie", "Fetch"}
Cached == {"Fetch", "BackgroundRevalidation"}

\* The step that the handler of r takes next.
StepOf(r) == IF running.at = r THEN running.next ELSE "idle"

\* What a request has of its response, by its state.
Untouched(q) == q.got = 0 /\ q.queued = 0 /\ ~q.sentHeaders /\ q.result = "none"

Progress(q) ==
    /\ q.queued <= q.got
    /\ q.state \in {"none", "Init", "WaitForCache", "DNSLookup", "RetrieveCookie"} => Untouched(q)
    /\ q.state = "Fetch" /\ q.ref = "reader" => Untouched(q)
    /\ q.state \in {"Init", "WaitForCache"} => q.type \in Cached
    /\ q.type \in Cached => q.mode # "none" /\ q.key \in Keys \cup {"substituted"}
    /\ q.type = "BackgroundRevalidation" => q.mode = "Default" /\ q.key \in Keys
    /\ q.state = "none" => q.ref = "none"
    /\ q.state = "Connect" => q.type = "Connect"
    /\ q.ref # "none" => q.type \in Cached
    /\ q.ref = "writer" /\ q.result = "ok" => q.got = MaxParts
    /\ q.finished > 0 => q.state \in Ended
    /\ q.finished > 0 /\ q.state = "Complete" => q.ref # "writer"

\* Its reference and the entry that the cache has open for it.
EntryFits(q, e) ==
    /\ q.ref = "writer" <=> e.kind = "writer"
    /\ e.kind = "reader" => q.ref = "reader"
    /\ q.ref = "reader" /\ q.state \notin Ended => e.kind = "reader"
    /\ e.kind = "writer" => /\ e.key = q.key /\ e.parts + q.queued = q.got
                            /\ q.sentHeaders => e.vary # "none"
    /\ e.kind = "reader" => /\ e.slot[1] = q.key
                            /\ e.type = "Background" <=> q.type = "BackgroundRevalidation"
    /\ e.kind = "reader" /\ q.state \in Fetching => e.type \in {"MustRevalidate", "Background"}

\* What it is in the middle of.
StepFits(q, a) ==
    /\ a # "idle" => q.finished <= 1
    /\ a \in {"open", "create"} => q.state = "Init" /\ q.ref = "none"
    /\ a = "create" => q.key \in Keys /\ q.type = "Fetch"
    /\ a = "spawn" => q.state = "Init" /\ q.ref = "reader"
    /\ a = "read" => q.state = "ReadCache" /\ q.ref = "reader"
    /\ a = "recreate" => /\ q.state = "Fetch" /\ q.ref = "none" /\ q.key \in Keys /\ q.type \in Cached
                         /\ q.queued = q.got /\ ~q.sentHeaders /\ q.result = "none"
    /\ a \in {"headers", "data", "writable"} => q.state = "Fetch" /\ q.ref # "reader"
    /\ a = "complete" => /\ q.state = "Complete"
                         /\ q.ref = "writer" => q.queued = 0 /\ q.result # "none"
    /\ a = "aborted" => /\ q.state \in {"Fetch", "Error"} /\ q.ref # "reader"
                        /\ q.state = "Error" => q.ref # "writer"

\* A request has one writer in its life, and no reader after it.
WroteFits(q, a) ==
    /\ q.ref # "reader" /\ q.state \in Fetching \cup Ended \cup {"Connect"}
    /\ a # "recreate" /\ ~(a = "aborted" /\ q.state = "Error")

Fits(q, e, a) == Progress(q) /\ EntryFits(q, e) /\ StepFits(q, a)

\* A request that has been destroyed has no state, and one that has not is in order.
Sound(r) ==
    /\ r \in gone => req[r].state = "none"
    /\ r \notin gone =>
        /\ Fits(req[r], open[r], StepOf(r))
        /\ r \in wrote => WroteFits(req[r], StepOf(r))
        /\ req[r].ref = "writer" => r \in wrote
        /\ P!Waiting(r) => req[r].state = "WaitForCache"

\* The rows it wrote, which may outlive it.
Whole(q, n) ==
    q.type = "Fetch" => n = MaxParts \/ (n > 0 /\ q.result = "unterminated")

RowsOf(r) ==
    \A s \in P!Slots : row[s].of = r =>
        /\ r \in wrote
        /\ r \in gone \/ req[r].state \in Ended
        /\ Whole(req[r], row[s].parts)

NoneRunsDestroyed == \A r \in gone : running.at # r

Inv ==
    /\ P!CacheInv /\ P!WaitInv
    /\ RequestTypes /\ NoneRunsDestroyed /\ RevalidationIsExclusive
    /\ \A r \in Requests : Sound(r) /\ RowsOf(r)

-----------------------------------------------------------------------------
(* What is known of the request that takes a step.                         *)

\* All of what the invariant says of a request r that is there, with next step a.
Known(r, a) ==
    /\ r \notin gone /\ req[r] \in ReqRecord /\ open[r] \in P!Entries
    /\ Fits(req[r], open[r], a)
    /\ r \in wrote => WroteFits(req[r], a)
    /\ req[r].ref = "writer" => r \in wrote
    /\ P!Waiting(r) => req[r].state = "WaitForCache"

\* A handler that is running belongs to a request that is there.
LEMMA AtKnown ==
    ASSUME Inv, NEW r \in Requests, NEW a, At(r, a)
    PROVE  Known(r, a) /\ running.at = r
<1>1. running.at = r /\ running.next = a
  BY DEF At
<1>2. StepOf(r) = a
  BY <1>1 DEF StepOf
<1>3. r \notin gone
  BY <1>1 DEF Inv, NoneRunsDestroyed
<1>4. Sound(r) /\ req[r] \in ReqRecord
  BY DEF Inv, RequestTypes
<1>5. open[r] \in P!Entries
  BY DEF Inv, P!CacheInv, P!LockTypes
<1> QED
  BY <1>1, <1>2, <1>3, <1>4, <1>5 DEF Known, Sound

\* So does an event, when no handler is running.
LEMMA IdleKnown ==
    ASSUME Inv, NEW r \in Requests, running = Idle, r \notin gone
    PROVE  Known(r, "idle") /\ running.at # r
<1>1. running.at = "none" /\ r # "none"
  BY RequestAssumption DEF Idle
<1>2. StepOf(r) = "idle"
  BY <1>1 DEF StepOf
<1>4. Sound(r) /\ req[r] \in ReqRecord
  BY DEF Inv, RequestTypes
<1>5. open[r] \in P!Entries
  BY DEF Inv, P!CacheInv, P!LockTypes
<1> QED
  BY <1>1, <1>2, <1>4, <1>5 DEF Known, Sound

\* A request that has no reference has no entry, and may call the cache unless it waits.
LEMMA MayCallWithoutEntry ==
    ASSUME NEW r \in Requests, NEW a, Known(r, a), req[r].ref = "none",
           req[r].state # "WaitForCache"
    PROVE  P!MayCall(r) /\ open[r] = P!NoEntry
<1>1. open[r].kind \in {"reader", "writer", "none"} /\ (open[r].kind = "none" <=> open[r] = P!NoEntry)
  BY RequestAssumption, P!EntryShape DEF Known
<1>2. open[r].kind # "writer" /\ open[r].kind # "reader"
  BY DEF Known, Fits, EntryFits
<1> QED
  BY <1>1, <1>2 DEF P!MayCall, Known

\* What handle_initial_state passes to open_entry.
LEMMA OpenArguments ==
    ASSUME Inv, NEW r \in Requests, UsesCache(r)
    PROVE  /\ Known(r, "open") /\ running.at = r
           /\ req[r].key \in Keys
           /\ CacheMode(r) \in P!CacheModes /\ OpenMode(r) \in P!OpenModes
           /\ OpenMode(r) = "Revalidate" => CacheMode(r) = "Default"
           /\ req[r].state = "Init" /\ req[r].ref = "none"
<1>1. Known(r, "open") /\ running.at = r
  BY AtKnown DEF UsesCache
<1> DEFINE q == req[r]
<1>2. q.state = "Init" /\ q.ref = "none" /\ q.type \in Cached
  BY <1>1 DEF Known, Fits, StepFits, Progress
<1>3. q.mode \in Modes \cup {"none", "Default"} /\ q.mode # "none"
  BY <1>1, <1>2 DEF Known, Fits, Progress, ReqRecord
<1>4. q.key \in Keys \cup {"substituted"}
  BY <1>1, <1>2 DEF Known, Fits, Progress
<1>5. q.type = "BackgroundRevalidation" => q.mode = "Default"
  BY <1>1 DEF Known, Fits, Progress
<1>6. q.mode # "NoStore" /\ q.key # "substituted"
  BY DEF UsesCache
<1>7. q.mode \in {"Default", "Reload", "NoCache", "ForceCache", "OnlyIfCached", "OnlyIfCachedHeader"}
  BY <1>3, <1>6, RequestAssumption
<1>8. CacheMode(r) \in P!CacheModes
  BY <1>7 DEF CacheMode, P!CacheModes
<1>9. OpenMode(r) \in P!OpenModes /\ (OpenMode(r) = "Revalidate" => CacheMode(r) = "Default")
  BY <1>5 DEF OpenMode, CacheMode, P!OpenModes
<1> QED
  BY <1>1, <1>2, <1>4, <1>6, <1>8, <1>9

-----------------------------------------------------------------------------
(* Every step is one that the disk cache allows.                           *)

Allowed == P!Next \/ UNCHANGED cacheVars

\* What the cache allows of a request.
LEMMA CallsAllowed ==
    ASSUME NEW r \in Requests, P!Calls(r)
    PROVE  Allowed
BY DEF P!Calls, Allowed, P!Next

\* What a request may do with its writer or its reader is always allowed.
LEMMA EntryStepCalls ==
    ASSUME NEW r \in Requests,
           \/ C!write_status_and_reason(r) \/ C!write_data(r) \/ C!flush(r) \/ C!write_fails(r)
           \/ C!revalidation_succeeded(r) \/ C!revalidation_failed(r)
           \/ C!send_blocks(r) \/ C!send_complete(r) \/ C!send_error(r)
           \/ C!take_body_file(r) \/ C!take_body_file_fails(r)
           \/ C!notify_request_unblocked(r) \/ C!Destroy(r)
    PROVE  P!Calls(r)
<1>1. P!Write(r) \/ P!Read(r) \/ P!notify_request_unblocked(r) \/ P!Destroy(r)
  BY SameCache DEF P!Write, P!Read, P!flush
<1> QED
  BY <1>1 DEF P!Calls

\* handle_initial_state calls open_entry with nothing open and waiting for nothing.
LEMMA OpenCalls ==
    ASSUME Inv, NEW r \in Requests, UsesCache(r),
           \/ C!open_entry_waits(r, req[r].key, CacheMode(r), OpenMode(r))
           \/ C!open_entry_none(req[r].key, CacheMode(r), OpenMode(r))
           \/ C!open_entry_unreadable(req[r].key, CacheMode(r), OpenMode(r))
           \/ C!open_entry_expired(req[r].key, CacheMode(r), OpenMode(r))
           \/ \E type \in C!RevalidationTypes :
                C!open_entry_opens(r, req[r].key, CacheMode(r), OpenMode(r), type)
    PROVE  P!Calls(r)
<1>1. P!MayCall(r)
  BY OpenArguments, MayCallWithoutEntry
<1>2. P!open_entry(r, req[r].key)
  BY OpenArguments, SameCache DEF P!open_entry
<1> QED
  BY <1>1, <1>2, OpenArguments DEF P!Calls

\* create_entry is called by a request that has never had a writer.
LEMMA CreateCalls ==
    ASSUME Inv, NEW r \in Requests, At(r, "create") \/ At(r, "recreate"),
           C!create_entry_waits(r, req[r].key) \/ C!create_entry_opens(r, req[r].key)
    PROVE  P!Calls(r)
<1>1. PICK a \in {"create", "recreate"} : At(r, a)
  OBVIOUS
<1>2. Known(r, a)
  BY <1>1, AtKnown
<1>3. req[r].ref = "none" /\ req[r].state \in {"Init", "Fetch"} /\ req[r].key \in Keys
  BY <1>1, <1>2 DEF Known, Fits, StepFits
<1>4. P!MayCall(r)
  BY <1>2, <1>3, MayCallWithoutEntry
<1>5. r \notin wrote
  <2>1. CASE a = "create"
    BY <1>2, <2>1 DEF Known, Fits, StepFits, WroteFits, Fetching, Ended
  <2>2. CASE a = "recreate"
    BY <1>2, <2>2 DEF Known, WroteFits
  <2> QED
    BY <2>1, <2>2
<1>6. P!create_entry(r, req[r].key)
  BY <1>5, SameCache DEF P!create_entry
<1> QED
  BY <1>3, <1>4, <1>6 DEF P!Calls

\* start_request of a background revalidation calls open_entry for a request that is new.
LEMMA SpawnCalls ==
    ASSUME Inv, NEW r \in Requests, start_revalidation_request(r),
           NEW s \in Requests, req[s] = NotStarted, s \notin gone,
           C!open_entry_waits(s, req[r].key, "Default", "Revalidate")
    PROVE  s # r /\ P!Calls(s) /\ req[r].key \in Keys /\ P!WaitFor(s, req[r].key)
<1>1. req[s] = NotStarted /\ s \notin gone
  OBVIOUS
<1>2. Known(r, "spawn") /\ running.at = r
  BY AtKnown DEF start_revalidation_request
<1>3. /\ open[r].kind = "reader" /\ open[r].slot[1] = req[r].key /\ open[r] \in P!Entries
      /\ req[r].state = "Init"
  BY <1>2 DEF Known, Fits, StepFits, EntryFits, Ended
<1>4. req[r].key \in Keys
  <2>1. open[r] \in P!Readers
    BY <1>3, RequestAssumption, P!EntryShape
  <2> QED
    BY <1>3, <2>1 DEF P!Readers, P!Slots
<1>5. s # r
  BY <1>1, <1>3 DEF NotStarted
<1>6. Known(s, StepOf(s))
  BY <1>1 DEF Inv, Sound, Known, RequestTypes, P!CacheInv, P!LockTypes
<1>7. P!MayCall(s)
  BY <1>1, <1>6, MayCallWithoutEntry DEF NotStarted
<1>8. P!open_entry_waits(s, req[r].key, "Default", "Revalidate")
  BY SameCache
<1>9. P!open_entry(s, req[r].key) /\ P!WaitFor(s, req[r].key)
  BY <1>8 DEF P!open_entry, P!CacheModes, P!OpenModes, P!open_entry_waits
<1> QED
  BY <1>4, <1>5, <1>7, <1>9 DEF P!Calls

\* The next-state relation, as far as one request takes a step.
Turn(r) ==
    \/ Handler(r) \/ Deferred(r) \/ Answers(r) \/ on_data_received(r)
    \/ start_request(r) \/ ensure_connection(r) \/ stop_request(r)
    \/ ClientClosesPipe(r) \/ OrphanSends(r)

\* A request that takes a step makes at most one call of the cache, for itself unless it
\* starts a background revalidation.
LEMMA TurnCalls ==
    ASSUME Inv, NEW r \in Requests, Turn(r), ~start_revalidation_request(r)
    PROVE  cacheUnchanged \/ P!Calls(r)
<1> DEFINE Called == cacheUnchanged \/ P!Calls(r)
<1>1. CASE Handler(r)
  <2>1. CASE CompleteWrites(r)
    BY <2>1, EntryStepCalls DEF CompleteWrites
  <2>2. CASE OpenWaits(r) \/ OpenReads(r) \/ OpenFindsNothing(r)
    <3>1. UsesCache(r)
      BY <2>2 DEF OpenWaits, OpenReads, OpenFindsNothing
    <3> QED
      BY <2>2, <3>1, OpenCalls DEF OpenWaits, OpenReads, OpenFindsNothing
  <2>3. CASE CreateEntry(r) \/ Recreate(r)
    BY <2>3, CreateCalls DEF CreateEntry, Recreate
  <2>4. CASE ReadCacheSends(r) \/ ReadCacheHandsOver(r)
    BY <2>4, EntryStepCalls DEF ReadCacheSends, ReadCacheHandsOver, SendResult
  <2>5. CASE TransferHeaders(r) \/ WriteQueued(r)
    BY <2>5, EntryStepCalls DEF TransferHeaders, WriteQueued
  <2>6. CASE \/ CompleteFailed(r) \/ CompleteFinishes(r) \/ ServeSubstitution(r) \/ SkipCache(r)
             \/ PipeIsFull(r) \/ PipeIsClosed(r) \/ AllWritten(r) \/ TransferAborted(r)
    BY <2>6 DEF CompleteFailed, CompleteFinishes, ServeSubstitution, SkipCache, PipeIsFull,
           PipeIsClosed, AllWritten, TransferAborted, TransferEnded
  <2> QED
    BY <1>1, <2>1, <2>2, <2>3, <2>4, <2>5, <2>6 DEF Handler
<1>2. CASE Deferred(r) \/ stop_request(r)
  BY <1>2, EntryStepCalls DEF Deferred, stop_request, Remove, ResumeNext, Destroyed
<1>3. CASE DnsAnswers(r) \/ CookieAnswers(r) \/ ConnectEnds(r) \/ TransferEnds(r) \/ PipeIsWritable(r)
  <2>1. cacheUnchanged
    BY <1>3 DEF DnsAnswers, CookieAnswers, ConnectEnds, TransferEnds, TransferEnded, PipeIsWritable
  <2> QED
    BY <2>1
<1>4. CASE NotModified(r) \/ RevalidationEnds(r) \/ PipeTakesMore(r)
  <2>1. \/ C!revalidation_succeeded(r) \/ C!revalidation_failed(r)
        \/ C!send_blocks(r) \/ C!send_complete(r) \/ C!send_error(r)
    BY <1>4 DEF NotModified, RevalidationEnds, PipeTakesMore, SendResult
  <2> QED
    BY <2>1, EntryStepCalls
<1>5. CASE on_data_received(r) \/ OrphanSends(r)
  BY <1>5, EntryStepCalls DEF on_data_received, OrphanSends
<1>6. CASE start_request(r) \/ ensure_connection(r) \/ ClientClosesPipe(r)
  BY <1>6 DEF start_request, ensure_connection, ClientClosesPipe
<1> QED
  BY <1>1, <1>2, <1>3, <1>4, <1>5, <1>6 DEF Turn, Answers

\* Every step of Request is one of the disk cache, or none.
LEMMA NextAllowed == ASSUME Inv, [Next]_vars PROVE Allowed
<1>1. CASE UNCHANGED vars
  BY <1>1 DEF vars, Allowed
<1>2. ASSUME NEW r \in Requests, start_revalidation_request(r) PROVE Allowed
  <2>1. PICK s \in Requests : /\ req[s] = NotStarted /\ s \notin gone
                              /\ C!open_entry_waits(s, req[r].key, "Default", "Revalidate")
    BY <1>2 DEF start_revalidation_request
  <2> QED
    BY <1>2, <2>1, SpawnCalls, CallsAllowed
<1>3. ASSUME NEW r \in Requests, Turn(r), ~start_revalidation_request(r) PROVE Allowed
  BY <1>3, TurnCalls, CallsAllowed DEF cacheUnchanged, Allowed
<1>4. CASE ClearCache \/ StoreAssociatedData
  BY <1>4, SameCache DEF ClearCache, StoreAssociatedData, Allowed, P!Next
<1> QED
  BY <1>1, <1>2, <1>3, <1>4 DEF Next, Turn

-----------------------------------------------------------------------------
(* A step of one request.                                                  *)

\* The handler of r goes on with step a, or returns.
GoesOn(r, a) ==
    /\ a \in (Steps \ {"recreate"}) \cup {"idle"}
    /\ running' = IF a = "idle" THEN Idle ELSE [at |-> r, next |-> a]

\* Marks and the state of its file do not matter to the request that has an entry.
LEMMA AlikeFits ==
    ASSUME NEW q, NEW e, NEW f, P!Alike(f, e), EntryFits(q, e)
    PROVE  EntryFits(q, f)
BY DEF P!Alike, EntryFits

\* A request that takes no step and is spared by the cache stays as it is.
LEMMA SparedStaysSound ==
    ASSUME NEW p \in Requests, Sound(p), P!Spared(p), req'[p] = req[p], StepOf(p)' = StepOf(p)
    PROVE  Sound(p)'
<1>0. p \in gone' => req'[p].state = "none"
  BY DEF Sound, P!Spared
<1> SUFFICES ASSUME p \notin gone'
             PROVE  /\ Fits(req'[p], open'[p], StepOf(p)')
                    /\ p \in wrote' => WroteFits(req'[p], StepOf(p)')
                    /\ req'[p].ref = "writer" => p \in wrote'
                    /\ P!Waiting(p)' => req'[p].state = "WaitForCache"
  BY <1>0 DEF Sound
<1>1. p \notin gone /\ (p \in wrote' <=> p \in wrote) /\ (P!Waiting(p)' => P!Waiting(p))
  BY DEF P!Spared
<1>2. P!Alike(open'[p], open[p])
  BY DEF P!Spared
<1>3. EntryFits(req[p], open'[p])
  BY <1>1, <1>2, AlikeFits DEF Sound, Fits
<1> QED
  BY <1>1, <1>3 DEF Sound, Fits

\* Neither do its rows change, when nobody writes one for it.
LEMMA SparedKeepsRows ==
    ASSUME NEW p \in Requests, RowsOf(p), P!Spared(p), req'[p] = req[p],
           \A s \in P!Slots : row'[s].of = p => row'[s] = row[s]
    PROVE  RowsOf(p)'
<1> SUFFICES ASSUME NEW s \in P!Slots, row'[s].of = p
             PROVE  p \in wrote' /\ (p \in gone' \/ req'[p].state \in Ended)
                    /\ Whole(req'[p], row'[s].parts)
  BY DEF RowsOf, P!Slots
<1>1. row'[s] = row[s]
  OBVIOUS
<1> QED
  BY <1>1 DEF RowsOf, P!Spared

\* A step of r that leaves r in order leaves everything in order.
LEMMA TurnKeeps ==
    ASSUME Inv, P!CacheInv', P!WaitInv', NEW r \in Requests, running.at \in {"none", r},
           P!SparesOthers(r), \A p \in Requests \ {r} : req'[p] = req[p],
           RequestTypes', running'.at \in {"none", r}, running'.at = r => r \notin gone',
           RevalidationIsExclusive',
           \A s \in P!Slots : row'[s] \in {P!Absent, row[s], P!Written(r)},
           Sound(r)', RowsOf(r)'
    PROVE  Inv'
<1>1. gone' \subseteq Requests
  BY DEF P!CacheInv, P!LockTypes
<1>2. NoneRunsDestroyed'
  BY <1>1, RequestAssumption DEF NoneRunsDestroyed
<1>3. ASSUME NEW p \in Requests PROVE Sound(p)' /\ RowsOf(p)'
  <2>1. CASE p = r
    BY <2>1
  <2>2. CASE p # r
    <3>1. p # "none" /\ StepOf(p) = "idle" /\ StepOf(p)' = "idle"
      BY <2>2, RequestAssumption DEF StepOf
    <3>2. P!Spared(p) /\ req'[p] = req[p] /\ Sound(p) /\ RowsOf(p)
      BY <2>2 DEF P!SparesOthers, Inv
    <3>3. P!Absent.of = "none" /\ P!Written(r).of = r
      BY DEF P!Absent, P!Written
    <3>4. \A s \in P!Slots : row'[s].of = p => row'[s] = row[s]
      BY <2>2, <3>1, <3>3
    <3> QED
      BY <3>1, <3>2, <3>4, SparedStaysSound, SparedKeepsRows
  <2> QED
    BY <2>1, <2>2
<1> QED
  BY <1>2, <1>3 DEF Inv

\* Only on_data_received makes a writer of a reader.
LEMMA NotRecreating ==
    ASSUME NEW r, NEW a, GoesOn(r, a)
    PROVE  RevalidationIsExclusive'
<1> SUFFICES ASSUME NEW p \in Requests, At(p, "recreate")'
             PROVE  FALSE
  BY DEF RevalidationIsExclusive
<1>1. running' = [at |-> p, next |-> "recreate"]
  BY DEF At
<1>2. running'.next = a
  BY DEF GoesOn, Idle
<1> QED
  BY <1>1, <1>2 DEF GoesOn

\* The usual step: r, which is there, becomes f and goes on with a; no row is written.
LEMMA MoveKeeps ==
    ASSUME Inv, P!CacheInv', P!WaitInv', NEW r \in Requests, running.at \in {"none", r},
           NEW b, Known(r, b),
           NEW f \in ReqRecord, req' = [req EXCEPT ![r] = f], NEW a, GoesOn(r, a),
           draining' \in BOOLEAN, removal' \subseteq Requests,
           P!SparesOthers(r), r \notin gone', wrote \subseteq wrote', P!RowsShrink,
           Fits(f, open'[r], a),
           r \in wrote' => WroteFits(f, a), f.ref = "writer" => r \in wrote',
           P!Waiting(r)' => f.state = "WaitForCache",
           r \in wrote /\ req[r].state \in Ended =>
                f.state \in Ended /\ f.type = req[r].type /\ f.result = req[r].result
    PROVE  Inv'
<1>1. req \in [Requests -> ReqRecord]
  BY DEF Inv, RequestTypes
<1>2. req'[r] = f /\ (\A p \in Requests \ {r} : req'[p] = req[p]) /\ req' \in [Requests -> ReqRecord]
  BY <1>1
<1>3. /\ running' \in [at : Requests, next : Steps] \cup {Idle}
      /\ running'.at \in {"none", r}
  BY DEF GoesOn, Idle
<1>4. RequestTypes'
  BY <1>2, <1>3 DEF RequestTypes, Idle
<1>5. StepOf(r)' = a
  <2>1. r # "none"
    BY RequestAssumption
  <2> QED
    BY <2>1 DEF StepOf, GoesOn, Idle
<1>6. Sound(r)'
  BY <1>2, <1>5 DEF Sound
<1>7. RowsOf(r)'
  <2> SUFFICES ASSUME NEW s \in P!Slots, row'[s].of = r
               PROVE  r \in wrote' /\ req'[r].state \in Ended /\ Whole(req'[r], row'[s].parts)
    BY DEF RowsOf, P!Slots
  <2>1. P!Absent.of = "none" /\ r # "none"
    BY RequestAssumption DEF P!Absent
  <2>2. row'[s] = row[s]
    BY <2>1 DEF P!RowsShrink
  <2>3. r \in wrote /\ req[r].state \in Ended /\ Whole(req[r], row[s].parts)
    BY <2>2 DEF Inv, RowsOf, Known
  <2> QED
    BY <1>2, <2>2, <2>3 DEF Whole
<1>8. \A s \in P!Slots : row'[s] \in {P!Absent, row[s], P!Written(r)}
  BY DEF P!RowsShrink
<1> QED
  BY <1>2, <1>3, <1>4, <1>6, <1>7, <1>8, NotRecreating, TurnKeeps

\* The cache does nothing to r but, perhaps, to its entry and its rows.
Mild(r) ==
    /\ P!SparesOthers(r) /\ UNCHANGED <<gone, wrote>>
    /\ P!RowsShrink
    /\ P!Waiting(r)' => P!Waiting(r)

\* A step that does not call the cache is mild.
LEMMA QuietIsMild ==
    ASSUME Inv, NEW r \in Requests, cacheUnchanged
    PROVE  Mild(r) /\ open' = open
<1>1. UNCHANGED P!lockVars /\ UNCHANGED P!diskVars /\ open' = open /\ UNCHANGED <<gone, wrote>>
  BY DEF cacheUnchanged, cacheVars, P!lockVars, P!diskVars
<1>2. \A p : P!Spared(p)
  BY <1>1, RequestAssumption, P!SparesAll
<1>3. P!RowsShrink
  BY <1>1 DEF P!RowsShrink, P!diskVars
<1> QED
  BY <1>1, <1>2, <1>3 DEF Mild, P!SparesOthers, P!Spared

\* What r has to be after a step that makes f of it, with entry d and next step a.
Onward(r, f, d, a) ==
    /\ f \in ReqRecord
    /\ Fits(f, d, a)
    /\ r \in wrote => WroteFits(f, a)
    /\ f.ref = "writer" => req[r].ref = "writer"
    /\ r \in wrote /\ req[r].state \in Ended =>
            f.state \in Ended /\ f.type = req[r].type /\ f.result = req[r].result

\* A mild step of a request that does not wait.
LEMMA MildKeeps ==
    ASSUME Inv, P!CacheInv', P!WaitInv', NEW r \in Requests, running.at \in {"none", r},
           NEW b, Known(r, b), req[r].state # "WaitForCache",
           NEW f, req' = [req EXCEPT ![r] = f], NEW a, GoesOn(r, a),
           draining' \in BOOLEAN, removal' \subseteq Requests,
           Mild(r), Onward(r, f, open'[r], a)
    PROVE  Inv'
<1>1. r \notin gone' /\ wrote \subseteq wrote' /\ ~P!Waiting(r)' /\ (r \in wrote' <=> r \in wrote)
  BY DEF Mild, Known
<1>2. f.ref = "writer" => r \in wrote'
  BY <1>1 DEF Onward, Known
<1> QED
  BY <1>1, <1>2, MoveKeeps DEF Mild, Onward

-----------------------------------------------------------------------------
(* What a request may become.                                              *)

ErrorRecord(q) ==
    [q EXCEPT !.state = "Error", !.finished = IF q.type = "Fetch" THEN @ + 1 ELSE @]

\* What of the invariant does not depend on the state.
Lasting(q, d) ==
    /\ q.queued <= q.got
    /\ q.type \in Cached => q.mode # "none" /\ q.key \in Keys \cup {"substituted"}
    /\ q.type = "BackgroundRevalidation" => q.mode = "Default" /\ q.key \in Keys
    /\ q.ref = "writer" /\ q.result = "ok" => q.got = MaxParts
    /\ q.ref # "none" => q.type \in Cached
    /\ q.ref = "writer" <=> d.kind = "writer"
    /\ d.kind = "reader" => q.ref = "reader"
    /\ d.kind = "writer" => /\ d.key = q.key /\ d.parts + q.queued = q.got
                            /\ q.sentHeaders => d.vary # "none"
    /\ d.kind = "reader" => /\ d.slot[1] = q.key
                            /\ d.type = "Background" <=> q.type = "BackgroundRevalidation"

\* It holds of every request ...
LEMMA FitsLasts ==
    ASSUME NEW q, NEW d, NEW a, Fits(q, d, a)
    PROVE  Lasting(q, d)
BY DEF Fits, Progress, EntryFits, Lasting

\* ... and is all that is asked of a request at its end.
LEMMA EndFits ==
    ASSUME NEW q, NEW d, NEW a, Lasting(q, d), q.state \in Ended, StepFits(q, a),
           q.state = "Complete" => q.ref # "writer" \/ q.finished = 0
    PROVE  Fits(q, d, a)
BY DEF Fits, Progress, EntryFits, Lasting, Ended, Fetching

\* handle_error_state leaves a request in order.
LEMMA ErrorFits ==
    ASSUME NEW q \in ReqRecord, NEW d, Lasting(q, d), q.finished <= 1
    PROVE  LET f == ErrorRecord(q) IN
           /\ f \in ReqRecord /\ Fits(f, d, "idle") /\ f.state = "Error"
           /\ f.type = q.type /\ f.result = q.result /\ f.ref = q.ref
<1> DEFINE f == ErrorRecord(q)
<1>1. q.finished \in 0..2 /\ (q.finished + 1) \in 0..2
  BY DEF ReqRecord
<1>2. f \in ReqRecord
  <2> DEFINE n == IF q.type = "Fetch" THEN q.finished + 1 ELSE q.finished
             g == [q EXCEPT !.state = "Error"]
  <2>1. g \in ReqRecord /\ n \in 0..2
    BY <1>1 DEF ReqRecord, States
  <2>2. f = [g EXCEPT !.finished = n]
    BY DEF ErrorRecord
  <2> HIDE DEF g, n
  <2> QED
    BY <2>1, <2>2 DEF ReqRecord
<1>3. /\ f.state = "Error" /\ f.type = q.type /\ f.key = q.key /\ f.mode = q.mode /\ f.ref = q.ref
      /\ f.sentHeaders = q.sentHeaders /\ f.got = q.got /\ f.queued = q.queued
      /\ f.result = q.result
  BY DEF ErrorRecord, ReqRecord
<1> HIDE DEF f
<1>4. Lasting(f, d)
  BY <1>3 DEF Lasting
<1>5. StepFits(f, "idle")
  BY DEF StepFits
<1>6. Fits(f, d, "idle")
  BY <1>3, <1>4, <1>5, EndFits DEF Ended
<1> QED
  BY <1>2, <1>3, <1>6 DEF f

\* handle_complete_state begins with a request in order, when its response is known.
LEMMA CompleteFits ==
    ASSUME NEW q \in ReqRecord, NEW d, Lasting(q, d), q.finished <= 1,
           q.ref = "writer" => q.queued = 0 /\ q.result # "none" /\ q.finished = 0
    PROVE  LET f == [q EXCEPT !.state = "Complete"] IN
           /\ f \in ReqRecord /\ Fits(f, d, "complete") /\ f.state = "Complete"
           /\ f.type = q.type /\ f.result = q.result /\ f.ref = q.ref
<1> DEFINE f == [q EXCEPT !.state = "Complete"]
<1>1. f \in ReqRecord
  BY DEF ReqRecord, States
<1>2. /\ f.state = "Complete" /\ f.type = q.type /\ f.key = q.key /\ f.mode = q.mode /\ f.ref = q.ref
      /\ f.sentHeaders = q.sentHeaders /\ f.got = q.got /\ f.queued = q.queued
      /\ f.result = q.result /\ f.finished = q.finished
  BY DEF ReqRecord
<1> HIDE DEF f
<1>3. Lasting(f, d)
  BY <1>2 DEF Lasting
<1>4. StepFits(f, "complete")
  BY <1>2 DEF StepFits
<1>5. Fits(f, d, "complete")
  BY <1>2, <1>3, <1>4, EndFits DEF Ended
<1> QED
  BY <1>1, <1>2, <1>5 DEF f

\* Whatever calls handle_error_state returns.
LEMMA HandleErrorKeeps ==
    ASSUME Inv, P!CacheInv', P!WaitInv', NEW r \in Requests, running.at \in {"none", r},
           NEW b, Known(r, b), req[r].state # "WaitForCache",
           NEW q \in ReqRecord, HandleError(r, q), Returns, Mild(r),
           Lasting(q, open'[r]), q.finished <= 1, q.ref = "writer" => req[r].ref = "writer",
           r \in wrote => q.ref # "reader",
           r \in wrote /\ req[r].state \in Ended => q.type = req[r].type /\ q.result = req[r].result
    PROVE  Inv'
<1> DEFINE f == ErrorRecord(q)
<1>1. /\ f \in ReqRecord /\ Fits(f, open'[r], "idle") /\ f.state = "Error"
      /\ f.type = q.type /\ f.result = q.result /\ f.ref = q.ref
  BY ErrorFits
<1>2. /\ req' = [req EXCEPT ![r] = f] /\ removal' = removal \cup {r} /\ UNCHANGED draining
  BY DEF HandleError, ErrorRecord
<1>3. GoesOn(r, "idle")
  BY DEF Returns, GoesOn
<1> HIDE DEF f
<1>4. Onward(r, f, open'[r], "idle")
  BY <1>1 DEF Onward, WroteFits, Ended
<1>5. draining' \in BOOLEAN /\ removal' \subseteq Requests
  BY <1>2 DEF Inv, RequestTypes
<1> QED
  BY <1>2, <1>3, <1>4, <1>5, MildKeeps

\* transition_to_state(State::Complete), from wherever it is called.
LEMMA ToCompleteKeeps ==
    ASSUME Inv, P!CacheInv', P!WaitInv', NEW r \in Requests, running.at \in {"none", r},
           NEW b, Known(r, b), req[r].state # "WaitForCache",
           NEW q \in ReqRecord, ToComplete(r, q), Mild(r),
           Lasting(q, open'[r]), q.finished <= 1,
           q.ref = "writer" =>
                req[r].ref = "writer" /\ q.queued = 0 /\ q.result # "none" /\ q.finished = 0,
           r \in wrote => q.ref # "reader" /\ req[r].state \notin Ended
    PROVE  Inv'
<1> DEFINE f == [q EXCEPT !.state = "Complete"]
<1>1. /\ f \in ReqRecord /\ Fits(f, open'[r], "complete") /\ f.state = "Complete"
      /\ f.type = q.type /\ f.result = q.result /\ f.ref = q.ref
  BY CompleteFits
<1>2. req' = [req EXCEPT ![r] = f] /\ UNCHANGED <<draining, removal>>
  BY DEF ToComplete, restUnchanged
<1>3. GoesOn(r, "complete")
  BY DEF ToComplete, Then, GoesOn, Steps
<1> HIDE DEF f
<1>4. Onward(r, f, open'[r], "complete")
  BY <1>1 DEF Onward, WroteFits, Ended
<1>5. draining' \in BOOLEAN /\ removal' \subseteq Requests
  BY <1>2 DEF Inv, RequestTypes
<1> QED
  BY <1>2, <1>3, <1>4, <1>5, MildKeeps

\* The state of r, whose handler is running.
LEMMA AtState ==
    ASSUME NEW r, NEW a, Known(r, a), a \in Steps
    PROVE  /\ req[r].state # "WaitForCache" /\ req[r].finished <= 1
           /\ Lasting(req[r], open[r])
           /\ r \in wrote => req[r].ref # "reader"
<1>1. StepFits(req[r], a)
  BY DEF Known, Fits
<1>2. req[r].state # "WaitForCache"
  BY <1>1 DEF StepFits, Steps
<1>3. req[r].finished <= 1
  BY <1>1 DEF StepFits, Steps
<1> QED
  BY <1>2, <1>3, FitsLasts DEF Known, WroteFits

\* A handler that fails and leaves its entry as it is.
LEMMA FailKeeps ==
    ASSUME Inv, P!CacheInv', P!WaitInv', NEW r \in Requests, NEW a \in Steps, At(r, a),
           Fail(r), Mild(r), open'[r] = open[r]
    PROVE  Inv'
<1>1. Known(r, a) /\ running.at = r
  BY AtKnown
<1>2. req[r].state # "WaitForCache" /\ req[r].finished <= 1 /\ Lasting(req[r], open[r])
      /\ (r \in wrote => req[r].ref # "reader")
  BY <1>1, AtState
<1>3. req[r] \in ReqRecord
  BY <1>1 DEF Known
<1>4. HandleError(r, req[r]) /\ Returns
  BY DEF Fail
<1> QED
  BY <1>1, <1>2, <1>3, <1>4, HandleErrorKeeps

-----------------------------------------------------------------------------
(* handle_complete_state                                                   *)

\* What is known of a request that is in it.
LEMMA AtComplete ==
    ASSUME Inv, NEW r \in Requests, At(r, "complete")
    PROVE  /\ Known(r, "complete") /\ running.at = r /\ req[r].state = "Complete"
           /\ Lasting(req[r], open[r]) /\ req[r].finished <= 1 /\ req[r] \in ReqRecord
           /\ req[r].ref = "writer" =>
                req[r].queued = 0 /\ req[r].result # "none" /\ req[r].finished = 0
           /\ r \in wrote => req[r].ref # "reader"
<1>1. Known(r, "complete") /\ running.at = r
  BY AtKnown
<1>2. req[r].finished <= 1 /\ Lasting(req[r], open[r]) /\ (r \in wrote => req[r].ref # "reader")
  BY <1>1, AtState DEF Steps
<1>3. req[r].finished \in Nat /\ req[r] \in ReqRecord
  BY <1>1 DEF Known, ReqRecord
<1>4. /\ req[r].state = "Complete"
      /\ req[r].ref = "writer" => req[r].queued = 0 /\ req[r].result # "none"
      /\ req[r].finished > 0 => req[r].ref # "writer"
  BY <1>1 DEF Known, Fits, StepFits, Progress
<1> QED
  BY <1>1, <1>2, <1>3, <1>4

\* The step of a request that stays in handle_complete_state and only notes that its headers
\* were sent, or that its writer is gone.
LEMMA CompleteGoesOn ==
    ASSUME Inv, P!CacheInv', P!WaitInv', NEW r \in Requests, At(r, "complete"), UNCHANGED running,
           restUnchanged, NEW f, req' = [req EXCEPT ![r] = f], f \in ReqRecord,
           f.state = "Complete" /\ f.type = req[r].type /\ f.result = req[r].result
                /\ f.finished = req[r].finished,
           f.ref = "writer" => req[r].ref = "writer" /\ f.queued = req[r].queued,
           Lasting(f, open'[r]), Mild(r), r \in wrote => f.ref # "reader"
    PROVE  Inv'
<1>1. /\ Known(r, "complete") /\ running.at = r /\ req[r].state = "Complete"
      /\ req[r].finished <= 1
      /\ req[r].ref = "writer" =>
                req[r].queued = 0 /\ req[r].result # "none" /\ req[r].finished = 0
  BY AtComplete
<1>2. GoesOn(r, "complete")
  BY DEF At, GoesOn, Steps
<1>3. StepFits(f, "complete")
  BY <1>1 DEF StepFits
<1>4. Fits(f, open'[r], "complete")
  BY <1>1, <1>3, EndFits DEF Ended
<1>5. Onward(r, f, open'[r], "complete")
  BY <1>4 DEF Onward, WroteFits, Ended
<1>6. draining' \in BOOLEAN /\ removal' \subseteq Requests
  BY DEF Inv, RequestTypes, restUnchanged
<1> QED
  BY <1>1, <1>2, <1>5, <1>6, MildKeeps

\* A step that leaves the disk alone removes no row.
LEMMA DiskAlone == ASSUME UNCHANGED P!diskVars PROVE P!RowsShrink
BY DEF P!diskVars, P!RowsShrink

\* A request without a reference has lost nothing when its entry is closed.
LEMMA ClosedLasts ==
    ASSUME NEW q, NEW d, Lasting(q, d), NEW f,
           f.type = q.type /\ f.key = q.key /\ f.mode = q.mode /\ f.ref \in {"none", q.ref}
                /\ f.ref # "writer" /\ f.queued <= f.got
    PROVE  Lasting(f, P!NoEntry)
<1>1. P!NoEntry.kind = "none"
  BY DEF P!NoEntry
<1> QED
  BY <1>1 DEF Lasting

\* Headers that the entry has not had yet are written before the flush.
LEMMA CompleteHeadersKeeps ==
    ASSUME Inv, P!CacheInv', P!WaitInv', NEW r \in Requests, At(r, "complete"), UNCHANGED running,
           restUnchanged, C!write_status_and_reason(r),
           req' = [req EXCEPT ![r].sentHeaders = TRUE]
    PROVE  Inv'
<1> DEFINE q == req[r]
           f == [q EXCEPT !.sentHeaders = TRUE]
<1>1. q \in ReqRecord /\ Lasting(q, open[r]) /\ q.state = "Complete" /\ (r \in wrote => q.ref # "reader")
  BY AtComplete
<1>2. /\ P!SparesOthers(r) /\ UNCHANGED <<gone, wrote>> /\ UNCHANGED P!diskVars
      /\ P!Waiting(r)' => P!Waiting(r)
      /\ open[r].kind = "writer" /\ open'[r].kind = "writer"
      /\ open'[r].key = open[r].key /\ open'[r].parts = open[r].parts
      /\ open'[r].vary \in Varies
  BY SameCache, RequestAssumption, P!HeadersEffect DEF Inv, P!CacheInv
<1>3. Mild(r)
  BY <1>2, DiskAlone DEF Mild
<1>4. f \in ReqRecord /\ req' = [req EXCEPT ![r] = f]
  BY <1>1 DEF ReqRecord
<1>5. /\ f.state = q.state /\ f.type = q.type /\ f.key = q.key /\ f.mode = q.mode /\ f.ref = q.ref
      /\ f.got = q.got /\ f.queued = q.queued /\ f.result = q.result /\ f.finished = q.finished
  BY <1>1 DEF ReqRecord
<1> HIDE DEF f, q
<1>6. Lasting(f, open'[r])
  <2>1. open'[r].vary # "none"
    BY <1>2, RequestAssumption
  <2> QED
    BY <1>1, <1>2, <1>5, <2>1 DEF Lasting
<1> QED
  BY <1>1, <1>3, <1>4, <1>5, <1>6, CompleteGoesOn DEF q

\* A writer that fails then is forgotten.
LEMMA CompleteLosesWriterKeeps ==
    ASSUME Inv, P!CacheInv', P!WaitInv', NEW r \in Requests, At(r, "complete"), UNCHANGED running,
           restUnchanged, C!write_fails(r),
           req' = [req EXCEPT ![r].sentHeaders = TRUE, ![r].ref = "none"]
    PROVE  Inv'
<1> DEFINE q == req[r]
           f == [q EXCEPT !.sentHeaders = TRUE, !.ref = "none"]
<1>1. q \in ReqRecord /\ Lasting(q, open[r]) /\ q.state = "Complete"
  BY AtComplete
<1>2. P!Closed(r) /\ UNCHANGED P!diskVars
  BY SameCache, RequestAssumption, P!WriteFailsEffect DEF Inv, P!CacheInv
<1>3. Mild(r) /\ open'[r] = P!NoEntry
  BY <1>2, DiskAlone DEF Mild, P!Closed
<1>4. req \in [Requests -> ReqRecord]
  BY DEF Inv, RequestTypes
<1>5. f \in ReqRecord /\ req' = [req EXCEPT ![r] = f]
  BY <1>1, <1>4 DEF ReqRecord
<1>6. /\ f.state = q.state /\ f.type = q.type /\ f.key = q.key /\ f.mode = q.mode /\ f.ref = "none"
      /\ f.got = q.got /\ f.queued = q.queued /\ f.result = q.result /\ f.finished = q.finished
  BY <1>1 DEF ReqRecord
<1> HIDE DEF f
<1>7. Lasting(f, open'[r])
  BY <1>1, <1>3, <1>6, ClosedLasts DEF Lasting
<1> QED
  BY <1>1, <1>3, <1>5, <1>6, <1>7, CompleteGoesOn

\* The flush: what a fetch has received is in its row, and is all there is unless nobody knows.
LEMMA CompleteFlushKeeps ==
    ASSUME Inv, P!CacheInv', P!WaitInv', NEW r \in Requests, At(r, "complete"), UNCHANGED running,
           restUnchanged, req[r].ref = "writer", ~TransferFailed(r), C!flush(r),
           req' = [req EXCEPT ![r].ref = "none"]
    PROVE  Inv'
<1> DEFINE q == req[r]
           f == [q EXCEPT !.ref = "none"]
<1>1. /\ Known(r, "complete") /\ running.at = r /\ q \in ReqRecord /\ Lasting(q, open[r])
      /\ q.state = "Complete" /\ q.queued = 0 /\ q.result # "none" /\ q.finished = 0
  BY AtComplete
<1>2. P!Closed(r) /\ \A s \in P!Slots : row'[s] \in {P!Absent, row[s], P!Written(r)}
  BY SameCache, RequestAssumption, P!FlushEffect DEF Inv, P!CacheInv
<1>3. /\ P!SparesOthers(r) /\ UNCHANGED <<gone, wrote>> /\ open'[r] = P!NoEntry
      /\ P!Waiting(r)' => P!Waiting(r)
  BY <1>2 DEF P!Closed
<1>4. f \in ReqRecord /\ req' = [req EXCEPT ![r] = f]
  BY <1>1 DEF ReqRecord
<1>5. /\ f.state = q.state /\ f.type = q.type /\ f.key = q.key /\ f.mode = q.mode /\ f.ref = "none"
      /\ f.got = q.got /\ f.queued = q.queued /\ f.result = q.result /\ f.finished = q.finished
  BY <1>1 DEF ReqRecord
<1> HIDE DEF f
<1>6. Fits(f, open'[r], "complete")
  <2>1. Lasting(f, open'[r])
    BY <1>1, <1>3, <1>5, ClosedLasts DEF Lasting
  <2>2. StepFits(f, "complete")
    BY <1>1, <1>5 DEF StepFits
  <2> QED
    BY <1>1, <1>5, <2>1, <2>2, EndFits DEF Ended
<1>7. req \in [Requests -> ReqRecord]
  BY DEF Inv, RequestTypes
<1>8. req'[r] = f /\ (\A p \in Requests \ {r} : req'[p] = req[p]) /\ req' \in [Requests -> ReqRecord]
  BY <1>4, <1>7
<1>9. RequestTypes'
  BY <1>8 DEF Inv, RequestTypes, restUnchanged, Idle
<1>10. StepOf(r)' = "complete"
  BY DEF StepOf, At
<1>11. Sound(r)'
  BY <1>1, <1>3, <1>5, <1>6, <1>8, <1>10 DEF Sound, Known, WroteFits, Ended
<1>12. r \in wrote
  BY <1>1 DEF Known
<1>13. Whole(q, P!Written(r).parts)
  <2>1. open[r].kind = "writer" /\ P!Written(r).parts = open[r].parts
    BY <1>1 DEF Lasting, P!Written
  <2>2. open[r].parts \in 0..MaxParts
    <3>1. open[r] \in P!Writers
      BY <1>1, <2>1, RequestAssumption, P!EntryShape DEF Known
    <3> QED
      BY <3>1 DEF P!Writers
  <2>3. open[r].parts = q.got
    BY <1>1, <2>1, <2>2 DEF Lasting
  <2> QED
    BY <1>1, <2>1, <2>2, <2>3 DEF Whole, TransferFailed, Lasting, ReqRecord, Results
<1>14. RowsOf(r)'
  <2> SUFFICES ASSUME NEW s \in P!Slots, row'[s].of = r
               PROVE  r \in wrote' /\ req'[r].state \in Ended /\ Whole(req'[r], row'[s].parts)
    BY DEF RowsOf, P!Slots
  <2>1. P!Absent.of = "none" /\ r # "none"
    BY RequestAssumption DEF P!Absent
  <2>2. CASE row'[s] = row[s]
    BY <1>3, <1>5, <1>8, <2>2, <1>1, <1>12 DEF Inv, RowsOf, Whole, Ended
  <2>3. CASE row'[s] = P!Written(r)
    BY <1>3, <1>5, <1>8, <1>13, <2>3, <1>1, <1>12 DEF Whole, Ended
  <2> QED
    BY <1>2, <2>1, <2>2, <2>3
<1>15. RevalidationIsExclusive'
  BY DEF RevalidationIsExclusive, At
<1> QED
  BY <1>1, <1>2, <1>3, <1>8, <1>9, <1>11, <1>14, <1>15, TurnKeeps DEF Known, At

\* handle_complete_state, from its first test to the report to the client.
LEMMA CompleteKeeps ==
    ASSUME Inv, P!CacheInv', P!WaitInv', NEW r \in Requests,
           CompleteFailed(r) \/ CompleteWrites(r) \/ CompleteFinishes(r)
    PROVE  Inv'
<1>1. CASE CompleteFailed(r)
  BY <1>1, QuietIsMild, FailKeeps DEF CompleteFailed, Steps
<1>2. CASE CompleteWrites(r)
  BY <1>2, CompleteHeadersKeeps, CompleteLosesWriterKeeps, CompleteFlushKeeps DEF CompleteWrites
<1>3. CASE CompleteFinishes(r)
  <2> DEFINE q == req[r]
             f == [q EXCEPT !.sentHeaders = @ \/ q.type = "Fetch",
                            !.finished = IF q.type = "Fetch" THEN @ + 1 ELSE @]
  <2>1. At(r, "complete") /\ q.ref # "writer" /\ Returns /\ cacheUnchanged
        /\ draining' = draining /\ removal' = removal \cup {r}
    BY <1>3 DEF CompleteFinishes
  <2>2. /\ Known(r, "complete") /\ running.at = r /\ q.state = "Complete"
        /\ q \in ReqRecord /\ Lasting(q, open[r]) /\ q.finished <= 1
        /\ r \in wrote => q.ref # "reader"
    BY <2>1, AtComplete
  <2>3. req' = [req EXCEPT ![r] = f]
    <3>1. req \in [Requests -> ReqRecord]
      BY DEF Inv, RequestTypes
    <3> QED
      BY <1>3, <3>1 DEF CompleteFinishes
  <2>4. q.finished \in 0..2 /\ (q.finished + 1) \in 0..2 /\ q.sentHeaders \in BOOLEAN
    BY <2>2 DEF ReqRecord
  <2>5. f \in ReqRecord
    <3> DEFINE b == q.sentHeaders \/ q.type = "Fetch"
               n == IF q.type = "Fetch" THEN q.finished + 1 ELSE q.finished
               g == [q EXCEPT !.sentHeaders = b]
    <3>1. b \in BOOLEAN /\ n \in 0..2
      BY <2>4
    <3>2. f = [g EXCEPT !.finished = n]
      OBVIOUS
    <3> HIDE DEF b, n, f
    <3>3. g \in ReqRecord
      BY <2>2, <3>1 DEF ReqRecord
    <3> HIDE DEF g
    <3> QED
      BY <3>1, <3>2, <3>3 DEF ReqRecord
  <2>6. /\ f.state = q.state /\ f.type = q.type /\ f.key = q.key /\ f.mode = q.mode /\ f.ref = q.ref
        /\ f.got = q.got /\ f.queued = q.queued /\ f.result = q.result
    BY <2>2 DEF ReqRecord
  <2> HIDE DEF f
  <2>7. Lasting(f, open[r])
    BY <2>1, <2>2, <2>6 DEF Lasting
  <2>8. StepFits(f, "idle")
    BY DEF StepFits
  <2>9. Fits(f, open[r], "idle")
    BY <2>1, <2>2, <2>6, <2>7, <2>8, EndFits DEF Ended
  <2>10. Onward(r, f, open[r], "idle")
    BY <2>1, <2>2, <2>5, <2>6, <2>9 DEF Onward, WroteFits, Ended
  <2>11. draining' \in BOOLEAN /\ removal' \subseteq Requests
    BY <2>1 DEF Inv, RequestTypes
  <2>12. GoesOn(r, "idle")
    BY <2>1 DEF Returns, GoesOn
  <2>13. Mild(r) /\ open' = open
    BY <2>1, QuietIsMild
  <2> QED
    BY <2>2, <2>3, <2>10, <2>11, <2>12, <2>13, MildKeeps
<1> QED
  BY <1>1, <1>2, <1>3

-----------------------------------------------------------------------------
(* handle_initial_state                                                    *)

\* What is known of a request that is in it.
LEMMA AtOpen ==
    ASSUME Inv, NEW r \in Requests, NEW a \in {"open", "create"}, At(r, a)
    PROVE  /\ Known(r, a) /\ running.at = r /\ req[r] \in ReqRecord
           /\ Lasting(req[r], open[r]) /\ req[r].finished = 0
           /\ req[r].state = "Init" /\ req[r].ref = "none" /\ req[r].type \in Cached
           /\ Untouched(req[r]) /\ r \notin wrote /\ ~P!Waiting(r)
           /\ open[r].kind \notin {"reader", "writer"}
<1>1. Known(r, a) /\ running.at = r
  BY AtKnown
<1>2. req[r].state = "Init" /\ req[r].ref = "none"
  BY <1>1 DEF Known, Fits, StepFits
<1>3. req[r].type \in Cached /\ Untouched(req[r]) /\ ~(req[r].finished > 0)
  BY <1>1, <1>2 DEF Known, Fits, Progress, Ended
<1>4. req[r] \in ReqRecord /\ req[r].finished \in Nat
  BY <1>1 DEF Known, ReqRecord
<1>5. r \notin wrote /\ ~P!Waiting(r)
  BY <1>1, <1>2 DEF Known, WroteFits, Fetching, Ended
<1>6. open[r].kind \notin {"reader", "writer"}
  BY <1>1, <1>2 DEF Known, Fits, EntryFits
<1>7. Lasting(req[r], open[r])
  BY <1>1, FitsLasts DEF Known
<1> QED
  BY <1>1, <1>2, <1>3, <1>4, <1>5, <1>6, <1>7

\* A request that has no entry and goes on to another state.
LEMMA StateFits ==
    ASSUME NEW q \in ReqRecord, NEW e, NEW b, Fits(q, e, b), q.state \in {"Init", "DNSLookup"},
           NEW st \in {"DNSLookup", "RetrieveCookie", "Connect", "WaitForCache"},
           st = "WaitForCache" => q.state = "Init", st = "Connect" => q.type = "Connect", q.ref = "none" \/ q.state = "DNSLookup"
    PROVE  LET f == [q EXCEPT !.state = st] IN
           f \in ReqRecord /\ Fits(f, e, "idle") /\ f.state = st /\ f.ref = q.ref
<1> DEFINE f == [q EXCEPT !.state = st]
<1>1. f \in ReqRecord
  BY DEF ReqRecord, States
<1>2. /\ f.state = st /\ f.type = q.type /\ f.key = q.key /\ f.mode = q.mode /\ f.ref = q.ref
      /\ f.got = q.got /\ f.queued = q.queued /\ f.result = q.result /\ f.finished = q.finished
      /\ f.sentHeaders = q.sentHeaders
  BY DEF ReqRecord
<1> HIDE DEF f
<1>3. Untouched(q) /\ Untouched(f)
  BY <1>2 DEF Fits, Progress, Untouched
<1>4. Progress(f)
  BY <1>2, <1>3 DEF Fits, Progress, Ended
<1>5. EntryFits(f, e)
  BY <1>2 DEF Fits, EntryFits, Fetching, Ended
<1>6. StepFits(f, "idle")
  BY DEF StepFits
<1> QED
  BY <1>1, <1>2, <1>4, <1>5, <1>6 DEF Fits, f

\* A request that has to wait for an entry.
LEMMA WaitsKeeps ==
    ASSUME Inv, P!CacheInv', P!WaitInv', NEW r \in Requests, NEW a \in {"open", "create"}, At(r, a),
           req[r].key \in Keys, P!WaitFor(r, req[r].key), Goes(r, "WaitForCache")
    PROVE  Inv'
<1> DEFINE f == [req[r] EXCEPT !.state = "WaitForCache"]
<1>1. /\ Known(r, a) /\ running.at = r /\ req[r] \in ReqRecord /\ Fits(req[r], open[r], a)
      /\ req[r].state = "Init" /\ req[r].ref = "none" /\ r \notin wrote
  BY AtOpen DEF Known
<1>2. f \in ReqRecord /\ Fits(f, open[r], "idle") /\ f.state = "WaitForCache" /\ f.ref = "none"
  BY <1>1, StateFits
<1>3. /\ P!SparesOthers(r) /\ open' = open /\ gone' = gone /\ wrote' = wrote
      /\ UNCHANGED P!diskVars
  BY RequestAssumption, P!WaitForEffect DEF Inv, P!CacheInv
<1>4. req' = [req EXCEPT ![r] = f] /\ GoesOn(r, "idle")
  BY DEF Goes, Returns, GoesOn
<1>5. draining' \in BOOLEAN /\ removal' \subseteq Requests
  BY DEF Inv, RequestTypes, Goes, restUnchanged
<1> HIDE DEF f
<1>6. P!RowsShrink /\ wrote \subseteq wrote' /\ r \notin gone' /\ r \notin wrote'
  BY <1>1, <1>3, DiskAlone DEF Known
<1> QED
  BY <1>1, <1>2, <1>3, <1>4, <1>5, <1>6, MoveKeeps

\* A request that has a response without a transfer is a request.
LEMMA AnsweredRecord ==
    ASSUME NEW q \in ReqRecord
    PROVE  LET g == [q EXCEPT !.result = "ok", !.sentHeaders = TRUE] IN
           /\ g \in ReqRecord
           /\ g.type = q.type /\ g.key = q.key /\ g.mode = q.mode /\ g.ref = q.ref
           /\ g.got = q.got /\ g.queued = q.queued /\ g.finished = q.finished
<1> DEFINE h == [q EXCEPT !.result = "ok"]
           g == [h EXCEPT !.sentHeaders = TRUE]
<1>1. "ok" \in Results
  BY DEF Results
<1>2. /\ h \in ReqRecord
      /\ h.type = q.type /\ h.key = q.key /\ h.mode = q.mode /\ h.ref = q.ref
      /\ h.got = q.got /\ h.queued = q.queued /\ h.finished = q.finished
  BY <1>1 DEF ReqRecord
<1>3. g = [q EXCEPT !.result = "ok", !.sentHeaders = TRUE]
  OBVIOUS
<1> HIDE DEF h
<1>4. /\ g \in ReqRecord
      /\ g.type = h.type /\ g.key = h.key /\ g.mode = h.mode /\ g.ref = h.ref
      /\ g.got = h.got /\ g.queued = h.queued /\ g.finished = h.finished
  BY <1>2 DEF ReqRecord
<1> QED
  BY <1>2, <1>3, <1>4

\* A substituted resource, or a request that does not use the cache.
LEMMA NoCacheKeeps ==
    ASSUME Inv, P!CacheInv', P!WaitInv', NEW r \in Requests, ServeSubstitution(r) \/ SkipCache(r)
    PROVE  Inv'
<1>1. At(r, "open") /\ cacheUnchanged
  BY DEF ServeSubstitution, SkipCache
<1>2. Mild(r) /\ open' = open
  BY <1>1, QuietIsMild
<1> DEFINE q == req[r]
<1>3. /\ Known(r, "open") /\ running.at = r /\ q \in ReqRecord /\ Fits(q, open[r], "open")
      /\ Lasting(q, open[r]) /\ q.finished = 0
      /\ q.state = "Init" /\ q.ref = "none" /\ Untouched(q) /\ r \notin wrote
      /\ open[r].kind \notin {"reader", "writer"}
  BY <1>1, AtOpen DEF Known
<1>4. CASE ToComplete(r, [req[r] EXCEPT !.result = "ok", !.sentHeaders = TRUE])
  <2> DEFINE g == [q EXCEPT !.result = "ok", !.sentHeaders = TRUE]
  <2>1. g \in ReqRecord
    BY <1>3, AnsweredRecord
  <2>2. /\ g.type = q.type /\ g.key = q.key /\ g.mode = q.mode /\ g.ref = q.ref
        /\ g.got = q.got /\ g.queued = q.queued /\ g.finished = q.finished
    BY <1>3, AnsweredRecord
  <2>3. ToComplete(r, g)
    BY <1>4
  <2> HIDE DEF g
  <2>4. Lasting(g, open'[r])
    BY <1>2, <1>3, <2>2 DEF Lasting
  <2> QED
    BY <1>2, <1>3, <2>1, <2>2, <2>3, <2>4, ToCompleteKeeps
<1>5. CASE Fail(r)
  BY <1>1, <1>2, <1>5, FailKeeps DEF Steps
<1>6. CASE Goes(r, "DNSLookup")
  <2> DEFINE f == [q EXCEPT !.state = "DNSLookup"]
  <2>1. f \in ReqRecord /\ Fits(f, open[r], "idle") /\ f.state = "DNSLookup" /\ f.ref = "none"
    BY <1>3, StateFits
  <2>2. req' = [req EXCEPT ![r] = f] /\ GoesOn(r, "idle")
    BY <1>6 DEF Goes, Returns, GoesOn
  <2>3. draining' \in BOOLEAN /\ removal' \subseteq Requests
    BY <1>6 DEF Inv, RequestTypes, Goes, restUnchanged
  <2> HIDE DEF f
  <2>4. Onward(r, f, open'[r], "idle")
    BY <1>2, <1>3, <2>1 DEF Onward
  <2> QED
    BY <1>2, <1>3, <2>2, <2>3, <2>4, MildKeeps
<1> QED
  BY <1>4, <1>5, <1>6 DEF ServeSubstitution, SkipCache

\* Only a background revalidation gets a reader of that type, and it gets no other.
LEMMA OpenedType ==
    ASSUME Inv, NEW r \in Requests, UsesCache(r), NEW type \in P!RevalidationTypes,
           P!open_entry_opens(r, req[r].key, CacheMode(r), OpenMode(r), type)
    PROVE  type = "Background" <=> req[r].type = "BackgroundRevalidation"
<1>1. PICK status \in P!LifetimeStatuses : P!Disposition(status, CacheMode(r), OpenMode(r)) = type
  BY DEF P!open_entry_opens
<1>2. CASE req[r].type = "BackgroundRevalidation"
  <2>1. OpenMode(r) = "Revalidate" /\ CacheMode(r) = "Default"
    BY <1>2, OpenArguments DEF OpenMode
  <2> QED
    BY <1>1, <1>2, <2>1 DEF P!Disposition, P!LifetimeStatuses, P!RevalidationTypes
<1>3. CASE req[r].type # "BackgroundRevalidation"
  <2>1. OpenMode(r) = "Read"
    BY <1>3 DEF OpenMode
  <2> QED
    BY <1>1, <1>3, <2>1 DEF P!Disposition, P!LifetimeStatuses, P!RevalidationTypes
<1> QED
  BY <1>2, <1>3

\* A request that gets an entry, and a state, is a request.
LEMMA EntryRecord ==
    ASSUME NEW q \in ReqRecord, NEW x \in {"reader", "writer"}, NEW st \in States
    PROVE  [q EXCEPT !.ref = x, !.state = st] \in ReqRecord
BY DEF ReqRecord

\* A state that is set to what it is does not change a request.
LEMMA SameState ==
    ASSUME NEW q \in ReqRecord, NEW x, NEW st, q.state = st
    PROVE  [q EXCEPT !.ref = x, !.state = st] = [q EXCEPT !.ref = x]
<1> DEFINE g == [q EXCEPT !.ref = x]
<1>1. g.state = st
  BY DEF ReqRecord
<1>2. g = [g EXCEPT !.state = g.state]
  BY DEF ReqRecord
<1> QED
  BY <1>1, <1>2

\* A reader is opened: the request reads it, revalidates it, or has it revalidated.
LEMMA OpenReadsKeeps ==
    ASSUME Inv, P!CacheInv', P!WaitInv', NEW r \in Requests, OpenReads(r)
    PROVE  Inv'
<1>1. UsesCache(r) /\ At(r, "open") /\ restUnchanged
  BY DEF OpenReads, UsesCache
<1> DEFINE q == req[r]
<1>2. /\ Known(r, "open") /\ running.at = r /\ q \in ReqRecord /\ q.finished = 0
      /\ q.state = "Init" /\ q.ref = "none" /\ Untouched(q) /\ r \notin wrote
      /\ q.type \in Cached /\ Progress(q)
  BY <1>1, AtOpen DEF Known, Fits
<1>3. PICK type \in P!RevalidationTypes :
        /\ P!open_entry_opens(r, q.key, CacheMode(r), OpenMode(r), type)
        /\ CASE type = "StaleWhileRevalidate" ->
                    req' = [req EXCEPT ![r].ref = "reader"] /\ Then(r, "spawn")
             [] type = "None" ->
                    /\ req' = [req EXCEPT ![r].ref = "reader", ![r].state = "ReadCache"]
                    /\ Then(r, "read")
             [] OTHER ->
                    /\ req' = [req EXCEPT ![r].ref = "reader", ![r].state = "DNSLookup"]
                    /\ Returns
  BY SameCache DEF OpenReads
<1>4. type = "Background" <=> q.type = "BackgroundRevalidation"
  BY <1>1, <1>3, OpenedType
<1>5. /\ P!SparesOthers(r) /\ UNCHANGED <<gone, wrote>> /\ UNCHANGED P!diskVars
      /\ P!Waiting(r)' => P!Waiting(r)
      /\ open'[r].kind = "reader" /\ open'[r].slot[1] = q.key /\ open'[r].type = type
  BY <1>3, RequestAssumption, P!OpenEffect DEF Inv, P!CacheInv
<1>6. Mild(r)
  BY <1>5, DiskAlone DEF Mild
<1>7. req \in [Requests -> ReqRecord] /\ draining' \in BOOLEAN /\ removal' \subseteq Requests
  BY <1>1 DEF Inv, RequestTypes, restUnchanged
<1>8. PICK st, a :
        /\ req' = [req EXCEPT ![r] = [q EXCEPT !.ref = "reader", !.state = st]]
        /\ \/ st = "Init" /\ a = "spawn"
           \/ st = "ReadCache" /\ a = "read"
           \/ st = "DNSLookup" /\ a = "idle" /\ type \in {"MustRevalidate", "Background"}
        /\ GoesOn(r, a)
  <2>1. CASE type = "StaleWhileRevalidate"
    <3>1. req' = [req EXCEPT ![r].ref = "reader"] /\ Then(r, "spawn")
      BY <1>3, <2>1
    <3>2. [q EXCEPT !.ref = "reader", !.state = "Init"] = [q EXCEPT !.ref = "reader"]
      BY <1>2, SameState
    <3>3. req' = [req EXCEPT ![r] = [q EXCEPT !.ref = "reader"]]
      BY <3>1
    <3> QED
      BY <3>1, <3>2, <3>3 DEF Then, GoesOn, Steps
  <2>2. CASE type = "None"
    <3>1. req' = [req EXCEPT ![r].ref = "reader", ![r].state = "ReadCache"] /\ Then(r, "read")
      BY <1>3, <2>2
    <3>2. req' = [req EXCEPT ![r] = [q EXCEPT !.ref = "reader", !.state = "ReadCache"]]
      BY <1>7, <3>1
    <3> QED
      BY <3>1, <3>2 DEF Then, GoesOn, Steps
  <2>3. CASE type \in {"MustRevalidate", "Background"}
    <3>1. req' = [req EXCEPT ![r].ref = "reader", ![r].state = "DNSLookup"] /\ Returns
      BY <1>3, <2>3
    <3>2. req' = [req EXCEPT ![r] = [q EXCEPT !.ref = "reader", !.state = "DNSLookup"]]
      BY <1>7, <3>1
    <3> QED
      BY <2>3, <3>1, <3>2 DEF Returns, GoesOn
  <2> QED
    BY <2>1, <2>2, <2>3 DEF P!RevalidationTypes
<1> DEFINE f == [q EXCEPT !.ref = "reader", !.state = st]
<1>9. f \in ReqRecord
  <2>1. st \in States
    BY <1>8 DEF States
  <2> QED
    BY <1>2, <2>1, EntryRecord
<1>10. /\ f.state = st /\ f.type = q.type /\ f.key = q.key /\ f.mode = q.mode /\ f.ref = "reader"
       /\ f.got = q.got /\ f.queued = q.queued /\ f.result = q.result /\ f.finished = q.finished
       /\ f.sentHeaders = q.sentHeaders
  BY <1>2 DEF ReqRecord
<1>11. req' = [req EXCEPT ![r] = f]
  BY <1>8
<1> HIDE DEF f, q
<1>12. Progress(f)
  BY <1>2, <1>8, <1>10 DEF Progress, Untouched, Ended
<1>13. EntryFits(f, open'[r])
  BY <1>4, <1>5, <1>8, <1>10 DEF EntryFits, Fetching
<1>14. StepFits(f, a)
  BY <1>2, <1>8, <1>10 DEF StepFits
<1>15. Onward(r, f, open'[r], a)
  BY <1>2, <1>9, <1>10, <1>12, <1>13, <1>14 DEF Onward, Fits
<1> QED
  BY <1>2, <1>6, <1>7, <1>8, <1>11, <1>15, MildKeeps DEF q

\* open_entry tells the request to wait.
LEMMA OpenWaitsKeeps ==
    ASSUME Inv, P!CacheInv', P!WaitInv', NEW r \in Requests, OpenWaits(r)
    PROVE  Inv'
<1>1. UsesCache(r) /\ At(r, "open") /\ Goes(r, "WaitForCache")
  BY DEF OpenWaits, UsesCache
<1>2. P!open_entry_waits(r, req[r].key, CacheMode(r), OpenMode(r))
  BY SameCache DEF OpenWaits
<1>3. P!WaitFor(r, req[r].key) /\ req[r].key \in Keys
  BY <1>1, <1>2, OpenArguments DEF P!open_entry_waits
<1> QED
  BY <1>1, <1>3, WaitsKeeps

\* open_entry finds nothing: the request ends, fails, or goes on to create an entry.
LEMMA OpenFindsNothingKeeps ==
    ASSUME Inv, P!CacheInv', P!WaitInv', NEW r \in Requests, OpenFindsNothing(r)
    PROVE  Inv'
<1>1. UsesCache(r) /\ At(r, "open")
  BY DEF OpenFindsNothing, UsesCache
<1> DEFINE q == req[r]
<1>2. /\ Known(r, "open") /\ running.at = r /\ q \in ReqRecord /\ Fits(q, open[r], "open")
      /\ Lasting(q, open[r]) /\ q.finished = 0
      /\ q.state = "Init" /\ q.ref = "none" /\ r \notin wrote /\ q.type \in Cached
      /\ open[r].kind \notin {"reader", "writer"}
  BY <1>1, AtOpen DEF Known
<1>3. UNCHANGED P!lockVars /\ P!RowsShrink
  <2>1. /\ q.key \in Keys /\ CacheMode(r) \in P!CacheModes /\ OpenMode(r) \in P!OpenModes
        /\ OpenMode(r) = "Revalidate" => CacheMode(r) = "Default"
    BY <1>1, OpenArguments
  <2>2. \/ P!open_entry_none(q.key, CacheMode(r), OpenMode(r))
        \/ P!open_entry_unreadable(q.key, CacheMode(r), OpenMode(r))
        \/ P!open_entry_expired(q.key, CacheMode(r), OpenMode(r))
    BY SameCache DEF OpenFindsNothing
  <2>3. P!DiskInv
    BY DEF Inv, P!CacheInv
  <2> QED
    BY <2>1, <2>2, <2>3, RequestAssumption, P!NothingFoundEffect
<1>4. Mild(r) /\ open' = open
  <2>1. open' = open /\ gone' = gone /\ wrote' = wrote
    BY <1>3 DEF P!lockVars
  <2>2. \A p : P!Spared(p)
    BY <1>3, RequestAssumption, P!SparesAll
  <2> QED
    BY <1>3, <2>1, <2>2 DEF Mild, P!SparesOthers, P!Spared
<1>5. CASE ToComplete(r, req[r])
  BY <1>2, <1>4, <1>5, ToCompleteKeeps
<1>6. CASE ToComplete(r, [req[r] EXCEPT !.result = "ok", !.sentHeaders = TRUE])
  <2> DEFINE g == [q EXCEPT !.result = "ok", !.sentHeaders = TRUE]
  <2>1. g \in ReqRecord
    BY <1>2, AnsweredRecord
  <2>2. /\ g.type = q.type /\ g.key = q.key /\ g.mode = q.mode /\ g.ref = q.ref
        /\ g.got = q.got /\ g.queued = q.queued /\ g.finished = q.finished
    BY <1>2, AnsweredRecord
  <2>3. ToComplete(r, g)
    BY <1>6
  <2> HIDE DEF g
  <2>4. Lasting(g, open'[r])
    BY <1>2, <1>4, <2>2 DEF Lasting
  <2> QED
    BY <1>2, <1>4, <2>1, <2>2, <2>3, <2>4, ToCompleteKeeps
<1>7. CASE Fail(r)
  BY <1>1, <1>4, <1>7, FailKeeps DEF Steps
<1>8. CASE /\ q.type # "BackgroundRevalidation"
           /\ Then(r, "create") /\ UNCHANGED req /\ restUnchanged
  <2>1. req \in [Requests -> ReqRecord] /\ draining' \in BOOLEAN /\ removal' \subseteq Requests
    BY <1>8 DEF Inv, RequestTypes, restUnchanged
  <2>2. req' = [req EXCEPT ![r] = q] /\ GoesOn(r, "create")
    BY <1>8, <2>1 DEF Then, GoesOn, Steps
  <2>3. q.key \in Keys /\ q.type = "Fetch"
    BY <1>1, <1>2, <1>8, OpenArguments DEF Cached
  <2>4. StepFits(q, "create")
    BY <1>2, <2>3 DEF StepFits
  <2>5. Onward(r, q, open'[r], "create")
    BY <1>2, <1>4, <2>4 DEF Onward, Fits
  <2> QED
    BY <1>2, <1>4, <2>1, <2>2, <2>5, MildKeeps
<1> QED
  BY <1>5, <1>6, <1>7, <1>8 DEF OpenFindsNothing, FailedCacheOnly

\* create_entry, from handle_initial_state.
LEMMA CreateEntryKeeps ==
    ASSUME Inv, P!CacheInv', P!WaitInv', NEW r \in Requests, CreateEntry(r)
    PROVE  Inv'
<1>1. At(r, "create")
  BY DEF CreateEntry
<1> DEFINE q == req[r]
<1>2. /\ Known(r, "create") /\ running.at = r /\ q \in ReqRecord /\ q.finished = 0
      /\ q.state = "Init" /\ q.ref = "none" /\ Untouched(q) /\ ~P!Waiting(r)
      /\ q.type \in Cached /\ Progress(q) /\ q.key \in Keys
  <2>1. Known(r, "create")
    BY <1>1, AtOpen
  <2> QED
    BY <1>1, <2>1, AtOpen DEF Known, Fits, StepFits
<1>3. CASE C!create_entry_waits(r, req[r].key) /\ Goes(r, "WaitForCache")
  <2>1. P!WaitFor(r, q.key)
    BY <1>3, SameCache DEF P!create_entry_waits
  <2> QED
    BY <1>1, <1>2, <1>3, <2>1, WaitsKeeps
<1>4. CASE /\ C!create_entry_opens(r, req[r].key)
           /\ req' = [req EXCEPT ![r].ref = "writer", ![r].state = "DNSLookup"]
           /\ Returns /\ restUnchanged
  <2>1. /\ P!SparesOthers(r) /\ UNCHANGED gone /\ UNCHANGED P!diskVars /\ wrote' = wrote \cup {r}
        /\ P!Waiting(r)' => P!Waiting(r)
        /\ open'[r].kind = "writer" /\ open'[r].key = q.key /\ open'[r].parts = 0
    BY <1>4, SameCache, RequestAssumption, P!CreateEffect DEF Inv, P!CacheInv
  <2>2. req \in [Requests -> ReqRecord] /\ draining' \in BOOLEAN /\ removal' \subseteq Requests
    BY <1>4 DEF Inv, RequestTypes, restUnchanged
  <2> DEFINE f == [q EXCEPT !.ref = "writer", !.state = "DNSLookup"]
  <2>3. req' = [req EXCEPT ![r] = f] /\ GoesOn(r, "idle")
    BY <1>4, <2>2 DEF Returns, GoesOn
  <2>4. f \in ReqRecord
    BY <1>2, EntryRecord DEF States
  <2>5. /\ f.state = "DNSLookup" /\ f.type = q.type /\ f.key = q.key /\ f.mode = q.mode
        /\ f.ref = "writer" /\ f.got = q.got /\ f.queued = q.queued /\ f.result = q.result
        /\ f.finished = q.finished /\ f.sentHeaders = q.sentHeaders
    BY <1>2 DEF ReqRecord
  <2> HIDE DEF f, q
  <2>6. Progress(f)
    BY <1>2, <2>5 DEF Progress, Untouched, Ended
  <2>7. EntryFits(f, open'[r])
    BY <1>2, <2>1, <2>5 DEF EntryFits, Untouched
  <2>8. StepFits(f, "idle") /\ WroteFits(f, "idle")
    BY <2>5 DEF StepFits, WroteFits, Fetching
  <2>9. /\ P!RowsShrink /\ r \notin gone' /\ ~P!Waiting(r)' /\ wrote \subseteq wrote' /\ r \in wrote'
    BY <1>2, <2>1, DiskAlone DEF Known
  <2>10. Fits(f, open'[r], "idle")
    BY <2>6, <2>7, <2>8 DEF Fits
  <2>11. req[r].state \notin Ended
    BY <1>2 DEF q, Ended
  <2> QED
    BY <1>2, <2>1, <2>2, <2>3, <2>4, <2>8, <2>9, <2>10, <2>11, MoveKeeps
<1> QED
  BY <1>3, <1>4 DEF CreateEntry

\* A request that begins has nothing yet.
LEMMA StartedRecord ==
    ASSUME NEW r, NEW type \in Types, NEW key \in Keys \cup {"none", "substituted"},
           NEW mode \in Modes \cup {"none", "Default"}, NEW st \in States
    PROVE  LET g == Started(r, type, key, mode, st) IN
           /\ g \in ReqRecord
           /\ g.state = st /\ g.type = type /\ g.key = key /\ g.mode = mode /\ g.ref = "none"
           /\ g.got = 0 /\ g.queued = 0 /\ g.result = "none" /\ g.finished = 0 /\ ~g.sentHeaders
<1> DEFINE n1 == [NotStarted EXCEPT !.type = type]
           n2 == [n1 EXCEPT !.key = key]
           n3 == [n2 EXCEPT !.mode = mode]
           n4 == [n3 EXCEPT !.state = st]
<1>1. NotStarted \in ReqRecord
  <2>1. 0 \in 0..MaxParts /\ 0 \in 0..2
    BY RequestAssumption
  <2> QED
    BY <2>1 DEF NotStarted, ReqRecord
<1>2. n1 \in ReqRecord
  BY <1>1 DEF ReqRecord
<1> HIDE DEF n1
<1>3. n2 \in ReqRecord
  BY <1>2 DEF ReqRecord
<1> HIDE DEF n2
<1>4. n3 \in ReqRecord
  BY <1>3 DEF ReqRecord
<1> HIDE DEF n3
<1>5. n4 \in ReqRecord
  BY <1>4 DEF ReqRecord
<1>6. n4 = Started(r, type, key, mode, st)
  BY DEF Started, n1, n2, n3
<1> HIDE DEF n4
<1>7. LET g == Started(r, type, key, mode, st) IN
      /\ g.state = st /\ g.type = type /\ g.key = key /\ g.mode = mode /\ g.ref = "none"
      /\ g.got = 0 /\ g.queued = 0 /\ g.result = "none" /\ g.finished = 0 /\ ~g.sentHeaders
  BY DEF Started, NotStarted
<1> QED
  BY <1>5, <1>6, <1>7

\* start_revalidation_request: one request reads the stale entry, a new one waits for it.
LEMMA SpawnKeeps ==
    ASSUME Inv, P!CacheInv', P!WaitInv', NEW r \in Requests, start_revalidation_request(r)
    PROVE  Inv'
<1>1. At(r, "spawn") /\ Then(r, "read") /\ restUnchanged
  BY DEF start_revalidation_request
<1> DEFINE q == req[r]
<1>2. PICK s \in Requests :
        /\ req[s] = NotStarted /\ s \notin gone
        /\ P!open_entry_waits(s, q.key, "Default", "Revalidate")
        /\ req' = [req EXCEPT
            ![s] = Started(s, "BackgroundRevalidation", q.key, "Default", "WaitForCache"),
            ![r].state = "ReadCache"]
  BY SameCache DEF start_revalidation_request
<1>3. Known(r, "spawn") /\ running.at = r
  BY <1>1, AtKnown
<1>4. /\ q \in ReqRecord /\ q.state = "Init" /\ q.ref = "reader" /\ q.finished <= 1
      /\ r \notin wrote /\ ~P!Waiting(r) /\ Progress(q) /\ EntryFits(q, open[r])
      /\ open[r].kind = "reader" /\ open[r].slot[1] = q.key /\ r \notin gone
  BY <1>3 DEF Known, Fits, StepFits, EntryFits, WroteFits, Ended
<1>5. q.key \in Keys
  <2>1. open[r] \in P!Readers
    BY <1>3, <1>4, RequestAssumption, P!EntryShape DEF Known
  <2> QED
    BY <1>4, <2>1 DEF P!Readers, P!Slots
<1>6. s # r /\ req[s].state = "none" /\ req[s].ref = "none"
  BY <1>2, <1>4 DEF NotStarted
<1>7. P!WaitFor(s, q.key)
  BY <1>2 DEF P!open_entry_waits
<1>8. /\ P!SparesOthers(s) /\ open' = open /\ gone' = gone /\ wrote' = wrote
      /\ UNCHANGED P!diskVars
  BY <1>5, <1>7, RequestAssumption, P!WaitForEffect DEF Inv, P!CacheInv
<1> DEFINE f == [q EXCEPT !.state = "ReadCache"]
           g == Started(s, "BackgroundRevalidation", q.key, "Default", "WaitForCache")
<1>9. f \in ReqRecord
  BY <1>4 DEF ReqRecord, States
<1>10. /\ f.state = "ReadCache" /\ f.type = q.type /\ f.key = q.key /\ f.mode = q.mode
       /\ f.ref = "reader" /\ f.got = q.got /\ f.queued = q.queued /\ f.result = q.result
       /\ f.finished = q.finished /\ f.sentHeaders = q.sentHeaders
  BY <1>4 DEF ReqRecord
<1>11. /\ g.state = "WaitForCache" /\ g.type = "BackgroundRevalidation" /\ g.key = q.key
       /\ g.mode = "Default" /\ g.ref = "none" /\ g.got = 0 /\ g.queued = 0
       /\ g.result = "none" /\ g.finished = 0 /\ ~g.sentHeaders
       /\ g \in ReqRecord
  <2>1. "BackgroundRevalidation" \in Types /\ "WaitForCache" \in States
        /\ q.key \in Keys \cup {"none", "substituted"}
        /\ "Default" \in Modes \cup {"none", "Default"}
    BY <1>5 DEF States, Types
  <2> HIDE DEF q
  <2> QED
    BY <2>1, StartedRecord
<1>13. req \in [Requests -> ReqRecord]
  BY DEF Inv, RequestTypes
<1>14. /\ req'[r] = f /\ req'[s] = g
       /\ \A p \in Requests \ {r, s} : req'[p] = req[p]
       /\ req' \in [Requests -> ReqRecord]
  BY <1>2, <1>6, <1>9, <1>11, <1>13
<1>15. running' = [at |-> r, next |-> "read"] /\ r # "none" /\ s # "none"
  BY <1>1, RequestAssumption DEF Then
<1>16. RequestTypes'
  BY <1>1, <1>14, <1>15 DEF Inv, RequestTypes, restUnchanged, Steps
<1> HIDE DEF f, g
<1>17. Sound(r)'
  <2>1. StepOf(r)' = "read"
    BY <1>15 DEF StepOf
  <2>2. ~P!Waiting(r)'
    BY <1>4, <1>6, <1>8 DEF P!SparesOthers, P!Spared
  <2>3. Progress(f)
    BY <1>4, <1>10 DEF Progress, Ended
  <2>4. EntryFits(f, open[r])
    BY <1>4, <1>10 DEF EntryFits, Fetching
  <2>5. StepFits(f, "read")
    BY <1>4, <1>10 DEF StepFits
  <2> QED
    BY <1>4, <1>8, <1>10, <1>14, <2>1, <2>2, <2>3, <2>4, <2>5 DEF Sound, Fits
<1>18. s \notin wrote /\ open[s].kind \notin {"reader", "writer"}
  BY <1>2, <1>6 DEF Inv, Sound, WroteFits, Fetching, Ended, Fits, EntryFits
<1>19. Sound(s)'
  <2>1. StepOf(s)' = "idle"
    BY <1>6, <1>15 DEF StepOf
  <2>2. Progress(g)
    BY <1>5, <1>11 DEF Progress, Untouched, Cached, Ended
  <2>3. EntryFits(g, open[s])
    BY <1>11, <1>18 DEF EntryFits
  <2>4. StepFits(g, "idle")
    BY DEF StepFits
  <2> QED
    BY <1>2, <1>8, <1>11, <1>14, <1>18, <2>1, <2>2, <2>3, <2>4 DEF Sound, Fits
<1>20. row' = row
  BY <1>8 DEF P!diskVars
<1>21. RowsOf(r)' /\ RowsOf(s)'
  <2>1. RowsOf(r) /\ RowsOf(s)
    BY DEF Inv
  <2> QED
    BY <1>4, <1>18, <1>20, <2>1 DEF RowsOf, P!Slots
<1>22. ASSUME NEW p \in Requests \ {r, s} PROVE Sound(p)' /\ RowsOf(p)'
  <2>1. P!Spared(p) /\ req'[p] = req[p] /\ Sound(p) /\ RowsOf(p)
    BY <1>8, <1>14 DEF P!SparesOthers, Inv
  <2>2. StepOf(p) = "idle" /\ StepOf(p)' = "idle"
    BY <1>3, <1>15 DEF StepOf
  <2>3. \A t \in P!Slots : row'[t].of = p => row'[t] = row[t]
    BY <1>20
  <2> QED
    BY <2>1, <2>2, <2>3, SparedStaysSound, SparedKeepsRows
<1>23. NoneRunsDestroyed'
  BY <1>4, <1>8, <1>15 DEF NoneRunsDestroyed
<1>24. RevalidationIsExclusive'
  BY <1>15 DEF RevalidationIsExclusive, At
<1> QED
  BY <1>16, <1>17, <1>19, <1>21, <1>22, <1>23, <1>24 DEF Inv

-----------------------------------------------------------------------------
(* handle_read_cache_state                                                 *)

\* f is q but for what it has of the response: what of it the client has, and its entry.
Continues(f, q) ==
    /\ f.state = q.state /\ f.type = q.type /\ f.key = q.key /\ f.mode = q.mode
    /\ f.finished = q.finished

\* The headers are sent.
LEMMA SentRecord ==
    ASSUME NEW r, req[r] \in ReqRecord
    PROVE  LET f == SentHeaders(r)
               q == req[r] IN
           /\ f \in ReqRecord /\ Continues(f, q) /\ f.sentHeaders
           /\ f.ref = q.ref /\ f.got = q.got /\ f.queued = q.queued /\ f.result = q.result
BY DEF SentHeaders, ReqRecord, Continues

\* The body is handed over as a file.
LEMMA ServedRecord ==
    ASSUME NEW r, req[r] \in ReqRecord
    PROVE  LET f == [SentHeaders(r) EXCEPT !.result = "ok", !.ref = "none"]
               q == req[r] IN
           /\ f \in ReqRecord /\ Continues(f, q)
           /\ f.ref = "none" /\ f.got = q.got /\ f.queued = q.queued
<1> DEFINE q == SentHeaders(r)
           g == [q EXCEPT !.result = "ok"]
           f == [g EXCEPT !.ref = "none"]
<1>1. /\ q \in ReqRecord /\ Continues(q, req[r])
      /\ q.got = req[r].got /\ q.queued = req[r].queued
  BY SentRecord
<1> HIDE DEF q
<1>2. g \in ReqRecord /\ Continues(g, q) /\ g.got = q.got /\ g.queued = q.queued
  <2>1. "ok" \in Results
    BY DEF Results
  <2> QED
    BY <1>1, <2>1 DEF ReqRecord, Continues
<1> HIDE DEF g
<1>3. f \in ReqRecord /\ Continues(f, g) /\ f.ref = "none" /\ f.got = g.got /\ f.queued = g.queued
  BY <1>2 DEF ReqRecord, Continues
<1>4. f = [SentHeaders(r) EXCEPT !.result = "ok", !.ref = "none"]
  BY DEF g, q
<1> HIDE DEF f
<1> QED
  BY <1>1, <1>2, <1>3, <1>4 DEF Continues

\* What is known of a request that reads from the cache.
LEMMA ReadingKnown ==
    ASSUME NEW r \in Requests, NEW b, Known(r, b), req[r].state = "ReadCache", req[r].ref = "reader"
    PROVE  /\ req[r] \in ReqRecord /\ req[r].finished = 0 /\ r \notin wrote
           /\ Lasting(req[r], open[r]) /\ Progress(req[r]) /\ EntryFits(req[r], open[r])
<1>1. req[r] \in ReqRecord /\ Progress(req[r]) /\ EntryFits(req[r], open[r])
  BY DEF Known, Fits
<1>2. req[r].finished \in Nat /\ ~(req[r].finished > 0)
  BY <1>1 DEF ReqRecord, Progress, Ended
<1>3. r \notin wrote
  BY DEF Known, WroteFits
<1> QED
  BY <1>1, <1>2, <1>3, FitsLasts DEF Known

\* The reader closes itself, and the request goes on with q to its end.
LEMMA ReaderEndKeeps ==
    ASSUME Inv, P!CacheInv', P!WaitInv', NEW r \in Requests, running.at \in {"none", r},
           NEW b, Known(r, b), req[r].state = "ReadCache", req[r].ref = "reader",
           NEW q \in ReqRecord, Continues(q, req[r]), q.ref \in {"none", "reader"},
           q.got = req[r].got, q.queued = req[r].queued,
           ToComplete(r, q) \/ (HandleError(r, q) /\ Returns),
           P!Closed(r) /\ P!RowsShrink
    PROVE  Inv'
<1>1. /\ req[r] \in ReqRecord /\ req[r].finished = 0 /\ r \notin wrote
      /\ Lasting(req[r], open[r])
  BY ReadingKnown
<1>2. Mild(r) /\ open'[r] = P!NoEntry
  BY DEF Mild, P!Closed
<1>3. q.finished = 0 /\ Lasting(q, open'[r])
  BY <1>1, <1>2, ClosedLasts DEF Continues, Lasting
<1> QED
  BY <1>1, <1>2, <1>3, ToCompleteKeeps, HandleErrorKeeps

\* CacheEntryReader::send_to_pipe, at its end, at a failure, or when the pipe is full.
LEMMA SendKeeps ==
    ASSUME Inv, P!CacheInv', P!WaitInv', NEW r \in Requests, running.at \in {"none", r},
           NEW b, Known(r, b), req[r].state = "ReadCache", req[r].ref = "reader", SendResult(r)
    PROVE  Inv'
<1> DEFINE q == req[r]
           f == SentHeaders(r)
<1>1. q \in ReqRecord /\ q.finished = 0 /\ r \notin wrote /\ Progress(q) /\ EntryFits(q, open[r])
  BY ReadingKnown
<1>2. /\ f \in ReqRecord /\ Continues(f, q) /\ f.sentHeaders
      /\ f.ref = q.ref /\ f.got = q.got /\ f.queued = q.queued /\ f.result = q.result
  BY <1>1, SentRecord
<1>3. P!CacheInv /\ P!LockTypes /\ P!LockTypes'
  BY DEF Inv, P!CacheInv
<1>4. CASE C!send_complete(r) /\ ToComplete(r, [SentHeaders(r) EXCEPT !.result = "ok"])
  <2> DEFINE g == [f EXCEPT !.result = "ok"]
  <2>1. P!Closed(r) /\ P!RowsShrink
    BY <1>3, <1>4, SameCache, RequestAssumption, P!ReaderClosesEffect
  <2>2. g \in ReqRecord /\ Continues(g, q) /\ g.ref = "reader" /\ g.got = q.got /\ g.queued = q.queued
    <3> HIDE DEF f
    <3>1. "ok" \in Results
      BY DEF Results
    <3>2. g \in ReqRecord /\ Continues(g, f) /\ g.ref = f.ref /\ g.got = f.got /\ g.queued = f.queued
      BY <1>2, <3>1 DEF ReqRecord, Continues
    <3> QED
      BY <1>2, <3>2 DEF Continues
  <2>3. ToComplete(r, g)
    BY <1>4
  <2> QED
    BY <2>1, <2>2, <2>3, ReaderEndKeeps
<1>5. CASE C!send_error(r) /\ HandleError(r, SentHeaders(r)) /\ Returns
  <2>1. P!Closed(r) /\ P!RowsShrink
    BY <1>3, <1>5, SameCache, RequestAssumption, P!ReaderClosesEffect
  <2> QED
    BY <1>2, <1>5, <2>1, ReaderEndKeeps
<1>6. CASE C!send_blocks(r) /\ req' = [req EXCEPT ![r] = SentHeaders(r)] /\ Returns /\ restUnchanged
  <2>1. /\ P!SparesOthers(r) /\ UNCHANGED <<gone, wrote>> /\ UNCHANGED P!diskVars
        /\ P!Waiting(r)' => P!Waiting(r)
        /\ P!Alike(open'[r], open[r])
    BY <1>3, <1>6, SameCache, RequestAssumption, P!BlocksEffect
  <2>2. Mild(r)
    BY <2>1, DiskAlone DEF Mild
  <2>3. draining' \in BOOLEAN /\ removal' \subseteq Requests /\ GoesOn(r, "idle")
    BY <1>6 DEF Inv, RequestTypes, restUnchanged, Returns, GoesOn
  <2> HIDE DEF f
  <2>4. Progress(f)
    BY <1>1, <1>2 DEF Progress, Continues, Ended
  <2>5. EntryFits(q, open'[r]) /\ open[r].kind = "reader"
    BY <1>1, <2>1, AlikeFits DEF EntryFits, Ended
  <2>6. EntryFits(f, open'[r])
    BY <1>2, <2>5 DEF EntryFits, Continues
  <2>7. StepFits(f, "idle")
    BY DEF StepFits
  <2>8. Onward(r, f, open'[r], "idle")
    BY <1>1, <1>2, <2>4, <2>6, <2>7 DEF Onward, Fits
  <2> QED
    BY <1>6, <2>2, <2>3, <2>8, MildKeeps DEF f
<1> QED
  BY <1>4, <1>5, <1>6 DEF SendResult

\* handle_read_cache_state, and the notifier of the pipe.
LEMMA ReadCacheKeeps ==
    ASSUME Inv, P!CacheInv', P!WaitInv', NEW r \in Requests,
           ReadCacheSends(r) \/ ReadCacheHandsOver(r) \/ PipeTakesMore(r)
    PROVE  Inv'
<1>1. ASSUME At(r, "read")
      PROVE  /\ Known(r, "read") /\ running.at = r
             /\ req[r].state = "ReadCache" /\ req[r].ref = "reader" /\ req[r] \in ReqRecord
  BY <1>1, AtKnown DEF Known, Fits, StepFits
<1>2. CASE PipeTakesMore(r)
  <2>1. running = Idle /\ r \notin gone /\ req[r].state = "ReadCache" /\ open[r].kind = "reader"
        /\ SendResult(r)
    BY <1>2 DEF PipeTakesMore, Event, In, Alive
  <2>2. Known(r, "idle") /\ running.at = "none"
    BY <2>1, IdleKnown DEF Idle
  <2>3. req[r].ref = "reader"
    BY <2>1, <2>2 DEF Known, Fits, EntryFits
  <2> QED
    BY <2>1, <2>2, <2>3, SendKeeps
<1>3. CASE At(r, "read") /\ SendResult(r)
  BY <1>1, <1>3, SendKeeps
<1>4. CASE At(r, "read") /\ HandleError(r, SentHeaders(r)) /\ Returns /\ cacheUnchanged
  <2> DEFINE f == SentHeaders(r)
  <2>1. /\ Known(r, "read") /\ running.at = r
        /\ req[r].state = "ReadCache" /\ req[r].ref = "reader" /\ req[r] \in ReqRecord
    BY <1>1, <1>4
  <2>2. /\ f \in ReqRecord /\ Continues(f, req[r])
        /\ f.ref = "reader" /\ f.got = req[r].got /\ f.queued = req[r].queued
        /\ f.result = req[r].result
    BY <2>1, SentRecord
  <2>3. req[r].finished = 0 /\ r \notin wrote /\ Lasting(req[r], open[r])
    BY <2>1, ReadingKnown
  <2>4. Mild(r) /\ open' = open
    BY <1>4, QuietIsMild
  <2>5. HandleError(r, f)
    BY <1>4
  <2> HIDE DEF f
  <2>6. Lasting(f, open[r]) /\ f.finished = 0
    BY <2>1, <2>2, <2>3 DEF Lasting, Continues
  <2> QED
    BY <1>4, <2>1, <2>2, <2>3, <2>4, <2>5, <2>6, HandleErrorKeeps
<1>5. CASE ReadCacheHandsOver(r)
  <2>1. /\ At(r, "read") /\ Known(r, "read") /\ running.at = r
        /\ req[r].state = "ReadCache" /\ req[r].ref = "reader" /\ req[r] \in ReqRecord
    BY <1>1, <1>5 DEF ReadCacheHandsOver
  <2>2. P!CacheInv /\ P!LockTypes'
    BY DEF Inv, P!CacheInv
  <2>3. P!Closed(r) /\ P!RowsShrink
    BY <1>5, <2>2, SameCache, RequestAssumption, P!ReaderClosesEffect DEF ReadCacheHandsOver
  <2>4. CASE ToComplete(r, [SentHeaders(r) EXCEPT !.result = "ok", !.ref = "none"])
    BY <2>1, <2>3, <2>4, ServedRecord, ReaderEndKeeps
  <2>5. CASE HandleError(r, SentHeaders(r)) /\ Returns
    BY <2>1, <2>3, <2>5, SentRecord, ReaderEndKeeps
  <2> QED
    BY <1>5, <2>4, <2>5 DEF ReadCacheHandsOver
<1> QED
  BY <1>2, <1>3, <1>4, <1>5 DEF ReadCacheSends

-----------------------------------------------------------------------------
(* The network.                                                            *)

\* What is known of a request that fetches, or connects, when an event comes for it.
LEMMA FetchingKnown ==
    ASSUME Inv, NEW r \in Requests, Event, Alive(r), req[r].state \in Fetching \cup {"Connect"}
    PROVE  /\ Known(r, "idle") /\ running.at = "none" /\ req[r] \in ReqRecord
           /\ req[r].finished = 0 /\ Lasting(req[r], open[r]) /\ Progress(req[r])
           /\ EntryFits(req[r], open[r]) /\ req[r].state # "WaitForCache"
           /\ req[r].state \notin Ended
           /\ r \in wrote => req[r].ref # "reader"
<1>1. running = Idle /\ r \notin gone
  BY DEF Event, Alive
<1>2. Known(r, "idle") /\ running.at = "none"
  BY <1>1, IdleKnown DEF Idle
<1>3. req[r] \in ReqRecord /\ Progress(req[r]) /\ EntryFits(req[r], open[r])
  BY <1>2 DEF Known, Fits
<1>4. req[r].state \notin Ended /\ req[r].state # "WaitForCache"
  BY DEF Fetching, Ended
<1>5. req[r].finished \in Nat /\ ~(req[r].finished > 0)
  BY <1>3, <1>4 DEF ReqRecord, Progress
<1> QED
  BY <1>2, <1>3, <1>4, <1>5, FitsLasts DEF Known, WroteFits

\* It fails without calling the cache.
LEMMA FetchFailKeeps ==
    ASSUME Inv, P!CacheInv', P!WaitInv', NEW r \in Requests, Event, Alive(r),
           req[r].state \in Fetching \cup {"Connect"}, Fail(r), cacheUnchanged
    PROVE  Inv'
<1>1. HandleError(r, req[r]) /\ Returns
  BY DEF Fail
<1>2. Mild(r) /\ open' = open
  BY QuietIsMild
<1> QED
  BY <1>1, <1>2, FetchingKnown, HandleErrorKeeps

\* It goes on without calling the cache, and is f then.
LEMMA FetchMoveKeeps ==
    ASSUME Inv, P!CacheInv', P!WaitInv', NEW r \in Requests, Event, Alive(r),
           req[r].state \in Fetching \cup {"Connect"}, cacheUnchanged, restUnchanged,
           NEW f \in ReqRecord, req' = [req EXCEPT ![r] = f], NEW a, GoesOn(r, a),
           Fits(f, open[r], a), f.ref = req[r].ref, r \in wrote => WroteFits(f, a)
    PROVE  Inv'
<1>1. Mild(r) /\ open' = open
  BY QuietIsMild
<1>2. draining' \in BOOLEAN /\ removal' \subseteq Requests
  BY DEF Inv, RequestTypes, restUnchanged
<1>3. /\ Known(r, "idle") /\ running.at = "none" /\ req[r].state # "WaitForCache"
      /\ req[r].state \notin Ended
  BY FetchingKnown
<1>4. Onward(r, f, open'[r], a)
  BY <1>1, <1>3 DEF Onward
<1> QED
  BY <1>1, <1>2, <1>3, <1>4, MildKeeps

\* The answers of DNS.
LEMMA DnsKeeps ==
    ASSUME Inv, P!CacheInv', P!WaitInv', NEW r \in Requests, DnsAnswers(r)
    PROVE  Inv'
<1> DEFINE q == req[r]
<1>1. Event /\ Alive(r) /\ q.state = "DNSLookup" /\ cacheUnchanged
  BY DEF DnsAnswers, In
<1>2. q.state \in Fetching \cup {"Connect"}
  BY <1>1 DEF Fetching
<1>3. /\ Known(r, "idle") /\ running.at = "none" /\ q \in ReqRecord /\ Fits(q, open[r], "idle")
      /\ q.finished = 0 /\ Lasting(q, open[r]) /\ q.state # "WaitForCache" /\ q.state \notin Ended
      /\ r \in wrote => q.ref # "reader"
  BY <1>1, <1>2, FetchingKnown DEF Known
<1>4. Mild(r) /\ open' = open
  BY <1>1, QuietIsMild
<1>5. CASE Fail(r)
  BY <1>1, <1>2, <1>5, FetchFailKeeps
<1>6. CASE q.type = "Connect" /\ ToComplete(r, req[r])
  <2>1. q.ref = "none"
    BY <1>3, <1>6 DEF Lasting, Cached
  <2> QED
    BY <1>3, <1>4, <1>6, <2>1, ToCompleteKeeps
<1>7. ASSUME NEW st \in {"Connect", "RetrieveCookie"}, Goes(r, st), st = "Connect" => q.type = "Connect"
      PROVE  Inv'
  <2> DEFINE f == [q EXCEPT !.state = st]
  <2>1. f \in ReqRecord /\ Fits(f, open[r], "idle") /\ f.state = st /\ f.ref = q.ref
    <3>1. /\ q.state \in {"Init", "DNSLookup"} /\ (q.ref = "none" \/ q.state = "DNSLookup")
          /\ st \in {"DNSLookup", "RetrieveCookie", "Connect", "WaitForCache"}
          /\ st = "WaitForCache" => q.state = "Init"
          /\ st = "Connect" => q.type = "Connect"
      BY <1>1, <1>7
    <3> HIDE DEF q
    <3> QED
      BY <1>3, <3>1, StateFits
  <2>2. req' = [req EXCEPT ![r] = f] /\ GoesOn(r, "idle") /\ restUnchanged
    BY <1>7 DEF Goes, Returns, GoesOn
  <2> HIDE DEF f
  <2>3. r \in wrote => WroteFits(f, "idle")
    BY <1>3, <1>7, <2>1 DEF WroteFits, Fetching
  <2> QED
    BY <1>1, <1>2, <2>1, <2>2, <2>3, FetchMoveKeeps
<1> QED
  BY <1>1, <1>5, <1>6, <1>7 DEF DnsAnswers

\* handle_retrieve_cookie_state and handle_fetch_state.
LEMMA CookieKeeps ==
    ASSUME Inv, P!CacheInv', P!WaitInv', NEW r \in Requests, CookieAnswers(r)
    PROVE  Inv'
<1> DEFINE q == req[r]
           f == [q EXCEPT !.state = "Fetch", !.net = "transfer"]
<1>1. Event /\ Alive(r) /\ q.state = "RetrieveCookie" /\ cacheUnchanged
  BY DEF CookieAnswers, In
<1>2. q.state \in Fetching \cup {"Connect"}
  BY <1>1 DEF Fetching
<1>3. /\ q \in ReqRecord /\ Progress(q) /\ EntryFits(q, open[r]) /\ (r \in wrote => q.ref # "reader")
  BY <1>1, <1>2, FetchingKnown DEF Known
<1>4. CASE Fail(r)
  BY <1>1, <1>2, <1>4, FetchFailKeeps
<1>5. CASE /\ req' = [req EXCEPT ![r].state = "Fetch", ![r].net = "transfer"]
           /\ Returns /\ restUnchanged
  <2>1. req \in [Requests -> ReqRecord]
    BY DEF Inv, RequestTypes
  <2>2. req' = [req EXCEPT ![r] = f] /\ GoesOn(r, "idle")
    BY <1>5, <2>1 DEF Returns, GoesOn
  <2>3. f \in ReqRecord
    <3>1. "Fetch" \in States
      BY DEF States
    <3> QED
      BY <1>3, <3>1 DEF ReqRecord
  <2>4. /\ f.state = "Fetch" /\ f.type = q.type /\ f.key = q.key /\ f.mode = q.mode /\ f.ref = q.ref
        /\ f.got = q.got /\ f.queued = q.queued /\ f.result = q.result /\ f.finished = q.finished
        /\ f.sentHeaders = q.sentHeaders
    BY <1>3 DEF ReqRecord
  <2> HIDE DEF f, q
  <2>5. Untouched(q) /\ Untouched(f)
    BY <1>1, <1>3, <2>4 DEF Progress, Untouched
  <2>6. Progress(f)
    BY <1>1, <1>3, <2>4, <2>5 DEF Progress, Ended
  <2>7. EntryFits(f, open[r])
    BY <1>1, <1>3, <2>4 DEF EntryFits, Fetching, Ended
  <2>8. StepFits(f, "idle") /\ (r \in wrote => WroteFits(f, "idle"))
    BY <1>3, <2>4 DEF StepFits, WroteFits, Fetching
  <2>9. Fits(f, open[r], "idle") /\ f.ref = req[r].ref
    BY <2>4, <2>6, <2>7, <2>8 DEF Fits, q
  <2>10. req[r].state \in Fetching \cup {"Connect"}
    BY <1>2 DEF q
  <2> QED
    BY <1>1, <1>5, <2>2, <2>3, <2>8, <2>9, <2>10, FetchMoveKeeps
<1> QED
  BY <1>4, <1>5 DEF CookieAnswers

\* What is kept when the result of a transfer is noted.
LEMMA ResultRecord ==
    ASSUME NEW q \in ReqRecord, NEW x \in {"idle", "transfer"}, NEW y \in Results
    PROVE  LET g == [q EXCEPT !.net = x, !.result = y] IN
           /\ g \in ReqRecord /\ Continues(g, q) /\ g.result = y
           /\ g.ref = q.ref /\ g.got = q.got /\ g.queued = q.queued /\ g.sentHeaders = q.sentHeaders
BY DEF ReqRecord, Continues

\* A connection that was only to be opened is there.
LEMMA ConnectKeeps ==
    ASSUME Inv, P!CacheInv', P!WaitInv', NEW r \in Requests, ConnectEnds(r)
    PROVE  Inv'
<1> DEFINE q == req[r]
           f == [q EXCEPT !.result = "ok"]
<1>1. Event /\ Alive(r) /\ q.state = "Connect" /\ cacheUnchanged /\ ToComplete(r, f)
  BY DEF ConnectEnds, In
<1>2. /\ Known(r, "idle") /\ running.at = "none" /\ q \in ReqRecord /\ Progress(q)
      /\ q.finished = 0 /\ Lasting(q, open[r]) /\ q.state # "WaitForCache" /\ q.state \notin Ended
      /\ r \in wrote => q.ref # "reader"
  BY <1>1, FetchingKnown
<1>3. Mild(r) /\ open' = open
  BY <1>1, QuietIsMild
<1>4. q.ref = "none"
  BY <1>1, <1>2 DEF Progress, Cached
<1>5. /\ f \in ReqRecord /\ f.type = q.type /\ f.key = q.key /\ f.mode = q.mode /\ f.ref = q.ref
      /\ f.got = q.got /\ f.queued = q.queued /\ f.finished = q.finished
  <2>1. "ok" \in Results
    BY DEF Results
  <2> QED
    BY <1>2, <2>1 DEF ReqRecord
<1> HIDE DEF f
<1>6. Lasting(f, open'[r])
  BY <1>2, <1>3, <1>4, <1>5 DEF Lasting
<1> QED
  BY <1>1, <1>2, <1>3, <1>4, <1>5, <1>6, ToCompleteKeeps

\* A transfer ends, or curl's callback has ended it: what is queued is still to be written.
LEMMA TransferEndedKeeps ==
    ASSUME Inv, P!CacheInv', P!WaitInv', NEW r \in Requests, running.at \in {"none", r},
           NEW b, Known(r, b), NEW result \in Results, TransferEnded(r, result),
           req[r].state \in {"Fetch", "Error"}, req[r].ref # "reader", req[r].finished <= 1,
           req[r].state = "Error" => r \notin wrote /\ req[r].ref # "writer",
           result = "ok" => req[r].got = MaxParts
    PROVE  Inv'
<1> DEFINE q == req[r]
           f == [q EXCEPT !.net = "idle", !.result = result]
<1>1. q \in ReqRecord /\ Lasting(q, open[r]) /\ Progress(q) /\ EntryFits(q, open[r])
  BY FitsLasts DEF Known, Fits
<1>2. /\ f \in ReqRecord /\ Continues(f, q) /\ f.result = result
      /\ f.ref = q.ref /\ f.got = q.got /\ f.queued = q.queued /\ f.sentHeaders = q.sentHeaders
  BY <1>1, ResultRecord
<1>3. cacheUnchanged
  BY DEF TransferEnded
<1>4. Mild(r) /\ open' = open
  BY <1>3, QuietIsMild
<1>5. q.state # "WaitForCache" /\ (q.state \in Ended => q.state = "Error")
  BY DEF Ended
<1>6. \/ q.queued = 0 /\ ToComplete(r, f)
      \/ req' = [req EXCEPT ![r] = f] /\ Returns /\ restUnchanged
  BY DEF TransferEnded
<1>7. result # "none"
  BY DEF Results
<1> HIDE DEF f
<1>8. Lasting(f, open'[r])
  BY <1>1, <1>2, <1>4 DEF Lasting, Continues
<1>9. q.ref = "writer" => q.finished = 0
  <2>1. q.finished \in Nat
    BY <1>1 DEF ReqRecord
  <2> QED
    BY <1>1, <2>1 DEF Progress, Ended
<1>10. CASE q.queued = 0 /\ ToComplete(r, f)
  BY <1>2, <1>4, <1>5, <1>7, <1>8, <1>9, <1>10, ToCompleteKeeps DEF Continues
<1>11. CASE req' = [req EXCEPT ![r] = f] /\ Returns /\ restUnchanged
  <2>1. Progress(f)
    BY <1>1, <1>2 DEF Progress, Continues, Ended
  <2>2. EntryFits(f, open'[r])
    BY <1>1, <1>2, <1>4 DEF EntryFits, Continues
  <2>3. StepFits(f, "idle") /\ (r \in wrote => WroteFits(f, "idle"))
    BY <1>2 DEF StepFits, WroteFits, Continues, Fetching
  <2>4. Onward(r, f, open'[r], "idle")
    BY <1>2, <1>5, <2>1, <2>2, <2>3 DEF Onward, Fits
  <2>5. draining' \in BOOLEAN /\ removal' \subseteq Requests /\ GoesOn(r, "idle")
    BY <1>11 DEF Inv, RequestTypes, restUnchanged, Returns, GoesOn
  <2> QED
    BY <1>4, <1>5, <1>11, <2>4, <2>5, MildKeeps
<1> QED
  BY <1>6, <1>10, <1>11

\* What is known of a request that writes what it has received.
LEMMA BodyKnown ==
    ASSUME NEW r \in Requests, NEW b, Known(r, b), req[r].state = "Fetch"
    PROVE  /\ req[r] \in ReqRecord /\ req[r].finished = 0 /\ Lasting(req[r], open[r])
           /\ Progress(req[r]) /\ EntryFits(req[r], open[r])
           /\ r \in wrote => req[r].ref # "reader"
<1>1. req[r] \in ReqRecord /\ Progress(req[r]) /\ EntryFits(req[r], open[r])
  BY DEF Known, Fits
<1>2. req[r].finished \in Nat /\ ~(req[r].finished > 0)
  BY <1>1 DEF ReqRecord, Progress, Ended
<1> QED
  BY <1>1, <1>2, FitsLasts DEF Known, WroteFits

\* It has received more, or has written some of it, and is f then.
LEMMA BodyKeeps ==
    ASSUME Inv, P!CacheInv', P!WaitInv', NEW r \in Requests, running.at \in {"none", r},
           NEW b, Known(r, b), req[r].state = "Fetch",
           NEW f \in ReqRecord, req' = [req EXCEPT ![r] = f], Continues(f, req[r]),
           f.ref # "reader", f.ref = "writer" => req[r].ref = "writer",
           f.queued <= f.got, f.ref = "writer" /\ f.result = "ok" => f.got = MaxParts,
           Mild(r), EntryFits(f, open'[r]), restUnchanged,
           NEW c \in {"idle", "headers", "data", "writable", "aborted"}, GoesOn(r, c)
    PROVE  Inv'
<1> DEFINE q == req[r]
<1>1. q.finished = 0 /\ Progress(q) /\ (r \in wrote => q.ref # "reader")
  BY BodyKnown
<1> HIDE DEF q
<1>2. f.state = "Fetch" /\ f.type = q.type /\ f.key = q.key /\ f.mode = q.mode /\ f.finished = 0
  BY <1>1 DEF Continues, q
<1>3. f.ref # "none" => f.type \in Cached
  <2>1. f.ref = "writer" => q.ref = "writer"
    BY DEF q
  <2>2. f.ref \in {"none", "reader", "writer"}
    BY DEF ReqRecord
  <2> QED
    BY <1>1, <1>2, <2>1, <2>2 DEF Progress
<1>4. Progress(f)
  BY <1>1, <1>2, <1>3 DEF Progress, Ended
<1>5. StepFits(f, c) /\ (r \in wrote => WroteFits(f, c))
  BY <1>2 DEF StepFits, WroteFits, Fetching
<1>6. Onward(r, f, open'[r], c)
  BY <1>4, <1>5 DEF Onward, Fits, Ended
<1>7. draining' \in BOOLEAN /\ removal' \subseteq Requests
  BY DEF Inv, RequestTypes, restUnchanged
<1> QED
  BY <1>6, <1>7, MildKeeps

\* The steps of write_queued_bytes_without_blocking and its callers, and what is known of r then.
LEMMA AtBody ==
    ASSUME Inv, NEW r \in Requests, NEW a \in {"headers", "data", "writable"}, At(r, a)
    PROVE  /\ Known(r, a) /\ running.at = r /\ req[r].state = "Fetch" /\ req[r].ref # "reader"
           /\ req[r] \in ReqRecord
<1>1. Known(r, a) /\ running.at = r
  BY AtKnown
<1> QED
  BY <1>1 DEF Known, Fits, StepFits

\* A step that only decides what is next.
LEMMA PauseKeeps ==
    ASSUME Inv, P!CacheInv', P!WaitInv', NEW r \in Requests, running.at \in {"none", r},
           NEW b, Known(r, b), req[r].state = "Fetch", req[r].ref # "reader",
           cacheUnchanged, UNCHANGED req, restUnchanged,
           NEW c \in {"idle", "headers", "data", "writable", "aborted"}, GoesOn(r, c)
    PROVE  Inv'
<1> DEFINE q == req[r]
<1>1. q \in ReqRecord /\ Progress(q) /\ EntryFits(q, open[r])
  BY BodyKnown
<1>2. Mild(r) /\ open' = open
  BY QuietIsMild
<1>3. req' = [req EXCEPT ![r] = q]
  BY DEF Inv, RequestTypes
<1>4. Continues(q, req[r]) /\ q.queued <= q.got /\ (q.ref = "writer" /\ q.result = "ok" => q.got = MaxParts)
  BY <1>1 DEF Continues, Progress
<1> QED
  BY <1>1, <1>2, <1>3, <1>4, BodyKeeps

\* The pipe is full or closed, everything is written, or the pipe can be written to again.
LEMMA PipeKeeps ==
    ASSUME Inv, P!CacheInv', P!WaitInv', NEW r \in Requests,
           PipeIsFull(r) \/ PipeIsClosed(r) \/ AllWritten(r) \/ PipeIsWritable(r)
    PROVE  Inv'
<1> DEFINE q == req[r]
<1>1. CASE PipeIsFull(r)
  <2>1. At(r, "data") /\ GoesOn(r, "idle") /\ cacheUnchanged /\ UNCHANGED req /\ restUnchanged
    BY <1>1 DEF PipeIsFull, Returns, GoesOn
  <2> QED
    BY <2>1, AtBody, PauseKeeps
<1>2. CASE PipeIsClosed(r)
  <2>1. PICK a \in {"data", "writable"} : At(r, a)
    BY <1>2 DEF PipeIsClosed
  <2>2. GoesOn(r, "idle") \/ GoesOn(r, "aborted")
    BY <1>2 DEF PipeIsClosed, Returns, Then, GoesOn, Steps
  <2>3. cacheUnchanged /\ UNCHANGED req /\ restUnchanged
    BY <1>2 DEF PipeIsClosed
  <2> QED
    BY <2>1, <2>2, <2>3, AtBody, PauseKeeps
<1>3. CASE AllWritten(r)
  <2>1. At(r, "data") /\ q.queued = 0 /\ cacheUnchanged
    BY <1>3 DEF AllWritten
  <2>2. /\ Known(r, "data") /\ running.at = r /\ q.state = "Fetch" /\ q.ref # "reader"
        /\ q \in ReqRecord
    BY <2>1, AtBody
  <2>3. CASE Returns /\ UNCHANGED req /\ restUnchanged
    BY <2>1, <2>2, <2>3, PauseKeeps DEF Returns, GoesOn
  <2>4. CASE q.result # "none" /\ ToComplete(r, req[r])
    <3>1. q.finished = 0 /\ Lasting(q, open[r])
      BY <2>2, BodyKnown
    <3>2. Mild(r) /\ open' = open
      BY <2>1, QuietIsMild
    <3> QED
      BY <2>1, <2>2, <2>4, <3>1, <3>2, ToCompleteKeeps DEF Ended
  <2> QED
    BY <1>3, <2>3, <2>4 DEF AllWritten
<1>4. CASE PipeIsWritable(r)
  <2>1. /\ Event /\ Alive(r) /\ q.state = "Fetch" /\ q.queued > 0
        /\ cacheUnchanged /\ UNCHANGED req /\ restUnchanged
    BY <1>4 DEF PipeIsWritable, In
  <2>2. Known(r, "idle") /\ running.at = "none" /\ Progress(q)
    BY <2>1, FetchingKnown DEF Fetching
  <2>3. q.ref # "reader"
    BY <2>1, <2>2 DEF Progress, Untouched
  <2>4. GoesOn(r, "writable")
    BY <1>4 DEF PipeIsWritable, Then, GoesOn, Steps
  <2> QED
    BY <2>1, <2>2, <2>3, <2>4, PauseKeeps
<1> QED
  BY <1>1, <1>2, <1>3, <1>4

\* The client closes its end of the pipe.
LEMMA ClientClosesKeeps ==
    ASSUME Inv, P!CacheInv', P!WaitInv', NEW r \in Requests, ClientClosesPipe(r)
    PROVE  Inv'
<1> DEFINE q == req[r]
           f == [q EXCEPT !.pipeClosed = TRUE]
<1>1. /\ running = Idle /\ r \notin gone /\ q.state \in {"ReadCache", "Fetch"}
      /\ cacheUnchanged /\ UNCHANGED running /\ restUnchanged /\ req' = [req EXCEPT ![r] = f]
  BY DEF ClientClosesPipe, Event, Alive
<1>2. Known(r, "idle") /\ running.at = "none"
  BY <1>1, IdleKnown DEF Idle
<1>3. q \in ReqRecord /\ Progress(q) /\ EntryFits(q, open[r]) /\ (r \in wrote => WroteFits(q, "idle"))
  BY <1>2 DEF Known, Fits
<1>4. /\ f \in ReqRecord /\ Continues(f, q) /\ f.ref = q.ref /\ f.got = q.got
      /\ f.queued = q.queued /\ f.result = q.result /\ f.sentHeaders = q.sentHeaders
  BY <1>3 DEF ReqRecord, Continues
<1> HIDE DEF f
<1>5. Mild(r) /\ open' = open
  BY <1>1, QuietIsMild
<1>6. Progress(f)
  BY <1>3, <1>4 DEF Progress, Continues, Untouched
<1>7. EntryFits(f, open'[r])
  BY <1>3, <1>4, <1>5 DEF EntryFits, Continues
<1>8. StepFits(f, "idle") /\ (r \in wrote => WroteFits(f, "idle"))
  BY <1>3, <1>4 DEF StepFits, WroteFits, Continues
<1>9. Onward(r, f, open'[r], "idle") /\ q.state # "WaitForCache"
  BY <1>1, <1>4, <1>6, <1>7, <1>8 DEF Onward, Fits, Ended
<1>10. draining' \in BOOLEAN /\ removal' \subseteq Requests /\ GoesOn(r, "idle")
  BY <1>1 DEF Inv, RequestTypes, restUnchanged, GoesOn
<1> QED
  BY <1>1, <1>2, <1>5, <1>9, <1>10, MildKeeps

\* A transfer that does not revalidate has no reader.
LEMMA NotRevalidating ==
    ASSUME NEW r \in Requests, NEW b, Known(r, b), req[r].state = "Fetch", ~IsRevalidation(r)
    PROVE  req[r].ref # "reader"
<1> SUFFICES ASSUME req[r].ref = "reader" PROVE FALSE
  OBVIOUS
<1>1. open[r].kind = "reader" /\ open[r].type \in {"MustRevalidate", "Background"} /\ r \notin gone
  BY DEF Known, Fits, EntryFits, Fetching, Ended
<1>2. P!is_revalidation_request(r)
  BY <1>1 DEF P!is_revalidation_request, P!IsReader
<1> QED
  BY <1>2, SameCache DEF IsRevalidation

\* notify_fetch_complete, at the end of a transfer or after one that was aborted.
LEMMA TransferKeeps ==
    ASSUME Inv, P!CacheInv', P!WaitInv', NEW r \in Requests, TransferEnds(r) \/ TransferAborted(r)
    PROVE  Inv'
<1> DEFINE q == req[r]
<1>1. CASE TransferEnds(r)
  <2>1. Event /\ Alive(r) /\ q.state = "Fetch" /\ ~IsRevalidation(r)
    BY <1>1 DEF TransferEnds, Transfers, In
  <2>2. PICK result \in Results : TransferEnded(r, result) /\ (result = "ok" => q.got = MaxParts)
    BY <1>1 DEF TransferEnds
  <2>3. Known(r, "idle") /\ running.at = "none" /\ q.finished = 0
    BY <2>1, FetchingKnown DEF Fetching
  <2>4. q.ref # "reader"
    BY <2>1, <2>3, NotRevalidating
  <2> QED
    BY <2>1, <2>2, <2>3, <2>4, TransferEndedKeeps
<1>2. CASE TransferAborted(r)
  <2>1. At(r, "aborted") /\ TransferEnded(r, "error") /\ "error" \in Results
    BY <1>2 DEF TransferAborted, Results
  <2>2. Known(r, "aborted") /\ running.at = r
    BY <2>1, AtKnown
  <2>3. /\ q.state \in {"Fetch", "Error"} /\ q.ref # "reader" /\ q.finished <= 1
        /\ q.state = "Error" => r \notin wrote /\ q.ref # "writer"
    BY <2>2 DEF Known, Fits, StepFits, WroteFits
  <2> QED
    BY <2>1, <2>2, <2>3, TransferEndedKeeps
<1> QED
  BY <1>1, <1>2

\* A request that forgets its writer is a request.
LEMMA ForgetRecord ==
    ASSUME NEW q \in ReqRecord
    PROVE  LET f == [q EXCEPT !.ref = "none"] IN
           /\ f \in ReqRecord /\ Continues(f, q) /\ f.ref = "none"
           /\ f.got = q.got /\ f.queued = q.queued /\ f.result = q.result
           /\ f.sentHeaders = q.sentHeaders
BY DEF ReqRecord, Continues

\* transfer_headers_to_client_if_needed
LEMMA HeadersKeeps ==
    ASSUME Inv, P!CacheInv', P!WaitInv', NEW r \in Requests, TransferHeaders(r)
    PROVE  Inv'
<1> DEFINE q == req[r]
           f == SentHeaders(r)
<1>1. At(r, "headers") /\ GoesOn(r, "data") /\ restUnchanged
  BY DEF TransferHeaders, Then, GoesOn, Steps
<1>2. /\ Known(r, "headers") /\ running.at = r /\ q.state = "Fetch" /\ q.ref # "reader"
      /\ q \in ReqRecord
  BY <1>1, AtBody
<1>3. Progress(q) /\ EntryFits(q, open[r])
  BY <1>2, BodyKnown
<1>4. /\ f \in ReqRecord /\ Continues(f, q) /\ f.sentHeaders
      /\ f.ref = q.ref /\ f.got = q.got /\ f.queued = q.queued /\ f.result = q.result
  BY <1>2, SentRecord
<1>5. P!LockTypes /\ P!LockTypes'
  BY DEF Inv, P!CacheInv
<1>6. f.queued <= f.got /\ (f.ref = "writer" /\ f.result = "ok" => f.got = MaxParts)
  BY <1>3, <1>4 DEF Progress
<1> HIDE DEF f
<1>7. CASE (q.sentHeaders \/ q.ref # "writer") /\ req' = [req EXCEPT ![r] = f] /\ cacheUnchanged
  <2>1. Mild(r) /\ open' = open
    BY <1>7, QuietIsMild
  <2>2. EntryFits(f, open'[r])
    BY <1>3, <1>4, <1>7, <2>1 DEF EntryFits, Continues
  <2> QED
    BY <1>1, <1>2, <1>4, <1>6, <1>7, <2>1, <2>2, BodyKeeps
<1>8. CASE C!write_status_and_reason(r) /\ req' = [req EXCEPT ![r] = f]
  <2>1. /\ P!SparesOthers(r) /\ UNCHANGED <<gone, wrote>> /\ UNCHANGED P!diskVars
        /\ P!Waiting(r)' => P!Waiting(r)
        /\ open[r].kind = "writer" /\ open'[r].kind = "writer"
        /\ open'[r].key = open[r].key /\ open'[r].parts = open[r].parts
        /\ open'[r].vary \in Varies
    BY <1>5, <1>8, SameCache, RequestAssumption, P!HeadersEffect
  <2>2. Mild(r) /\ open'[r].vary # "none"
    BY <2>1, DiskAlone, RequestAssumption DEF Mild
  <2>3. EntryFits(f, open'[r])
    BY <1>3, <1>4, <2>1, <2>2 DEF EntryFits, Continues
  <2> QED
    BY <1>1, <1>2, <1>4, <1>6, <1>8, <2>2, <2>3, BodyKeeps
<1>9. CASE C!write_fails(r) /\ req' = [req EXCEPT ![r] = [f EXCEPT !.ref = "none"]]
  <2> DEFINE g == [f EXCEPT !.ref = "none"]
  <2>1. P!Closed(r) /\ UNCHANGED P!diskVars
    BY <1>5, <1>9, SameCache, RequestAssumption, P!WriteFailsEffect
  <2>2. Mild(r) /\ open'[r] = P!NoEntry
    BY <2>1, DiskAlone DEF Mild, P!Closed
  <2>3. /\ g \in ReqRecord /\ Continues(g, f) /\ g.ref = "none"
        /\ g.got = f.got /\ g.queued = f.queued
    BY <1>4, ForgetRecord
  <2> HIDE DEF g
  <2>4. EntryFits(g, open'[r])
    BY <2>2, <2>3 DEF EntryFits, P!NoEntry
  <2>5. Continues(g, q)
    BY <1>4, <2>3 DEF Continues
  <2> QED
    BY <1>1, <1>2, <1>6, <1>9, <2>2, <2>3, <2>4, <2>5, BodyKeeps DEF g
<1> QED
  BY <1>7, <1>8, <1>9 DEF TransferHeaders, f

\* A part that was queued is written.
LEMMA LessQueued ==
    ASSUME NEW q \in ReqRecord, q.queued > 0
    PROVE  LET f == [q EXCEPT !.queued = @ - 1] IN
           /\ f \in ReqRecord /\ Continues(f, q) /\ f.ref = q.ref /\ f.got = q.got
           /\ f.queued = q.queued - 1 /\ f.result = q.result /\ f.sentHeaders = q.sentHeaders
<1>1. q.queued \in 0..MaxParts /\ (q.queued - 1) \in 0..MaxParts
  BY RequestAssumption DEF ReqRecord
<1> QED
  BY <1>1 DEF ReqRecord, Continues

\* write_queued_bytes_without_blocking: what goes to the client goes to the entry.
LEMMA WriteKeeps ==
    ASSUME Inv, P!CacheInv', P!WaitInv', NEW r \in Requests, WriteQueued(r)
    PROVE  Inv'
<1> DEFINE q == req[r]
           f == [q EXCEPT !.queued = @ - 1]
<1>1. /\ At(r, "data") \/ At(r, "writable")
      /\ GoesOn(r, "data") /\ restUnchanged /\ q.queued > 0
  BY DEF WriteQueued, Then, GoesOn, Steps
<1>2. PICK a : /\ Known(r, a) /\ running.at = r /\ q.state = "Fetch" /\ q.ref # "reader"
               /\ q \in ReqRecord
  BY <1>1, AtBody
<1>3. Progress(q) /\ EntryFits(q, open[r])
  BY <1>2, BodyKnown
<1>4. /\ f \in ReqRecord /\ Continues(f, q) /\ f.ref = q.ref /\ f.got = q.got
      /\ f.queued = q.queued - 1 /\ f.result = q.result /\ f.sentHeaders = q.sentHeaders
  BY <1>1, <1>2, LessQueued
<1>5. P!LockTypes /\ P!LockTypes' /\ req \in [Requests -> ReqRecord]
  BY DEF Inv, P!CacheInv, RequestTypes
<1>6. f.queued <= f.got /\ (f.ref = "writer" /\ f.result = "ok" => f.got = MaxParts)
  <2>1. q.queued \in Nat /\ q.got \in Nat
    BY <1>2 DEF ReqRecord
  <2>2. q.queued <= q.got /\ (q.ref = "writer" /\ q.result = "ok" => q.got = MaxParts)
    BY <1>3 DEF Progress
  <2> HIDE DEF f, q
  <2> QED
    BY <1>4, <2>1, <2>2
<1>7. CASE C!write_data(r) /\ req' = [req EXCEPT ![r].queued = @ - 1]
  <2>1. req' = [req EXCEPT ![r] = f]
    BY <1>7
  <2>2. /\ P!SparesOthers(r) /\ UNCHANGED <<gone, wrote>> /\ UNCHANGED P!diskVars
        /\ P!Waiting(r)' => P!Waiting(r)
        /\ open[r].kind = "writer" /\ open'[r].kind = "writer"
        /\ open'[r].key = open[r].key /\ open'[r].parts = open[r].parts + 1
        /\ open'[r].vary = open[r].vary /\ open[r].parts \in Nat
    BY <1>5, <1>7, SameCache, RequestAssumption, P!DataEffect
  <2>3. Mild(r)
    BY <2>2, DiskAlone DEF Mild
  <2>4. open'[r].parts + f.queued = f.got
    <3>1. q.queued \in Nat /\ open[r].parts + q.queued = q.got
      BY <1>2, <1>3, <2>2 DEF ReqRecord, EntryFits
    <3> HIDE DEF f, q
    <3> QED
      BY <1>4, <2>2, <3>1
  <2> HIDE DEF f
  <2>5. EntryFits(f, open'[r])
    BY <1>3, <1>4, <2>2, <2>4 DEF EntryFits, Continues
  <2> QED
    BY <1>1, <1>2, <1>4, <1>6, <2>1, <2>3, <2>5, BodyKeeps
<1>8. CASE C!write_fails(r) /\ req' = [req EXCEPT ![r].queued = @ - 1, ![r].ref = "none"]
  <2> DEFINE g == [f EXCEPT !.ref = "none"]
  <2>1. P!Closed(r) /\ UNCHANGED P!diskVars
    BY <1>5, <1>8, SameCache, RequestAssumption, P!WriteFailsEffect
  <2>2. Mild(r) /\ open'[r] = P!NoEntry
    BY <2>1, DiskAlone DEF Mild, P!Closed
  <2>3. req' = [req EXCEPT ![r] = g]
    BY <1>5, <1>8
  <2> HIDE DEF f
  <2>4. /\ g \in ReqRecord /\ Continues(g, f) /\ g.ref = "none"
        /\ g.got = f.got /\ g.queued = f.queued
    BY <1>4, ForgetRecord
  <2> HIDE DEF g
  <2>5. EntryFits(g, open'[r])
    BY <2>2, <2>4 DEF EntryFits, P!NoEntry
  <2>6. Continues(g, q)
    BY <1>4, <2>4 DEF Continues
  <2> QED
    BY <1>1, <1>2, <1>6, <2>2, <2>3, <2>4, <2>5, <2>6, BodyKeeps
<1>9. CASE q.ref # "writer" /\ cacheUnchanged /\ req' = [req EXCEPT ![r].queued = @ - 1]
  <2>1. req' = [req EXCEPT ![r] = f]
    BY <1>9
  <2>2. Mild(r) /\ open' = open
    BY <1>9, QuietIsMild
  <2> HIDE DEF f
  <2>3. EntryFits(f, open'[r])
    BY <1>3, <1>4, <1>9, <2>2 DEF EntryFits, Continues
  <2> QED
    BY <1>1, <1>2, <1>4, <1>6, <2>1, <2>2, <2>3, BodyKeeps
<1> QED
  BY <1>7, <1>8, <1>9 DEF WriteQueued

\* What is known of a request that revalidates its entry: nothing of a response has come yet.
LEMMA RevalidatingKnown ==
    ASSUME NEW r \in Requests, NEW b, Known(r, b), req[r].state = "Fetch", IsRevalidation(r)
    PROVE  /\ req[r].ref = "reader" /\ Untouched(req[r]) /\ r \notin wrote /\ ~P!Waiting(r)
           /\ open[r].kind = "reader" /\ open[r].slot[1] = req[r].key /\ req[r].key \in Keys
           /\ open[r].type = "Background" <=> req[r].type = "BackgroundRevalidation"
           /\ req[r].type \in Cached
<1>1. req[r].ref = "reader"
  BY DEF IsRevalidation
<1>2. req[r] \in ReqRecord /\ Progress(req[r]) /\ EntryFits(req[r], open[r])
  BY BodyKnown
<1>3. r \notin wrote /\ ~P!Waiting(r)
  BY <1>1 DEF Known, WroteFits
<1>4. open[r].kind = "reader"
  BY <1>1, <1>2 DEF EntryFits, Ended
<1>5. open[r].slot[1] \in Keys
  <2>1. open[r] \in P!Readers
    BY <1>4, RequestAssumption, P!EntryShape DEF Known
  <2> QED
    BY <2>1 DEF P!Readers, P!Slots
<1>6. Untouched(req[r]) /\ req[r].type \in Cached
  BY <1>1, <1>2 DEF Progress
<1> QED
  BY <1>1, <1>2, <1>3, <1>4, <1>5, <1>6 DEF EntryFits

\* A part is received.
LEMMA MoreReceived ==
    ASSUME NEW q \in ReqRecord, q.got < MaxParts, q.queued <= q.got
    PROVE  LET f == [q EXCEPT !.got = @ + 1, !.queued = @ + 1] IN
           /\ f \in ReqRecord /\ Continues(f, q) /\ f.ref = q.ref
           /\ f.got = q.got + 1 /\ f.queued = q.queued + 1 /\ f.queued <= f.got
           /\ f.result = q.result /\ f.sentHeaders = q.sentHeaders
<1>1. q.got \in 0..MaxParts /\ q.queued \in 0..MaxParts
  BY DEF ReqRecord
<1>2. (q.got + 1) \in 0..MaxParts /\ (q.queued + 1) \in 0..MaxParts /\ q.queued + 1 <= q.got + 1
  BY <1>1, RequestAssumption
<1> QED
  BY <1>2 DEF ReqRecord, Continues

\* ... and dropped, when there is no pipe to the client.
LEMMA PartDropped ==
    ASSUME NEW q \in ReqRecord, q.got < MaxParts, q.queued <= q.got
    PROVE  LET f == [q EXCEPT !.got = @ + 1, !.ref = "none"] IN
           /\ f \in ReqRecord /\ Continues(f, q) /\ f.ref = "none" /\ f.queued <= f.got
           /\ f.result = q.result
<1>1. q.got \in 0..MaxParts /\ q.queued \in 0..MaxParts
  BY DEF ReqRecord
<1>2. (q.got + 1) \in 0..MaxParts /\ q.queued <= q.got + 1
  BY <1>1, RequestAssumption
<1> QED
  BY <1>2 DEF ReqRecord, Continues

\* on_data_received, for a transfer that revalidates nothing.
LEMMA DataKeeps ==
    ASSUME Inv, P!CacheInv', P!WaitInv', NEW r \in Requests, on_data_received(r), ~IsRevalidation(r)
    PROVE  Inv'
<1> DEFINE q == req[r]
           f == [q EXCEPT !.got = @ + 1, !.queued = @ + 1]
<1>1. /\ Event /\ Alive(r) /\ q.state = "Fetch" /\ q.got < MaxParts
      /\ req' = [req EXCEPT ![r] = f] /\ Then(r, "headers") /\ cacheUnchanged /\ restUnchanged
  BY DEF on_data_received, Transfers, In
<1>2. Known(r, "idle") /\ running.at = "none"
  BY <1>1, FetchingKnown DEF Fetching
<1>3. q \in ReqRecord /\ Progress(q) /\ EntryFits(q, open[r]) /\ q.ref # "reader"
  BY <1>1, <1>2, BodyKnown, NotRevalidating
<1>4. /\ f \in ReqRecord /\ Continues(f, q) /\ f.ref = q.ref
      /\ f.got = q.got + 1 /\ f.queued = q.queued + 1 /\ f.queued <= f.got
      /\ f.result = q.result /\ f.sentHeaders = q.sentHeaders
  <2>1. q.queued <= q.got
    BY <1>3 DEF Progress
  <2> QED
    BY <1>1, <1>3, <2>1, MoreReceived
<1>5. Mild(r) /\ open' = open
  BY <1>1, QuietIsMild
<1>6. GoesOn(r, "headers")
  BY <1>1 DEF Then, GoesOn, Steps
<1> HIDE DEF f
<1>7. ~(q.ref = "writer" /\ q.result = "ok")
  <2>1. q.got # MaxParts
    BY <1>1, <1>3, RequestAssumption DEF ReqRecord
  <2> QED
    BY <1>3, <2>1 DEF Progress
<1>8. open[r].kind = "writer" => open[r].parts + f.queued = f.got
  <2> SUFFICES ASSUME open[r].kind = "writer" PROVE open[r].parts + f.queued = f.got
    OBVIOUS
  <2>1. open[r].parts \in 0..MaxParts
    <3>1. open[r] \in P!Writers
      BY <1>2, RequestAssumption, P!EntryShape DEF Known
    <3> QED
      BY <3>1 DEF P!Writers
  <2>2. q.queued \in 0..MaxParts /\ open[r].parts + q.queued = q.got
    BY <1>3 DEF ReqRecord, EntryFits
  <2> HIDE DEF q
  <2> QED
    BY <1>4, <2>1, <2>2, RequestAssumption
<1>9. EntryFits(f, open'[r])
  BY <1>3, <1>4, <1>5, <1>8 DEF EntryFits, Continues
<1> QED
  BY <1>1, <1>2, <1>3, <1>4, <1>5, <1>6, <1>7, <1>9, BodyKeeps

\* on_data_received, for a revalidation whose entry has changed: the reader is gone, and nobody
\* else has the entry that a writer will take.
LEMMA ChangedKeeps ==
    ASSUME Inv, P!CacheInv', P!WaitInv', NEW r \in Requests, on_data_received(r), IsRevalidation(r),
           req' = [req EXCEPT ![r] = [req[r] EXCEPT !.got = @ + 1, !.queued = @ + 1, !.ref = "none"]],
           Then(r, "recreate"), restUnchanged
    PROVE  Inv'
<1> DEFINE q == req[r]
           g == [q EXCEPT !.got = @ + 1, !.queued = @ + 1]
           f == [g EXCEPT !.ref = "none"]
<1>1. /\ Event /\ Alive(r) /\ q.state = "Fetch" /\ q.got < MaxParts /\ P!revalidation_failed(r)
  BY SameCache DEF on_data_received, Transfers, In
<1>2. Known(r, "idle") /\ running.at = "none"
  BY <1>1, FetchingKnown DEF Fetching
<1>3. /\ q.ref = "reader" /\ Untouched(q) /\ r \notin wrote /\ ~P!Waiting(r)
      /\ open[r].slot[1] = q.key /\ q.key \in Keys /\ q.type \in Cached
  BY <1>1, <1>2, RevalidatingKnown
<1>4. q \in ReqRecord /\ Progress(q) /\ q.finished = 0 /\ q.queued <= q.got
  BY <1>1, <1>2, BodyKnown DEF Progress
<1>5. /\ g \in ReqRecord /\ Continues(g, q)
      /\ g.got = q.got + 1 /\ g.queued = q.queued + 1
      /\ g.result = q.result /\ g.sentHeaders = q.sentHeaders
  BY <1>1, <1>4, MoreReceived
<1>6. req \in [Requests -> ReqRecord] /\ req' = [req EXCEPT ![r] = f]
  BY DEF Inv, RequestTypes
<1> HIDE DEF g
<1>7. /\ f \in ReqRecord /\ Continues(f, g) /\ f.ref = "none"
      /\ f.got = g.got /\ f.queued = g.queued /\ f.result = g.result
      /\ f.sentHeaders = g.sentHeaders
  BY <1>5, ForgetRecord
<1> HIDE DEF f
<1>8. /\ Continues(f, q) /\ f.queued = f.got /\ f.result = "none" /\ f.sentHeaders = FALSE
      /\ f.queued \in Nat
  <2>1. q.queued = 0 /\ q.got = 0 /\ q.result = "none" /\ q.sentHeaders = FALSE
    BY <1>3, <1>4 DEF Untouched, ReqRecord
  <2> QED
    BY <1>5, <1>7, <2>1 DEF Continues
<1>9. P!Closed(r) /\ P!RowsShrink
  BY <1>1, RequestAssumption, P!ReaderClosesEffect DEF Inv, P!CacheInv
<1>10. /\ P!SparesOthers(r) /\ gone' = gone /\ wrote' = wrote /\ open'[r] = P!NoEntry /\ ~P!Waiting(r)'
  BY <1>3, <1>9 DEF P!Closed
<1>11. req'[r] = f /\ (\A p \in Requests \ {r} : req'[p] = req[p]) /\ req' \in [Requests -> ReqRecord]
  BY <1>6, <1>7
<1>12. running' = [at |-> r, next |-> "recreate"] /\ r # "none"
  BY RequestAssumption DEF Then
<1>13. RequestTypes'
  BY <1>11, <1>12 DEF Inv, RequestTypes, restUnchanged, Steps
<1>14. RevalidationIsExclusive'
  <2>1. PICK k : k = q.key
    OBVIOUS
  <2>2. ~P!HasOpenEntry(k, TRUE)'
    BY <1>1, <1>3, <2>1, RequestAssumption, P!RevalidationLeavesNone DEF Inv
  <2>3. ~C!HasOpenEntry(k, TRUE)'
    BY <2>2, SameCache
  <2>4. req'[r].key = k
    BY <1>8, <1>11, <2>1 DEF Continues
  <2> SUFFICES ASSUME NEW p \in Requests, At(p, "recreate")'
               PROVE  ~C!HasOpenEntry(req[p].key, TRUE)'
    BY DEF RevalidationIsExclusive
  <2>5. p = r
    BY <1>12 DEF At
  <2> QED
    BY <2>3, <2>4, <2>5
<1>15. Sound(r)'
  <2>1. StepOf(r)' = "recreate"
    BY <1>12 DEF StepOf
  <2>2. Progress(f)
    BY <1>1, <1>4, <1>7, <1>8 DEF Progress, Continues, Ended
  <2>3. EntryFits(f, open'[r])
    BY <1>7, <1>10 DEF EntryFits, P!NoEntry
  <2>4. StepFits(f, "recreate")
    BY <1>1, <1>3, <1>4, <1>7, <1>8 DEF StepFits, Continues
  <2> QED
    BY <1>2, <1>3, <1>7, <1>10, <1>11, <2>1, <2>2, <2>3, <2>4 DEF Sound, Fits, Known
<1>16. RowsOf(r)'
  <2> SUFFICES ASSUME NEW s \in P!Slots, row'[s].of = r PROVE FALSE
    BY DEF RowsOf, P!Slots
  <2>1. row'[s] = row[s]
    BY <1>9, <1>12 DEF P!RowsShrink, P!Absent
  <2> QED
    BY <1>3, <2>1 DEF Inv, RowsOf
<1>17. \A s \in P!Slots : row'[s] \in {P!Absent, row[s], P!Written(r)}
  BY <1>9 DEF P!RowsShrink
<1>18. running'.at = r /\ r \notin gone'
  BY <1>2, <1>10, <1>12 DEF Known
<1> QED
  BY <1>2, <1>10, <1>11, <1>13, <1>14, <1>15, <1>16, <1>17, <1>18, TurnKeeps

\* The same when the client's pipe cannot be made: the error is reported, and the transfer aborted.
LEMMA ChangedWithoutPipeKeeps ==
    ASSUME Inv, P!CacheInv', P!WaitInv', NEW r \in Requests, on_data_received(r), IsRevalidation(r),
           HandleError(r, [req[r] EXCEPT !.got = @ + 1, !.ref = "none"]), Then(r, "aborted")
    PROVE  Inv'
<1> DEFINE q == req[r]
           g == [q EXCEPT !.got = @ + 1, !.ref = "none"]
           f == ErrorRecord(g)
<1>1. /\ Event /\ Alive(r) /\ q.state = "Fetch" /\ q.got < MaxParts /\ P!revalidation_failed(r)
  BY SameCache DEF on_data_received, Transfers, In
<1>2. Known(r, "idle") /\ running.at = "none"
  BY <1>1, FetchingKnown DEF Fetching
<1>3. r \notin wrote
  BY <1>1, <1>2, RevalidatingKnown
<1>4. q \in ReqRecord /\ Progress(q) /\ q.finished = 0 /\ q.queued <= q.got /\ Lasting(q, open[r])
  BY <1>1, <1>2, BodyKnown DEF Progress
<1>5. g \in ReqRecord /\ Continues(g, q) /\ g.ref = "none" /\ g.queued <= g.got
  BY <1>1, <1>4, PartDropped
<1>6. req' = [req EXCEPT ![r] = f] /\ removal' = removal \cup {r} /\ UNCHANGED draining
  BY DEF HandleError, ErrorRecord
<1> HIDE DEF g
<1>7. P!Closed(r) /\ P!RowsShrink
  BY <1>1, RequestAssumption, P!ReaderClosesEffect DEF Inv, P!CacheInv
<1>8. Mild(r) /\ open'[r] = P!NoEntry
  BY <1>7 DEF Mild, P!Closed
<1>9. Lasting(g, open'[r]) /\ g.finished = 0
  BY <1>4, <1>5, <1>8, ClosedLasts DEF Continues
<1>10. f.finished <= 1
  BY <1>5, <1>9 DEF ErrorRecord, ReqRecord
<1>11. f \in ReqRecord /\ Fits(f, open'[r], "idle") /\ f.state = "Error" /\ f.ref = "none"
  BY <1>5, <1>9, ErrorFits
<1> HIDE DEF f
<1>12. StepFits(f, "aborted")
  BY <1>10, <1>11 DEF StepFits
<1>13. Onward(r, f, open'[r], "aborted")
  BY <1>3, <1>11, <1>12 DEF Onward, Fits
<1>14. draining' \in BOOLEAN /\ removal' \subseteq Requests /\ GoesOn(r, "aborted")
  BY <1>6 DEF Inv, RequestTypes, Then, GoesOn, Steps
<1> QED
  BY <1>1, <1>2, <1>6, <1>8, <1>13, <1>14, MildKeeps

\* on_data_received
LEMMA ReceivedKeeps ==
    ASSUME Inv, P!CacheInv', P!WaitInv', NEW r \in Requests, on_data_received(r)
    PROVE  Inv'
<1>1. CASE ~IsRevalidation(r)
  BY <1>1, DataKeeps
<1>2. CASE IsRevalidation(r)
  <2>1. \/ /\ req' = [req EXCEPT ![r] = [[req[r] EXCEPT !.got = @ + 1, !.queued = @ + 1] EXCEPT !.ref = "none"]]
           /\ Then(r, "recreate") /\ restUnchanged
        \/ /\ HandleError(r, [req[r] EXCEPT !.got = @ + 1, !.ref = "none"])
           /\ Then(r, "aborted")
    BY <1>2 DEF on_data_received
  <2> QED
    BY <1>2, <2>1, ChangedKeeps, ChangedWithoutPipeKeeps
<1> QED
  BY <1>1, <1>2

\* A request that gets a writer is a request.
LEMMA WriterRecord ==
    ASSUME NEW q \in ReqRecord
    PROVE  LET f == [q EXCEPT !.ref = "writer"] IN
           /\ f \in ReqRecord /\ Continues(f, q) /\ f.ref = "writer"
           /\ f.got = q.got /\ f.queued = q.queued /\ f.result = q.result
           /\ f.sentHeaders = q.sentHeaders
BY DEF ReqRecord, Continues

\* The writer takes the place of the reader: create_entry does not tell the request to wait.
LEMMA RecreateKeeps ==
    ASSUME Inv, P!CacheInv', P!WaitInv', NEW r \in Requests, Recreate(r)
    PROVE  Inv'
<1> DEFINE q == req[r]
           f == [q EXCEPT !.ref = "writer"]
<1>1. At(r, "recreate") /\ Then(r, "headers") /\ restUnchanged
  BY DEF Recreate
<1>2. Known(r, "recreate") /\ running.at = r
  BY <1>1, AtKnown
<1>3. /\ q \in ReqRecord /\ Progress(q) /\ q.state = "Fetch" /\ q.ref = "none" /\ q.key \in Keys
      /\ q.type \in Cached /\ q.queued = q.got /\ ~q.sentHeaders /\ q.result = "none"
      /\ r \notin wrote /\ ~P!Waiting(r)
  BY <1>2 DEF Known, Fits, StepFits, WroteFits
<1>4. ~C!create_entry_waits(r, q.key)
  <2>1. ~P!HasOpenEntry(q.key, TRUE)
    BY <1>1, SameCache DEF Inv, RevalidationIsExclusive
  <2> QED
    BY <2>1, SameCache DEF P!create_entry_waits
<1>5. P!create_entry_opens(r, q.key) /\ req' = [req EXCEPT ![r].ref = "writer"]
  BY <1>4, SameCache DEF Recreate
<1>6. /\ P!SparesOthers(r) /\ UNCHANGED gone /\ UNCHANGED P!diskVars /\ wrote' = wrote \cup {r}
      /\ P!Waiting(r)' => P!Waiting(r)
      /\ open'[r].kind = "writer" /\ open'[r].key = q.key /\ open'[r].parts = 0
  BY <1>5, RequestAssumption, P!CreateEffect DEF Inv, P!CacheInv
<1>7. req' = [req EXCEPT ![r] = f] /\ GoesOn(r, "headers")
  BY <1>1, <1>5 DEF Then, GoesOn, Steps
<1>8. draining' \in BOOLEAN /\ removal' \subseteq Requests
  BY <1>1 DEF Inv, RequestTypes, restUnchanged
<1>9. /\ f \in ReqRecord /\ Continues(f, q) /\ f.ref = "writer"
      /\ f.got = q.got /\ f.queued = q.queued /\ f.result = q.result
      /\ f.sentHeaders = q.sentHeaders
  BY <1>3, WriterRecord
<1> HIDE DEF f
<1>10. Progress(f)
  BY <1>3, <1>9 DEF Progress, Continues, Ended
<1>11. EntryFits(f, open'[r])
  <2>1. open'[r].parts + f.queued = f.got
    BY <1>3, <1>6, <1>9 DEF ReqRecord
  <2> QED
    BY <1>3, <1>6, <1>9, <2>1 DEF EntryFits, Continues
<1>12. q.finished <= 1 /\ f.state = "Fetch" /\ f.finished = q.finished
  BY <1>2, <1>3, <1>9 DEF Known, Fits, StepFits, Continues
<1>13. StepFits(f, "headers") /\ WroteFits(f, "headers")
  BY <1>9, <1>12 DEF StepFits, WroteFits, Fetching
<1>14. Fits(f, open'[r], "headers")
  BY <1>10, <1>11, <1>13 DEF Fits
<1>15. P!RowsShrink /\ r \notin gone' /\ ~P!Waiting(r)' /\ wrote \subseteq wrote' /\ r \in wrote'
  BY <1>2, <1>3, <1>6, DiskAlone DEF Known
<1>16. req[r].state \notin Ended
  BY <1>3 DEF Ended
<1> QED
  BY <1>2, <1>6, <1>7, <1>8, <1>9, <1>13, <1>14, <1>15, <1>16, MoveKeeps

\* What is kept when the transfer is over.
LEMMA OverRecord ==
    ASSUME NEW q \in ReqRecord, NEW st \in States
    PROVE  LET f == [q EXCEPT !.state = st, !.net = "idle"] IN
           /\ f \in ReqRecord /\ f.state = st /\ f.type = q.type /\ f.key = q.key /\ f.mode = q.mode
           /\ f.finished = q.finished /\ f.ref = q.ref
           /\ f.got = q.got /\ f.queued = q.queued /\ f.result = q.result
           /\ f.sentHeaders = q.sentHeaders
BY DEF ReqRecord

\* The entry has not changed: a fetch reads it, a background revalidation is at its end.
LEMMA NotModifiedKeeps ==
    ASSUME Inv, P!CacheInv', P!WaitInv', NEW r \in Requests, NotModified(r)
    PROVE  Inv'
<1> DEFINE q == req[r]
<1>1. /\ Event /\ Alive(r) /\ q.state = "Fetch" /\ IsRevalidation(r) /\ P!revalidation_succeeded(r)
  BY SameCache DEF NotModified, Transfers, In
<1>2. Known(r, "idle") /\ running.at = "none"
  BY <1>1, FetchingKnown DEF Fetching
<1>3. /\ q.ref = "reader" /\ Untouched(q) /\ r \notin wrote /\ q.type \in Cached
      /\ open[r].kind = "reader"
      /\ open[r].type = "Background" <=> q.type = "BackgroundRevalidation"
  BY <1>1, <1>2, RevalidatingKnown
<1>4. q \in ReqRecord /\ Progress(q) /\ EntryFits(q, open[r]) /\ q.finished = 0 /\ Lasting(q, open[r])
  BY <1>1, <1>2, BodyKnown
<1>5. /\ UNCHANGED P!diskVars
      /\ \/ open[r].type = "MustRevalidate" /\ UNCHANGED P!lockVars
         \/ open[r].type = "Background" /\ P!Closed(r)
  BY <1>1, RequestAssumption, P!RevalidatedEffect DEF Inv, P!CacheInv
<1>6. CASE q.type = "Fetch"
  <2> DEFINE f == [q EXCEPT !.state = "ReadCache", !.net = "idle"]
  <2>1. cacheUnchanged
    BY <1>3, <1>5, <1>6 DEF P!diskVars, P!lockVars, cacheUnchanged, cacheVars
  <2>2. Mild(r) /\ open' = open
    BY <2>1, QuietIsMild
  <2>3. req \in [Requests -> ReqRecord]
    BY DEF Inv, RequestTypes
  <2>4. /\ req' = [req EXCEPT ![r].state = "ReadCache", ![r].net = "idle"]
        /\ Then(r, "read") /\ restUnchanged
    BY <1>6 DEF NotModified
  <2>5. req' = [req EXCEPT ![r] = f]
    BY <2>3, <2>4
  <2>6. /\ f \in ReqRecord /\ f.state = "ReadCache" /\ f.type = q.type /\ f.key = q.key /\ f.mode = q.mode
        /\ f.finished = q.finished /\ f.ref = q.ref
        /\ f.got = q.got /\ f.queued = q.queued /\ f.result = q.result
        /\ f.sentHeaders = q.sentHeaders
    <3>1. "ReadCache" \in States
      BY DEF States
    <3> QED
      BY <1>4, <3>1, OverRecord
  <2> HIDE DEF f
  <2>7. Progress(f)
    BY <1>3, <1>4, <2>6 DEF Progress, Ended
  <2>8. EntryFits(f, open'[r])
    BY <1>3, <1>4, <2>2, <2>6 DEF EntryFits, Fetching
  <2>9. StepFits(f, "read")
    BY <1>3, <1>4, <2>6 DEF StepFits
  <2>10. Onward(r, f, open'[r], "read")
    BY <1>3, <2>6, <2>7, <2>8, <2>9 DEF Onward, Fits
  <2>11. draining' \in BOOLEAN /\ removal' \subseteq Requests /\ GoesOn(r, "read")
    BY <2>4 DEF Inv, RequestTypes, restUnchanged, Then, GoesOn, Steps
  <2> QED
    BY <1>1, <1>2, <2>2, <2>5, <2>10, <2>11, MildKeeps
<1>7. CASE q.type # "Fetch"
  <2> DEFINE f == [q EXCEPT !.net = "idle"]
  <2>1. P!Closed(r)
    BY <1>3, <1>5, <1>7 DEF Cached
  <2>2. Mild(r) /\ open'[r] = P!NoEntry
    BY <1>5, <2>1, DiskAlone DEF Mild, P!Closed
  <2>3. ToComplete(r, f)
    BY <1>7 DEF NotModified
  <2>4. f \in ReqRecord /\ Continues(f, q) /\ f.ref = q.ref /\ f.got = q.got /\ f.queued = q.queued
    BY <1>4 DEF ReqRecord, Continues
  <2> HIDE DEF f
  <2>5. Lasting(f, open'[r]) /\ f.finished = 0
    BY <1>3, <1>4, <2>2, <2>4, ClosedLasts DEF Continues, Lasting
  <2> QED
    BY <1>1, <1>2, <1>3, <2>2, <2>3, <2>4, <2>5, ToCompleteKeeps
<1> QED
  BY <1>6, <1>7

\* A revalidation that ended without data: its entry is removed, and the request is at its end.
LEMMA RevalidationEndsKeeps ==
    ASSUME Inv, P!CacheInv', P!WaitInv', NEW r \in Requests, RevalidationEnds(r)
    PROVE  Inv'
<1> DEFINE q == req[r]
           g == [q EXCEPT !.net = "idle", !.ref = "none"]
<1>1. /\ Event /\ Alive(r) /\ q.state = "Fetch" /\ IsRevalidation(r) /\ P!revalidation_failed(r)
  BY SameCache DEF RevalidationEnds, Transfers, In
<1>2. Known(r, "idle") /\ running.at = "none"
  BY <1>1, FetchingKnown DEF Fetching
<1>3. r \notin wrote /\ q.state # "WaitForCache"
  BY <1>1, <1>2, RevalidatingKnown
<1>4. q \in ReqRecord /\ q.finished = 0 /\ Lasting(q, open[r])
  BY <1>1, <1>2, BodyKnown
<1>5. P!Closed(r) /\ P!RowsShrink
  BY <1>1, RequestAssumption, P!ReaderClosesEffect DEF Inv, P!CacheInv
<1>6. Mild(r) /\ open'[r] = P!NoEntry
  BY <1>5 DEF Mild, P!Closed
<1>7. g \in ReqRecord /\ Continues(g, q) /\ g.ref = "none" /\ g.got = q.got /\ g.queued = q.queued
  <2> DEFINE h == [q EXCEPT !.net = "idle"]
  <2>1. h \in ReqRecord /\ Continues(h, q) /\ h.got = q.got /\ h.queued = q.queued
    BY <1>4 DEF ReqRecord, Continues
  <2>2. g = [h EXCEPT !.ref = "none"]
    OBVIOUS
  <2> HIDE DEF h
  <2> QED
    BY <2>1, <2>2, ForgetRecord DEF Continues
<1>8. \/ \E result \in Results : ToComplete(r, [g EXCEPT !.result = result, !.sentHeaders = TRUE])
      \/ HandleError(r, g) /\ Returns
  BY DEF RevalidationEnds
<1> HIDE DEF g
<1>9. q.queued <= q.got
  BY <1>4 DEF Lasting
<1>10. CASE HandleError(r, g) /\ Returns
  <2>1. Lasting(g, open'[r]) /\ g.finished = 0
    BY <1>4, <1>6, <1>7, <1>9, ClosedLasts DEF Continues
  <2> QED
    BY <1>2, <1>3, <1>6, <1>7, <1>10, <2>1, HandleErrorKeeps
<1>11. ASSUME NEW result \in Results,
              ToComplete(r, [g EXCEPT !.result = result, !.sentHeaders = TRUE])
       PROVE  Inv'
  <2> DEFINE f == [g EXCEPT !.result = result, !.sentHeaders = TRUE]
  <2>1. f \in ReqRecord /\ Continues(f, g) /\ f.ref = "none" /\ f.got = g.got /\ f.queued = g.queued
    BY <1>7 DEF ReqRecord, Continues
  <2>2. ToComplete(r, f)
    BY <1>11
  <2> HIDE DEF f
  <2>3. Lasting(f, open'[r]) /\ f.finished = 0
    BY <1>4, <1>6, <1>7, <1>9, <2>1, ClosedLasts DEF Continues
  <2> QED
    BY <1>2, <1>3, <1>6, <2>1, <2>2, <2>3, ToCompleteKeeps
<1> QED
  BY <1>8, <1>10, <1>11

-----------------------------------------------------------------------------
(* The beginning and the end of requests, and other clients of the cache.  *)

\* A request begins, and has f then.
LEMMA StartKeeps ==
    ASSUME Inv, P!CacheInv', P!WaitInv', NEW r \in Requests, running = Idle, r \notin gone,
           req[r] = NotStarted, cacheUnchanged, restUnchanged,
           NEW f \in ReqRecord, req' = [req EXCEPT ![r] = f], f.ref = "none", Untouched(f),
           f.got = 0 /\ f.queued = 0 /\ f.finished = 0,
           NEW a, GoesOn(r, a), Progress(f), StepFits(f, a),
           f.state # "WaitForCache"
    PROVE  Inv'
<1>1. Known(r, "idle") /\ running.at = "none"
  BY IdleKnown DEF Idle
<1>2. req[r].state = "none" /\ req[r].ref = "none"
  BY DEF NotStarted
<1>3. r \notin wrote /\ open[r].kind \notin {"reader", "writer"}
  BY <1>1, <1>2 DEF Known, WroteFits, Fetching, Ended, Fits, EntryFits
<1>4. Mild(r) /\ open' = open
  BY QuietIsMild
<1>5. EntryFits(f, open'[r])
  BY <1>3, <1>4 DEF EntryFits
<1>6. Onward(r, f, open'[r], a)
  BY <1>3, <1>5 DEF Onward, Fits
<1>7. draining' \in BOOLEAN /\ removal' \subseteq Requests
  BY DEF Inv, RequestTypes, restUnchanged
<1> QED
  BY <1>1, <1>2, <1>4, <1>6, <1>7, MildKeeps

\* start_request, and ensure_connection for a request that is to connect only.
LEMMA StartsKeep ==
    ASSUME Inv, P!CacheInv', P!WaitInv', NEW r \in Requests, start_request(r) \/ ensure_connection(r)
    PROVE  Inv'
<1>1. /\ running = Idle /\ r \notin gone /\ req[r] = NotStarted /\ cacheUnchanged /\ restUnchanged
  BY DEF start_request, ensure_connection, Event
<1>2. CASE start_request(r)
  <2>1. PICK k \in Keys \cup {"substituted"}, m \in Modes :
            req' = [req EXCEPT ![r] = Started(r, "Fetch", k, m, "Init")]
    BY <1>2 DEF start_request
  <2> DEFINE f == Started(r, "Fetch", k, m, "Init")
  <2>2. GoesOn(r, "open")
    BY <1>2 DEF start_request, Then, GoesOn, Steps
  <2>3. "Fetch" \in Types /\ "Init" \in States /\ m # "none"
    BY RequestAssumption DEF Types, States
  <2>4. /\ f \in ReqRecord
        /\ f.state = "Init" /\ f.type = "Fetch" /\ f.key = k /\ f.mode = m /\ f.ref = "none"
        /\ f.got = 0 /\ f.queued = 0 /\ f.result = "none" /\ f.finished = 0 /\ ~f.sentHeaders
    BY <2>3, StartedRecord
  <2> HIDE DEF f
  <2>5. Untouched(f) /\ f.state # "WaitForCache"
    BY <2>4 DEF Untouched
  <2>6. Progress(f)
    BY <2>3, <2>4, <2>5 DEF Progress, Cached
  <2>7. StepFits(f, "open")
    BY <2>4 DEF StepFits
  <2> QED
    BY <1>1, <2>1, <2>2, <2>4, <2>5, <2>6, <2>7, StartKeeps DEF f
<1>3. CASE ensure_connection(r)
  <2> DEFINE f == Started(r, "Connect", "none", "none", "DNSLookup")
  <2>1. req' = [req EXCEPT ![r] = f]
    BY <1>3 DEF ensure_connection
  <2>2. GoesOn(r, "idle")
    BY <1>1, <1>3 DEF ensure_connection, GoesOn
  <2>3. "Connect" \in Types /\ "DNSLookup" \in States
    BY DEF Types, States
  <2>4. /\ f \in ReqRecord
        /\ f.state = "DNSLookup" /\ f.type = "Connect" /\ f.key = "none" /\ f.mode = "none"
        /\ f.ref = "none"
        /\ f.got = 0 /\ f.queued = 0 /\ f.result = "none" /\ f.finished = 0 /\ ~f.sentHeaders
    BY <2>3, StartedRecord
  <2> HIDE DEF f
  <2>5. Untouched(f) /\ f.state # "WaitForCache"
    BY <2>4 DEF Untouched
  <2>6. Progress(f)
    BY <2>4, <2>5 DEF Progress, Cached
  <2>7. StepFits(f, "idle")
    BY DEF StepFits
  <2> QED
    BY <1>1, <2>1, <2>2, <2>4, <2>5, <2>6, <2>7, StartKeeps
<1> QED
  BY <1>2, <1>3

\* What is remembered of a request.
LEMMA RememberedRecord ==
    ASSUME NEW q \in ReqRecord
    PROVE  LET f == Remembered(q) IN
           /\ f \in ReqRecord /\ f.state = "none" /\ f.type = q.type
           /\ q.result = "unterminated" => f.result = "unterminated"
<1> DEFINE res == IF q.result = "unterminated" THEN q.result ELSE "none"
           g == [NotStarted EXCEPT !.type = q.type]
           f == [g EXCEPT !.result = res]
<1>1. NotStarted \in ReqRecord
  <2>1. 0 \in 0..MaxParts /\ 0 \in 0..2
    BY RequestAssumption
  <2> QED
    BY <2>1 DEF NotStarted, ReqRecord
<1>2. g \in ReqRecord /\ g.type = q.type /\ g.state = "none"
  <2>1. q.type \in Types \cup {"none"} /\ NotStarted.state = "none"
    BY DEF ReqRecord, NotStarted
  <2> QED
    BY <1>1, <2>1 DEF ReqRecord
<1>3. res \in Results \cup {"none"}
  BY DEF Results
<1>4. f = Remembered(q)
  BY DEF Remembered, NotStarted
<1> HIDE DEF g
<1>5. f \in ReqRecord /\ f.type = g.type /\ f.state = g.state /\ f.result = res
  <2> HIDE DEF res
  <2> QED
    BY <1>2, <1>3 DEF ReqRecord
<1> QED
  BY <1>2, <1>4, <1>5

\* ~Request: the rows it wrote are all that is left of it.
LEMMA DestroyedKeeps ==
    ASSUME Inv, P!CacheInv', P!WaitInv', NEW r \in Requests, running = Idle, UNCHANGED running,
           Destroyed(r), draining' \in BOOLEAN, removal' \subseteq Requests
    PROVE  Inv'
<1> DEFINE q == req[r]
           f == Remembered(q)
<1>1. P!Destroy(r) /\ req' = [req EXCEPT ![r] = f]
  BY SameCache DEF Destroyed
<1>2. P!SparesOthers(r) /\ gone' = gone \cup {r} /\ wrote' = wrote /\ UNCHANGED P!diskVars
  BY <1>1, RequestAssumption, P!DestroyEffect DEF Inv, P!CacheInv
<1>3. req \in [Requests -> ReqRecord] /\ q \in ReqRecord
  BY DEF Inv, RequestTypes
<1>4. /\ f \in ReqRecord /\ f.state = "none" /\ f.type = q.type
      /\ q.result = "unterminated" => f.result = "unterminated"
  BY <1>3, RememberedRecord
<1> HIDE DEF f
<1>5. req'[r] = f /\ (\A p \in Requests \ {r} : req'[p] = req[p]) /\ req' \in [Requests -> ReqRecord]
  BY <1>1, <1>3, <1>4
<1>6. RequestTypes'
  BY <1>5 DEF Inv, RequestTypes, Idle
<1>7. GoesOn(r, "idle") /\ running.at = "none" /\ running'.at = "none" /\ r # "none"
  BY RequestAssumption DEF GoesOn, Idle
<1>8. Sound(r)'
  BY <1>2, <1>4, <1>5 DEF Sound
<1>9. row' = row
  BY <1>2 DEF P!diskVars
<1>10. RowsOf(r)'
  BY <1>2, <1>4, <1>5, <1>9 DEF Inv, RowsOf, Whole, P!Slots
<1> QED
  BY <1>2, <1>5, <1>6, <1>7, <1>8, <1>9, <1>10, NotRecreating, TurnKeeps

\* Steps that are of no request.
LEMMA NobodyKeeps ==
    ASSUME Inv, P!CacheInv', P!WaitInv', UNCHANGED <<req, running>>, draining' \in BOOLEAN,
           removal' \subseteq Requests, \A p \in Requests : P!Spared(p), P!RowsShrink,
           RevalidationIsExclusive'
    PROVE  Inv'
<1>1. RequestTypes'
  BY DEF Inv, RequestTypes, Idle
<1>2. gone' \subseteq Requests
  BY DEF P!CacheInv, P!LockTypes
<1>3. NoneRunsDestroyed'
  BY <1>2 DEF Inv, NoneRunsDestroyed, P!Spared
<1>4. ASSUME NEW p \in Requests PROVE Sound(p)' /\ RowsOf(p)'
  <2>1. StepOf(p)' = StepOf(p) /\ Sound(p) /\ RowsOf(p) /\ P!Spared(p)
    BY DEF StepOf, Inv
  <2>2. P!Absent.of = "none" /\ p # "none"
    BY RequestAssumption DEF P!Absent
  <2>3. \A s \in P!Slots : row'[s].of = p => row'[s] = row[s]
    BY <2>2 DEF P!RowsShrink
  <2> QED
    BY <2>1, <2>3, SparedStaysSound, SparedKeepsRows
<1> QED
  BY <1>1, <1>3, <1>4 DEF Inv

\* The deferred removal of a request, or its end at the wish of its client.
LEMMA RemovalKeeps ==
    ASSUME Inv, P!CacheInv', P!WaitInv', NEW r \in Requests, Remove(r) \/ stop_request(r)
    PROVE  Inv'
<1>1. running = Idle /\ UNCHANGED running /\ draining' = draining /\ removal' \subseteq removal
  BY DEF Remove, stop_request, Event
<1>2. draining' \in BOOLEAN /\ removal' \subseteq Requests
  BY <1>1 DEF Inv, RequestTypes
<1>3. CASE Destroyed(r)
  BY <1>1, <1>2, <1>3, DestroyedKeeps
<1>4. CASE cacheUnchanged /\ UNCHANGED req
  <2>1. UNCHANGED P!lockVars /\ UNCHANGED P!diskVars
    BY <1>4 DEF cacheUnchanged, cacheVars, P!lockVars, P!diskVars
  <2>2. (\A p \in Requests : P!Spared(p)) /\ P!RowsShrink
    BY <2>1, RequestAssumption, P!SparesAll, DiskAlone
  <2>3. RevalidationIsExclusive'
    BY <1>1, NotRecreating DEF GoesOn
  <2> QED
    BY <1>1, <1>2, <1>4, <2>2, <2>3, NobodyKeeps
<1> QED
  BY <1>3, <1>4 DEF Remove, stop_request

\* clear_cache and store_cache_associated_data, which touch no entry in use.
LEMMA OtherClientsKeep ==
    ASSUME Inv, P!CacheInv', P!WaitInv', ClearCache \/ StoreAssociatedData
    PROVE  Inv'
<1>1. running = Idle /\ UNCHANGED <<req, running, draining, removal>>
  BY DEF ClearCache, StoreAssociatedData, Event
<1>2. P!remove_entries_accessed_since \/ \E s \in P!Slots : P!store_associated_data(s)
  BY SameCache DEF ClearCache, StoreAssociatedData
<1>3. (\A p \in Requests : P!Spared(p)) /\ P!RowsShrink
  BY <1>2, RequestAssumption, P!OthersEffect DEF Inv
<1>4. RevalidationIsExclusive'
  BY <1>1, NotRecreating DEF GoesOn
<1>5. draining' \in BOOLEAN /\ removal' \subseteq Requests
  BY <1>1 DEF Inv, RequestTypes
<1> QED
  BY <1>1, <1>3, <1>4, <1>5, NobodyKeeps

\* A reader that outlived its request ends.
LEMMA OrphanKeeps ==
    ASSUME Inv, P!CacheInv', P!WaitInv', NEW r \in Requests, OrphanSends(r)
    PROVE  Inv'
<1>1. running = Idle /\ r \in gone /\ UNCHANGED <<req, running, draining, removal>>
  BY DEF OrphanSends, Event
<1>2. P!Closed(r) /\ P!RowsShrink
  BY SameCache, RequestAssumption, P!ReaderClosesEffect DEF OrphanSends, Inv, P!CacheInv
<1>3. P!SparesOthers(r) /\ UNCHANGED <<gone, wrote>>
  BY <1>2 DEF P!Closed
<1>4. GoesOn(r, "idle") /\ running.at = "none" /\ running'.at = "none" /\ r # "none"
  BY <1>1, RequestAssumption DEF GoesOn, Idle
<1>5. RequestTypes'
  BY <1>1 DEF Inv, RequestTypes, Idle
<1>6. Sound(r)'
  BY <1>1, <1>3 DEF Inv, Sound
<1>7. RowsOf(r)'
  <2>1. P!Absent.of = "none"
    BY DEF P!Absent
  <2>2. \A s \in P!Slots : row'[s].of = r => row'[s] = row[s]
    BY <1>2, <1>4, <2>1 DEF P!RowsShrink
  <2> QED
    BY <1>1, <1>3, <2>2 DEF Inv, RowsOf, P!Slots
<1>8. \A s \in P!Slots : row'[s] \in {P!Absent, row[s], P!Written(r)}
  BY <1>2 DEF P!RowsShrink
<1> QED
  BY <1>1, <1>3, <1>4, <1>5, <1>6, <1>7, <1>8, NotRecreating, TurnKeeps

\* notify_request_unblocked: whoever is resumed has nothing open and nothing under way.
LEMMA ResumeKeeps ==
    ASSUME Inv, P!CacheInv', P!WaitInv', NEW r \in Requests, ResumeNext(r)
    PROVE  Inv'
<1> DEFINE q == req[r]
           f == [q EXCEPT !.state = "Init"]
<1>1. running = Idle /\ P!notify_request_unblocked(r) /\ removal' = removal
  BY SameCache DEF ResumeNext
<1>2. draining' \in BOOLEAN /\ removal' \subseteq Requests
  BY <1>1 DEF Inv, RequestTypes, ResumeNext
<1>3. /\ P!SparesOthers(r) /\ UNCHANGED <<open, gone, wrote>> /\ UNCHANGED P!diskVars
      /\ P!Waiting(r) /\ ~P!Waiting(r)'
  BY <1>1, RequestAssumption, P!NotifyEffect DEF Inv, P!CacheInv, P!WaitInv
<1>4. CASE r \in gone
  <2>1. UNCHANGED <<req, running>>
    BY <1>4 DEF ResumeNext
  <2>2. \A p \in Requests : P!Spared(p)
    <3>1. P!Spared(r)
      BY <1>3, RequestAssumption, P!AlikeItself DEF P!Spared
    <3> QED
      BY <1>3, <3>1 DEF P!SparesOthers
  <2>3. RevalidationIsExclusive'
    BY <1>1, <2>1, NotRecreating DEF GoesOn
  <2> QED
    BY <1>2, <1>3, <2>1, <2>2, <2>3, DiskAlone, NobodyKeeps
<1>5. CASE r \notin gone
  <2>1. req' = [req EXCEPT ![r] = f] /\ GoesOn(r, "open")
    BY <1>5 DEF ResumeNext, Then, GoesOn, Steps
  <2>2. Known(r, "idle") /\ running.at = "none"
    BY <1>1, <1>5, IdleKnown DEF Idle
  <2>3. q \in ReqRecord /\ Progress(q) /\ EntryFits(q, open[r]) /\ q.state = "WaitForCache"
    BY <1>3, <2>2 DEF Known, Fits
  <2>4. open[r] = P!NoEntry
    BY <1>3 DEF Inv, P!WaitInv, P!WaitersHaveNone
  <2>5. q.ref = "none" /\ r \notin wrote
    <3>1. open[r].kind = "none"
      BY <2>4 DEF P!NoEntry
    <3>2. q.ref \in {"none", "reader", "writer"}
      BY <2>3 DEF ReqRecord
    <3> QED
      BY <2>2, <2>3, <3>1, <3>2 DEF EntryFits, Ended, Known, WroteFits, Fetching
  <2>6. /\ f \in ReqRecord /\ f.state = "Init" /\ f.type = q.type /\ f.key = q.key /\ f.mode = q.mode
        /\ f.ref = "none" /\ f.got = q.got /\ f.queued = q.queued /\ f.result = q.result
        /\ f.finished = q.finished /\ f.sentHeaders = q.sentHeaders
    BY <2>3, <2>5 DEF ReqRecord, States
  <2> HIDE DEF f, q
  <2>7. Untouched(q) /\ Untouched(f) /\ q.finished = 0
    <3>1. q.finished \in Nat
      BY <2>3 DEF ReqRecord
    <3> QED
      BY <2>3, <2>6, <3>1 DEF Progress, Untouched, Ended
  <2>8. Progress(f)
    BY <2>3, <2>6, <2>7 DEF Progress, Ended
  <2>9. EntryFits(f, open'[r])
    BY <1>3, <2>4, <2>6 DEF EntryFits, P!NoEntry
  <2>10. StepFits(f, "open")
    BY <2>6, <2>7 DEF StepFits
  <2>11. Fits(f, open'[r], "open")
    BY <2>8, <2>9, <2>10 DEF Fits
  <2>12. r \notin gone' /\ r \notin wrote' /\ wrote \subseteq wrote' /\ P!RowsShrink
    BY <1>3, <1>5, <2>5, DiskAlone
  <2> QED
    BY <1>2, <1>3, <2>1, <2>2, <2>5, <2>6, <2>11, <2>12, MoveKeeps
<1> QED
  BY <1>4, <1>5

-----------------------------------------------------------------------------
(* The invariant.                                                          *)

\* At first there is no request.
LEMMA InitInv == Init => Inv
<1> SUFFICES ASSUME Init PROVE Inv
  OBVIOUS
<1>1. P!Init
  BY SameCache DEF Init
<1>2. P!CacheInv /\ P!WaitInv
  BY <1>1, RequestAssumption, P!CacheInit, P!WaitInit
<1>3. /\ open = [r \in Requests |-> P!NoEntry] /\ gone = {} /\ wrote = {}
      /\ waiting = [k \in Keys |-> <<>>] /\ deferred = <<>>
      /\ row \in [P!Slots -> {P!Absent, [of |-> Old, parts |-> MaxParts]}]
  BY <1>1 DEF P!Init
<1>4. /\ req = [r \in Requests |-> NotStarted] /\ running = Idle /\ draining = FALSE /\ removal = {}
  BY DEF Init
<1>5. NotStarted \in ReqRecord
  <2>1. 0 \in 0..MaxParts /\ 0 \in 0..2
    BY RequestAssumption
  <2> QED
    BY <2>1 DEF NotStarted, ReqRecord
<1>6. RequestTypes
  BY <1>4, <1>5 DEF RequestTypes
<1>7. NoneRunsDestroyed
  BY <1>3 DEF NoneRunsDestroyed
<1>8. RevalidationIsExclusive
  BY <1>4 DEF RevalidationIsExclusive, At, Idle
<1>9. ASSUME NEW r \in Requests PROVE Sound(r) /\ RowsOf(r)
  <2>1. req[r] = NotStarted /\ open[r] = P!NoEntry /\ r # "none" /\ Old # r
    BY <1>3, <1>4, RequestAssumption
  <2>2. StepOf(r) = "idle"
    BY <1>4, <2>1 DEF StepOf, Idle
  <2>3. ~P!Waiting(r)
    BY <1>3 DEF P!Waiting, P!Elements
  <2>4. Progress(NotStarted)
    BY DEF Progress, NotStarted, Untouched, Cached
  <2>5. EntryFits(NotStarted, P!NoEntry) /\ StepFits(NotStarted, "idle")
    BY DEF EntryFits, StepFits, NotStarted, P!NoEntry
  <2>6. NotStarted.ref = "none"
    BY DEF NotStarted
  <2>7. Sound(r)
    BY <1>3, <2>1, <2>2, <2>3, <2>4, <2>5, <2>6 DEF Sound, Fits
  <2>8. \A s \in P!Slots : row[s].of # r
    <3> TAKE s \in P!Slots
    <3>1. row[s] \in {P!Absent, [of |-> Old, parts |-> MaxParts]}
      BY <1>3
    <3>2. P!Absent.of = "none"
      BY DEF P!Absent
    <3> QED
      BY <2>1, <3>1, <3>2
  <2> QED
    BY <2>7, <2>8 DEF RowsOf
<1> QED
  BY <1>2, <1>6, <1>7, <1>8, <1>9 DEF Inv

\* Every step of every request keeps the invariant: it is inductive.
LEMMA NextInv == Inv /\ [Next]_vars => Inv'
<1> SUFFICES ASSUME Inv, [Next]_vars PROVE Inv'
  OBVIOUS
<1>1. P!CacheInv' /\ P!WaitInv'
  <2>1. [P!Next]_(P!cacheVars)
    BY NextAllowed DEF Allowed, cacheVars, P!cacheVars, P!lockVars, P!diskVars
  <2>2. P!CacheInv /\ P!WaitInv
    BY DEF Inv
  <2>3. P!CacheInv'
    BY <2>1, <2>2, RequestAssumption, P!CacheNext
  <2> QED
    BY <2>1, <2>2, <2>3, RequestAssumption, P!WaitNext
<1>2. CASE UNCHANGED vars
  <2>1. UNCHANGED P!lockVars /\ UNCHANGED P!diskVars /\ UNCHANGED <<req, running, draining, removal>>
    BY <1>2 DEF vars, cacheVars, P!lockVars, P!diskVars
  <2>2. (\A p \in Requests : P!Spared(p)) /\ P!RowsShrink
    BY <2>1, RequestAssumption, P!SparesAll, DiskAlone
  <2>3. RevalidationIsExclusive'
    <3>1. RevalidationIsExclusive
      BY DEF Inv
    <3> QED
      BY <1>2, <3>1 DEF RevalidationIsExclusive, At, vars, cacheVars, C!HasOpenEntry, C!OpenOn,
             C!IsWriter, C!IsReader, C!is_revalidation_request, C!KeyOf, C!NoEntry
  <2>4. draining' \in BOOLEAN /\ removal' \subseteq Requests
    BY <2>1 DEF Inv, RequestTypes
  <2> QED
    BY <1>1, <2>1, <2>2, <2>3, <2>4, NobodyKeeps
<1>3. ASSUME NEW r \in Requests, Handler(r) PROVE Inv'
  BY <1>1, <1>3, CompleteKeeps, SpawnKeeps, NoCacheKeeps, OpenWaitsKeeps, OpenReadsKeeps,
     OpenFindsNothingKeeps, CreateEntryKeeps, ReadCacheKeeps, RecreateKeeps, HeadersKeeps,
     WriteKeeps, PipeKeeps, TransferKeeps DEF Handler
<1>4. ASSUME NEW r \in Requests, Deferred(r) \/ Answers(r) PROVE Inv'
  BY <1>1, <1>4, RemovalKeeps, ResumeKeeps, DnsKeeps, CookieKeeps, ConnectKeeps, NotModifiedKeeps,
     RevalidationEndsKeeps, TransferKeeps, PipeKeeps, ReadCacheKeeps DEF Deferred, Answers
<1>5. ASSUME NEW r \in Requests,
             \/ on_data_received(r) \/ start_request(r) \/ ensure_connection(r) \/ stop_request(r)
             \/ ClientClosesPipe(r) \/ OrphanSends(r)
      PROVE  Inv'
  BY <1>1, <1>5, ReceivedKeeps, StartsKeep, RemovalKeeps, ClientClosesKeeps, OrphanKeeps
<1>6. CASE ClearCache \/ StoreAssociatedData
  BY <1>1, <1>6, OtherClientsKeep
<1> QED
  BY <1>2, <1>3, <1>4, <1>5, <1>6 DEF Next

\* The invariant holds for any number of requests, keys and vary keys, for bodies of any
\* length, and whatever goes wrong.
THEOREM RequestInvariance == Spec => []Inv
BY InitInv, NextInv, PTL DEF Spec

\* Every step that RequestServer makes of the disk cache is one that module DiskCache allows, so
\* that what is proved of DiskCache for all callers holds of the requests: in particular that
\* open_entry and create_entry are never called by a request that has an entry or waits for one.
THEOREM RequestsImplementDiskCache == Spec => ImplementsDiskCache
<1>1. Init => C!Init
  BY DEF Init
<1>2. Inv /\ [Next]_vars => [C!Next]_(C!cacheVars)
  BY NextAllowed, SameCache DEF Allowed, cacheVars, C!cacheVars, C!lockVars, C!diskVars
<1> QED
  BY <1>1, <1>2, RequestInvariance, PTL DEF Spec, C!Spec, ImplementsDiskCache

\* The types of a request's fields, of the step that is running and of the cache.
THEOREM RequestTypeCorrect == Spec => []TypeOK
<1>1. Inv => TypeOK
  <2> SUFFICES ASSUME Inv PROVE TypeOK
    OBVIOUS
  <2>1. C!TypeOK
    BY SameCache, RequestAssumption, P!TypeParts DEF Inv, P!CacheInv, P!DiskInv
  <2> QED
    BY <2>1 DEF Inv, RequestTypes, ReqRecord, TypeOK, Idle
<1> QED
  BY <1>1, RequestInvariance, PTL

\* notify_request_unblocked calls transition_to_state(State::Init) without a look at the state
\* of the request: it is WaitForCache for every request that can be resumed.
THEOREM OnlyWaitersAreResumed == Spec => []ResumedWhileWaiting
<1>1. Inv => ResumedWhileWaiting
  BY SameCache DEF Inv, Sound, ResumedWhileWaiting
<1> QED
  BY <1>1, RequestInvariance, PTL

\* The VERIFY_NOT_REACHED of on_data_received is not reached: between the end of the reader and
\* the creation of the writer nobody has the entry.
THEOREM RevalidationMakesWriter == Spec => []RevalidationIsExclusive
<1>1. Inv => RevalidationIsExclusive
  BY DEF Inv
<1> QED
  BY <1>1, RequestInvariance, PTL

\* m_cache_entry_reader and m_cache_entry_writer point to open entries for as long as a request
\* may use them, and a writer that was given headers has the path that flush asserts.
THEOREM RequestsUseOpenEntries == Spec => []ReferencesAreOpen
<1>1. Inv => ReferencesAreOpen
  <2> SUFFICES ASSUME Inv, NEW r \in Requests \ gone
               PROVE  /\ req[r].ref # "none" /\ req[r].state \notin {"Complete", "Error"}
                            => open[r].kind = req[r].ref
                      /\ req[r].ref = "writer" /\ req[r].sentHeaders => open[r].vary # "none"
    BY DEF ReferencesAreOpen
  <2>1. EntryFits(req[r], open[r])
    BY DEF Inv, Sound, Fits
  <2>2. req[r].ref \in {"none", "reader", "writer"}
    BY DEF Inv, RequestTypes, ReqRecord
  <2> QED
    BY <2>1, <2>2 DEF EntryFits, Ended
<1> QED
  BY <1>1, RequestInvariance, PTL

\* handle_complete_state tells the client that its request is finished only when the entry that
\* it wrote is closed.
THEOREM FinishedAfterFlush == Spec => []FinishedMeansFlushed
<1>1. Inv => FinishedMeansFlushed
  <2> SUFFICES ASSUME Inv, NEW r \in Requests, req[r].finished > 0, req[r].state = "Complete"
               PROVE  open[r].kind # "writer"
    BY DEF FinishedMeansFlushed
  <2>1. r \notin gone
    BY DEF Inv, Sound
  <2>2. Progress(req[r]) /\ EntryFits(req[r], open[r])
    BY <2>1 DEF Inv, Sound, Fits
  <2> QED
    BY <2>2 DEF Progress, EntryFits
<1> QED
  BY <1>1, RequestInvariance, PTL

\* The test of the transfer's result in handle_complete_state, and the counting of what was
\* received, queued and written before it, keep every part of a response that a fetch stores:
\* the row is of a whole body, or of one whose end nobody knows and that is not empty.
THEOREM RowsOfFetchesAreWhole == Spec => []FetchesStoreWholeBodies
<1>1. Inv => FetchesStoreWholeBodies
  <2> SUFFICES ASSUME Inv, NEW s \in C!Slots, NEW r \in Requests, row[s].of = r, req[r].type = "Fetch"
               PROVE  row[s].parts = MaxParts \/ (row[s].parts > 0 /\ req[r].result = "unterminated")
    BY DEF FetchesStoreWholeBodies
  <2>1. s \in P!Slots
    BY SameCache
  <2> QED
    BY <2>1 DEF Inv, RowsOf, Whole
<1> QED
  BY <1>1, RequestInvariance, PTL
-----------------------------------------------------------------------------
(* Nobody is stuck: every request that is not over is carried on by its    *)
(* own handler, by an answer from outside, by a deferred removal, or by    *)
(* the end of somebody else's entry.                                       *)

\* A callback is registered, or a call deferred, that will carry r on by itself.
Carried(r) ==
    \/ running.at = r
    \/ req[r].state = "ReadCache" /\ P!Sending(r)
    \/ req[r].state \in {"DNSLookup", "RetrieveCookie", "Connect"}
    \/ /\ req[r].state = "Fetch"
       /\ req[r].net = "transfer" \/ (req[r].queued > 0 /\ req[r].type = "Fetch")
    \/ req[r].state \in Ended /\ r \in removal

\* r is in a batch that will be resumed, or in the queue of a key that another request
\* has open.
Held(r) ==
    \/ \E i \in DOMAIN deferred : r \in C!Elements(deferred[i])
    \/ \E k \in Keys : r \in C!Elements(waiting[k]) /\ C!OpenOn(k) \ {r} # {}

\* No request that was started and not removed is left with nothing to carry it on.
NobodyIsStuck ==
    \A r \in Requests : Alive(r) => Carried(r) \/ (req[r].state = "WaitForCache" /\ Held(r))

\* What makes this inductive, of a request q with next step a: only a client closes a pipe;
\* a fetch is under way or has a result; a background revalidation, which has no pipe, leaves
\* nothing queued when its handler returns.
Orderly(q, a) ==
    /\ q.pipeClosed => q.type = "Fetch"
    /\ q.state = "Fetch" => q.net = "transfer" \/ q.result # "none"
    /\ a = "aborted" => q.type = "Fetch"
    /\ a = "idle" /\ q.state = "Fetch" /\ q.queued > 0 => q.type = "Fetch"

Going(r) ==
    /\ Orderly(req[r], StepOf(r))
    /\ StepOf(r) = "aborted" /\ req[r].state = "Error" => r \in removal
    /\ req[r].state # "none" => Carried(r) \/ (req[r].state = "WaitForCache" /\ P!Waiting(r))

AllGoing == \A r \in Requests \ gone : Going(r)

\* A request that takes no step, and that the cache does not forget, is still carried on.
LEMMA OthersGo ==
    ASSUME NEW p \in Requests, Going(p), P!Undisturbed(p), req'[p] = req[p],
           running.at # p, running'.at # p, p \in removal => p \in removal'
    PROVE  Going(p)'
<1>1. StepOf(p) = "idle" /\ StepOf(p)' = "idle"
  BY DEF StepOf
<1>2. (P!Waiting(p) => P!Waiting(p)') /\ (P!Sending(p) => P!Sending(p)')
  BY DEF P!Undisturbed
<1>3. Carried(p) => Carried(p)'
  BY <1>2 DEF Carried
<1> QED
  BY <1>1, <1>2, <1>3 DEF Going

\* What only concerns r, and leaves r going, leaves everybody going.
LEMMA TurnGoes ==
    ASSUME Inv, Inv', AllGoing, NEW r \in Requests, P!LeavesOthers(r),
           \A p \in Requests \ {r} : req'[p] = req[p],
           running.at \in {"none", r}, running'.at \in {"none", r}, removal \ {r} \subseteq removal',
           gone \subseteq gone', r \notin gone' => Going(r)'
    PROVE  AllGoing'
<1> SUFFICES ASSUME NEW p \in Requests, p \notin gone' PROVE Going(p)'
  BY DEF AllGoing
<1>1. CASE p = r
  BY <1>1
<1>2. CASE p # r
  <2>1. p # "none" /\ Going(p) /\ P!Undisturbed(p)
    BY <1>2, RequestAssumption DEF AllGoing, P!LeavesOthers
  <2> QED
    BY <1>2, <2>1, OthersGo
<1> QED
  BY <1>1, <1>2

\* A handler that goes on is what carries its request.
LEMMA RunningGoes ==
    ASSUME NEW r \in Requests, NEW a, a \notin {"aborted", "idle"}, Then(r, a),
           req'[r].pipeClosed => req'[r].type = "Fetch",
           req'[r].state = "Fetch" => req'[r].net = "transfer" \/ req'[r].result # "none"
    PROVE  Going(r)'
<1>1. running'.at = r /\ StepOf(r)' = a
  BY DEF Then, StepOf
<1> QED
  BY <1>1 DEF Going, Orderly, Carried

\* A handler that returns in one of these states has asked for an answer.
LEMMA AskingGoes ==
    ASSUME NEW r \in Requests, running'.at # r,
           req'[r].pipeClosed => req'[r].type = "Fetch",
           req'[r].state \in {"DNSLookup", "RetrieveCookie", "Connect"}
    PROVE  Going(r)'
<1>1. StepOf(r)' = "idle"
  BY DEF StepOf
<1> QED
  BY <1>1 DEF Going, Orderly, Carried

\* A request that failed will be removed.
LEMMA ErrorGoes ==
    ASSUME Inv, NEW r \in Requests, Going(r), NEW q \in ReqRecord,
           q.type = req[r].type, q.pipeClosed = req[r].pipeClosed,
           HandleError(r, q), Returns \/ (Then(r, "aborted") /\ q.type = "Fetch")
    PROVE  Going(r)'
<1> DEFINE f == ErrorRecord(q)
<1>1. req' = [req EXCEPT ![r] = f] /\ r \in removal'
  BY DEF HandleError, ErrorRecord
<1>2. f.state = "Error" /\ f.type = q.type /\ f.pipeClosed = q.pipeClosed
  BY DEF ErrorRecord, ReqRecord
<1> HIDE DEF f
<1>3. req'[r] = f
  BY <1>1 DEF Inv, RequestTypes
<1>4. StepOf(r)' = "idle" \/ (StepOf(r)' = "aborted" /\ q.type = "Fetch")
  BY RequestAssumption DEF StepOf, Returns, Then, Idle
<1> QED
  BY <1>1, <1>2, <1>3, <1>4 DEF Going, Orderly, Carried, Ended

\* One that is complete is still in handle_complete_state.
LEMMA CompleteGoes ==
    ASSUME Inv, NEW r \in Requests, Going(r), NEW q \in ReqRecord,
           q.type = req[r].type, q.pipeClosed = req[r].pipeClosed, ToComplete(r, q)
    PROVE  Going(r)'
<1> DEFINE f == [q EXCEPT !.state = "Complete"]
<1>1. req' = [req EXCEPT ![r] = f] /\ Then(r, "complete")
  BY DEF ToComplete
<1>2. f.state = "Complete" /\ f.type = q.type /\ f.pipeClosed = q.pipeClosed
  BY DEF ReqRecord
<1> HIDE DEF f
<1>3. req'[r] = f
  BY <1>1 DEF Inv, RequestTypes
<1>4. req[r].pipeClosed => req[r].type = "Fetch"
  BY DEF Going, Orderly
<1> QED
  BY <1>1, <1>2, <1>3, <1>4, RunningGoes

\* The failure of a request as it is.
LEMMA FailGoes ==
    ASSUME Inv, NEW r \in Requests, Going(r), Fail(r)
    PROVE  Going(r)'
BY ErrorGoes DEF Fail, Inv, RequestTypes

\* A step of r changes nothing of the others.
Own(r) ==
    /\ UNCHANGED req \/ \E f : req' = [req EXCEPT ![r] = f]
    /\ running.at \in {"none", r} /\ running'.at \in {"none", r}
    /\ removal \ {r} \subseteq removal'

\* The ends that a handler may come to are steps of its own request.
LEMMA EndsAreOwn ==
    ASSUME NEW r \in Requests, running.at \in {"none", r}
    PROVE  /\ \A q : HandleError(r, q) /\ (Returns \/ Then(r, "aborted")) => Own(r)
           /\ \A q : ToComplete(r, q) => Own(r)
           /\ \A state : Goes(r, state) => Own(r)
           /\ Fail(r) => Own(r)
<1>1. Idle.at = "none" /\ \A a : [at |-> r, next |-> a].at = r
  BY DEF Idle
<1>2. ASSUME NEW q, HandleError(r, q), Returns \/ Then(r, "aborted") PROVE Own(r)
  <2>1. /\ removal' = removal \cup {r} /\ running'.at \in {"none", r}
        /\ \E f : req' = [req EXCEPT ![r] = f]
    BY <1>1, <1>2 DEF HandleError, Returns, Then
  <2> QED
    BY <2>1 DEF Own
<1>3. ASSUME NEW q, ToComplete(r, q) PROVE Own(r)
  <2>1. removal' = removal /\ running'.at = r /\ \E f : req' = [req EXCEPT ![r] = f]
    BY <1>1, <1>3 DEF ToComplete, Then, restUnchanged
  <2> QED
    BY <2>1 DEF Own
<1>4. ASSUME NEW state, Goes(r, state) PROVE Own(r)
  <2>1. removal' = removal /\ running'.at = "none" /\ \E f : req' = [req EXCEPT ![r] = f]
    BY <1>1, <1>4 DEF Goes, Returns, restUnchanged
  <2> QED
    BY <2>1 DEF Own
<1> QED
  BY <1>2, <1>3, <1>4 DEF Fail

\* Every step of r but the start of a background revalidation is one of r alone.
LEMMA TurnIsOwn ==
    ASSUME NEW r \in Requests, Turn(r), ~start_revalidation_request(r)
    PROVE  Own(r)
<1>0. /\ Event => running.at = "none"
      /\ running = Idle => running.at = "none"
      /\ \A a : At(r, a) => running.at = r
  BY DEF Event, Idle, At
<1>1. running.at \in {"none", r}
  BY <1>0, Zenon DEF Turn, Handler, Deferred, Answers, CompleteFailed, CompleteWrites, CompleteFinishes,
         ServeSubstitution, SkipCache, OpenWaits, OpenReads, OpenFindsNothing, CreateEntry,
         ReadCacheSends, ReadCacheHandsOver, Recreate, TransferHeaders, WriteQueued, PipeIsFull,
         PipeIsClosed, AllWritten, TransferAborted, Remove, ResumeNext, DnsAnswers, CookieAnswers,
         ConnectEnds, NotModified, RevalidationEnds, TransferEnds, PipeIsWritable, PipeTakesMore,
         on_data_received, start_request, ensure_connection, stop_request, ClientClosesPipe,
         OrphanSends, UsesCache
<1>2. ASSUME UNCHANGED <<req, removal>>, running'.at \in {"none", r} PROVE Own(r)
  BY <1>1, <1>2 DEF Own
<1>3. ASSUME NEW f, req' = [req EXCEPT ![r] = f], removal \ {r} \subseteq removal',
             running'.at \in {"none", r}
      PROVE  Own(r)
  BY <1>1, <1>3 DEF Own
<1>4. CASE CompleteFailed(r) \/ CompleteWrites(r) \/ CompleteFinishes(r)
  <2>1. CASE CompleteFailed(r)
    BY <1>1, <2>1, EndsAreOwn DEF CompleteFailed
  <2>2. CASE CompleteWrites(r)
    <3>1. running' = running /\ removal' = removal /\ \E f : req' = [req EXCEPT ![r] = f]
      BY <2>2 DEF CompleteWrites, restUnchanged
    <3> QED
      BY <1>1, <3>1 DEF Own
  <2>3. CASE CompleteFinishes(r)
    <3>1. running'.at = "none" /\ removal' = removal \cup {r} /\ \E f : req' = [req EXCEPT ![r] = f]
      BY <2>3 DEF CompleteFinishes, Returns, Idle
    <3> QED
      BY <1>1, <3>1 DEF Own
  <2> QED
    BY <1>4, <2>1, <2>2, <2>3
<1>5. CASE ServeSubstitution(r) \/ SkipCache(r) \/ OpenWaits(r)
  BY <1>1, <1>5, EndsAreOwn DEF ServeSubstitution, SkipCache, OpenWaits
<1>6. CASE OpenReads(r)
  <2>1. running'.at \in {"none", r} /\ removal' = removal /\ \E f : req' = [req EXCEPT ![r] = f]
    BY <1>6 DEF OpenReads, Then, Returns, Idle, restUnchanged
  <2> QED
    BY <1>1, <2>1 DEF Own
<1>7. CASE OpenFindsNothing(r)
  <2>1. CASE Then(r, "create") /\ UNCHANGED req /\ restUnchanged
    BY <1>2, <2>1 DEF Then, restUnchanged
  <2> QED
    BY <1>1, <1>7, <2>1, EndsAreOwn DEF OpenFindsNothing, FailedCacheOnly
<1>8. CASE CreateEntry(r)
  <2>1. CASE Goes(r, "WaitForCache")
    BY <1>1, <2>1, EndsAreOwn
  <2>2. CASE /\ req' = [req EXCEPT ![r].ref = "writer", ![r].state = "DNSLookup"]
             /\ Returns /\ restUnchanged
    <3>1. running'.at = "none" /\ removal' = removal /\ \E f : req' = [req EXCEPT ![r] = f]
      BY <2>2 DEF Returns, Idle, restUnchanged
    <3> QED
      BY <1>1, <3>1 DEF Own
  <2> QED
    BY <1>8, <2>1, <2>2 DEF CreateEntry
<1>9. CASE ReadCacheSends(r) \/ ReadCacheHandsOver(r) \/ PipeTakesMore(r)
  <2>1. CASE req' = [req EXCEPT ![r] = SentHeaders(r)] /\ Returns /\ restUnchanged
    BY <1>3, <2>1 DEF Returns, Idle, restUnchanged
  <2> QED
    BY <1>1, <1>9, <2>1, EndsAreOwn DEF ReadCacheSends, ReadCacheHandsOver, PipeTakesMore, SendResult
<1>10. CASE Recreate(r) \/ TransferHeaders(r) \/ WriteQueued(r)
  <2>1. running'.at = r /\ removal' = removal
    BY <1>10 DEF Recreate, TransferHeaders, WriteQueued, Then, restUnchanged
  <2>2. UNCHANGED req \/ \E f : req' = [req EXCEPT ![r] = f]
    BY <1>10 DEF Recreate, TransferHeaders, WriteQueued
  <2> QED
    BY <1>1, <2>1, <2>2 DEF Own
<1>11. CASE PipeIsFull(r) \/ PipeIsClosed(r) \/ PipeIsWritable(r)
  BY <1>2, <1>11 DEF PipeIsFull, PipeIsClosed, PipeIsWritable, Returns, Then, Idle, restUnchanged
<1>12. CASE AllWritten(r)
  <2>1. CASE Returns /\ UNCHANGED req /\ restUnchanged
    BY <1>2, <2>1 DEF Returns, Idle, restUnchanged
  <2> QED
    BY <1>1, <1>12, <2>1, EndsAreOwn DEF AllWritten
<1>13. CASE TransferAborted(r) \/ TransferEnds(r)
  <2>1. PICK result : TransferEnded(r, result)
    BY <1>13 DEF TransferAborted, TransferEnds
  <2>2. \/ \E q : ToComplete(r, q)
        \/ \E q : req' = [req EXCEPT ![r] = q] /\ Returns /\ restUnchanged
    BY <2>1 DEF TransferEnded
  <2> QED
    BY <1>1, <1>3, <2>2, EndsAreOwn DEF Returns, Idle, restUnchanged
<1>14. CASE Remove(r) \/ stop_request(r)
  <2>1. running' = running /\ removal \ {r} \subseteq removal'
    BY <1>14 DEF Remove, stop_request
  <2>2. UNCHANGED req \/ \E f : req' = [req EXCEPT ![r] = f]
    BY <1>14 DEF Remove, stop_request, Destroyed
  <2> QED
    BY <1>1, <2>1, <2>2 DEF Own
<1>15. CASE ResumeNext(r)
  <2>1. running'.at \in {"none", r} /\ removal' = removal
    BY <1>1, <1>15 DEF ResumeNext, Then
  <2>2. UNCHANGED req \/ \E f : req' = [req EXCEPT ![r] = f]
    BY <1>15 DEF ResumeNext
  <2> QED
    BY <1>1, <2>1, <2>2 DEF Own
<1>16. CASE DnsAnswers(r) \/ ConnectEnds(r)
  BY <1>1, <1>16, EndsAreOwn DEF DnsAnswers, ConnectEnds
<1>17. CASE CookieAnswers(r)
  <2>1. CASE /\ req' = [req EXCEPT ![r].state = "Fetch", ![r].net = "transfer"]
             /\ Returns /\ restUnchanged
    <3>1. running'.at = "none" /\ removal' = removal /\ \E f : req' = [req EXCEPT ![r] = f]
      BY <2>1 DEF Returns, Idle, restUnchanged
    <3> QED
      BY <1>1, <3>1 DEF Own
  <2> QED
    BY <1>1, <1>17, <2>1, EndsAreOwn DEF CookieAnswers
<1>18. CASE NotModified(r)
  <2>1. CASE /\ req' = [req EXCEPT ![r].state = "ReadCache", ![r].net = "idle"]
             /\ Then(r, "read") /\ restUnchanged
    <3>1. running'.at = r /\ removal' = removal /\ \E f : req' = [req EXCEPT ![r] = f]
      BY <2>1 DEF Then, restUnchanged
    <3> QED
      BY <1>1, <3>1 DEF Own
  <2> QED
    BY <1>1, <1>18, <2>1, EndsAreOwn DEF NotModified
<1>19. CASE RevalidationEnds(r)
  <2>1. (\E q : ToComplete(r, q)) \/ (\E q : HandleError(r, q) /\ Returns)
    BY <1>19, Zenon DEF RevalidationEnds
  <2> QED
    BY <1>1, <2>1, EndsAreOwn
<1>20. CASE on_data_received(r)
  <2>1. \/ \E q : HandleError(r, q) /\ Then(r, "aborted")
        \/ \E q, a : req' = [req EXCEPT ![r] = q] /\ Then(r, a) /\ restUnchanged
    BY <1>20 DEF on_data_received
  <2> QED
    BY <1>1, <1>3, <2>1, EndsAreOwn DEF Then, restUnchanged
<1>21. CASE start_request(r) \/ ensure_connection(r) \/ ClientClosesPipe(r)
  <2>1. running'.at \in {"none", r} /\ removal' = removal
    BY <1>1, <1>21 DEF start_request, ensure_connection, ClientClosesPipe, Then, restUnchanged
  <2>2. \E f : req' = [req EXCEPT ![r] = f]
    BY <1>21 DEF start_request, ensure_connection, ClientClosesPipe
  <2> QED
    BY <1>1, <2>1, <2>2 DEF Own
<1>22. CASE OrphanSends(r)
  BY <1>1, <1>2, <1>22 DEF OrphanSends
<1> QED
  BY <1>4, <1>5, <1>6, <1>7, <1>8, <1>9, <1>10, <1>11, <1>12, <1>13, <1>14, <1>15, <1>16, <1>17,
     <1>18, <1>19, <1>20, <1>21, <1>22 DEF Turn, Handler, Deferred, Answers

\* What is known of a request that has a handler running.
LEMMA AtGoing ==
    ASSUME Inv, AllGoing, NEW r \in Requests, NEW a, At(r, a)
    PROVE  /\ Known(r, a) /\ Going(r) /\ Orderly(req[r], a) /\ r # "none"
           /\ req \in [Requests -> ReqRecord] /\ req[r] \in ReqRecord
           /\ a = "aborted" /\ req[r].state = "Error" => r \in removal
<1>1. Known(r, a) /\ running.at = r
  BY AtKnown
<1>2. r \notin gone /\ req[r] \in ReqRecord
  BY <1>1 DEF Known
<1>3. Going(r)
  BY <1>2 DEF AllGoing
<1>4. StepOf(r) = a
  BY <1>1 DEF StepOf, At
<1> QED
  BY <1>1, <1>2, <1>3, <1>4, RequestAssumption DEF Going, Inv, RequestTypes

\* What is known of a request to which an event happens.
LEMMA IdleGoing ==
    ASSUME Inv, AllGoing, NEW r \in Requests, running = Idle, r \notin gone
    PROVE  /\ Known(r, "idle") /\ Going(r) /\ Orderly(req[r], "idle") /\ r # "none"
           /\ req \in [Requests -> ReqRecord] /\ req[r] \in ReqRecord
           /\ running.at # r /\ StepOf(r) = "idle"
<1>1. Known(r, "idle") /\ running.at # r
  BY IdleKnown
<1>2. Going(r) /\ req[r] \in ReqRecord
  BY <1>1 DEF AllGoing, Known
<1>3. StepOf(r) = "idle"
  BY <1>1 DEF StepOf
<1> QED
  BY <1>1, <1>2, <1>3, RequestAssumption DEF Going, Inv, RequestTypes

\* handle_complete_state.
LEMMA CompletionGoes ==
    ASSUME Inv, AllGoing, NEW r \in Requests,
           CompleteFailed(r) \/ CompleteWrites(r) \/ CompleteFinishes(r)
    PROVE  Going(r)'
<1>1. At(r, "complete")
  BY DEF CompleteFailed, CompleteWrites, CompleteFinishes
<1>2. /\ Known(r, "complete") /\ Going(r) /\ Orderly(req[r], "complete") /\ r # "none"
      /\ req \in [Requests -> ReqRecord] /\ req[r] \in ReqRecord
  BY <1>1, AtGoing
<1>3. req[r].state = "Complete"
  BY <1>2 DEF Known, Fits, StepFits
<1>4. CASE CompleteFailed(r)
  BY <1>2, <1>4, FailGoes DEF CompleteFailed
<1>5. CASE CompleteWrites(r)
  <2>1. Then(r, "complete")
    BY <1>1, <1>5 DEF CompleteWrites, At, Then
  <2>2. /\ req'[r].pipeClosed = req[r].pipeClosed /\ req'[r].type = req[r].type
        /\ req'[r].state = "Complete"
    BY <1>2, <1>3, <1>5 DEF CompleteWrites, ReqRecord
  <2> QED
    BY <1>2, <2>1, <2>2, RunningGoes DEF Orderly
<1>6. CASE CompleteFinishes(r)
  <2>1. r \in removal' /\ running'.at = "none"
    BY <1>6 DEF CompleteFinishes, Returns, Idle
  <2>2. StepOf(r)' = "idle"
    BY <1>2, <2>1 DEF StepOf
  <2>3. /\ req'[r].pipeClosed = req[r].pipeClosed /\ req'[r].type = req[r].type
        /\ req'[r].state = "Complete"
    BY <1>2, <1>3, <1>6 DEF CompleteFinishes, ReqRecord
  <2> QED
    BY <1>2, <2>1, <2>2, <2>3 DEF Going, Orderly, Carried, Ended
<1> QED
  BY <1>4, <1>5, <1>6

\* A handler that leaves its request in WaitForCache has put it in a queue.
LEMMA WaitingGoes ==
    ASSUME Inv, P!CacheInv', NEW r \in Requests, NEW k \in Keys,
           P!WaitFor(r, k), req \in [Requests -> ReqRecord], r # "none",
           req[r].pipeClosed => req[r].type = "Fetch", Goes(r, "WaitForCache")
    PROVE  Going(r)'
<1>1. P!Waiting(r)'
  BY RequestAssumption, P!WaitForForgetsNobody DEF Inv, P!CacheInv
<1>2. StepOf(r)' = "idle"
  BY DEF Goes, Returns, Idle, StepOf
<1>3. /\ req'[r].pipeClosed = req[r].pipeClosed /\ req'[r].type = req[r].type
      /\ req'[r].state = "WaitForCache"
  BY DEF Goes, ReqRecord
<1> QED
  BY <1>1, <1>2, <1>3 DEF Going, Orderly

\* handle_initial_state.
LEMMA OpeningGoes ==
    ASSUME Inv, P!CacheInv', AllGoing, NEW r \in Requests,
           \/ ServeSubstitution(r) \/ SkipCache(r)
           \/ OpenWaits(r) \/ OpenReads(r) \/ OpenFindsNothing(r) \/ CreateEntry(r)
    PROVE  Going(r)'
<1>1. PICK a \in {"open", "create"} : At(r, a)
  BY DEF ServeSubstitution, SkipCache, OpenWaits, OpenReads, OpenFindsNothing, CreateEntry, UsesCache
<1>2. /\ Known(r, a) /\ Going(r) /\ Orderly(req[r], a) /\ r # "none"
      /\ req \in [Requests -> ReqRecord] /\ req[r] \in ReqRecord
  BY <1>1, AtGoing
<1>3. req[r].state = "Init" /\ (req[r].pipeClosed => req[r].type = "Fetch")
  BY <1>1, <1>2 DEF Known, Fits, StepFits, Orderly
<1>4. ASSUME NEW state \in {"DNSLookup", "RetrieveCookie", "Connect"}, Goes(r, state) PROVE Going(r)'
  <2>1. running'.at # r
    BY <1>2, <1>4 DEF Goes, Returns, Idle
  <2>2. /\ req'[r].pipeClosed = req[r].pipeClosed /\ req'[r].type = req[r].type
        /\ req'[r].state = state
    BY <1>2, <1>4 DEF Goes, ReqRecord
  <2> QED
    BY <1>3, <2>1, <2>2, AskingGoes
<1>5. CASE ServeSubstitution(r)
  <2> DEFINE q == [req[r] EXCEPT !.result = "ok", !.sentHeaders = TRUE]
  <2>1. q \in ReqRecord /\ q.type = req[r].type /\ q.pipeClosed = req[r].pipeClosed
    BY <1>2 DEF ReqRecord, Results
  <2>2. ToComplete(r, q) \/ Fail(r)
    BY <1>5 DEF ServeSubstitution
  <2> HIDE DEF q
  <2> QED
    BY <1>2, <2>1, <2>2, CompleteGoes, FailGoes
<1>6. CASE SkipCache(r)
  BY <1>4, <1>6 DEF SkipCache
<1>7. CASE OpenWaits(r)
  <2>1. UsesCache(r) /\ Goes(r, "WaitForCache")
        /\ C!open_entry_waits(r, req[r].key, CacheMode(r), OpenMode(r))
    BY <1>7 DEF OpenWaits
  <2>2. req[r].key \in Keys /\ P!WaitFor(r, req[r].key)
    BY <2>1, OpenArguments, SameCache DEF P!open_entry_waits
  <2> QED
    BY <1>2, <1>3, <2>1, <2>2, WaitingGoes
<1>8. CASE OpenReads(r)
  <2>1. PICK type :
            CASE type = "StaleWhileRevalidate" ->
                    req' = [req EXCEPT ![r].ref = "reader"] /\ Then(r, "spawn")
              [] type = "None" ->
                    /\ req' = [req EXCEPT ![r].ref = "reader", ![r].state = "ReadCache"]
                    /\ Then(r, "read")
              [] OTHER ->
                    /\ req' = [req EXCEPT ![r].ref = "reader", ![r].state = "DNSLookup"]
                    /\ Returns
    BY <1>8 DEF OpenReads
  <2>2. /\ req'[r].pipeClosed = req[r].pipeClosed /\ req'[r].type = req[r].type
        /\ \/ req'[r].state # "Fetch" /\ (Then(r, "spawn") \/ Then(r, "read"))
           \/ req'[r].state = "DNSLookup" /\ Returns
    BY <1>2, <1>3, <2>1 DEF ReqRecord
  <2>3. Returns => running'.at # r
    BY <1>2 DEF Returns, Idle
  <2> QED
    BY <1>3, <2>2, <2>3, RunningGoes, AskingGoes
<1>9. CASE OpenFindsNothing(r)
  <2>1. CASE ToComplete(r, req[r])
    BY <1>2, <2>1, CompleteGoes
  <2>2. CASE FailedCacheOnly(r)
    <3> DEFINE q == [req[r] EXCEPT !.result = "ok", !.sentHeaders = TRUE]
    <3>1. q \in ReqRecord /\ q.type = req[r].type /\ q.pipeClosed = req[r].pipeClosed
      BY <1>2 DEF ReqRecord, Results
    <3>2. ToComplete(r, q) \/ Fail(r)
      BY <2>2 DEF FailedCacheOnly
    <3> HIDE DEF q
    <3> QED
      BY <1>2, <3>1, <3>2, CompleteGoes, FailGoes
  <2>3. CASE Then(r, "create") /\ UNCHANGED req
    BY <1>3, <2>3, RunningGoes
  <2> QED
    BY <1>9, <2>1, <2>2, <2>3 DEF OpenFindsNothing
<1>10. CASE CreateEntry(r)
  <2>1. At(r, "create")
    BY <1>10 DEF CreateEntry
  <2>2. CASE C!create_entry_waits(r, req[r].key) /\ Goes(r, "WaitForCache")
    <3>1. Known(r, "create")
      BY <2>1, AtGoing
    <3>2. req[r].key \in Keys
      BY <3>1 DEF Known, Fits, StepFits
    <3>3. P!WaitFor(r, req[r].key)
      BY <2>2, SameCache DEF P!create_entry_waits
    <3> QED
      BY <1>2, <1>3, <2>2, <3>2, <3>3, WaitingGoes
  <2>3. CASE req' = [req EXCEPT ![r].ref = "writer", ![r].state = "DNSLookup"] /\ Returns
    <3>1. /\ req'[r].pipeClosed = req[r].pipeClosed /\ req'[r].type = req[r].type
          /\ req'[r].state = "DNSLookup"
      BY <1>2, <2>3 DEF ReqRecord
    <3>2. running'.at # r
      BY <1>2, <2>3 DEF Returns, Idle
    <3> QED
      BY <1>3, <3>1, <3>2, AskingGoes
  <2> QED
    BY <1>10, <2>2, <2>3 DEF CreateEntry
<1> QED
  BY <1>5, <1>6, <1>7, <1>8, <1>9, <1>10

\* The reader sends all of the body, fails, or waits for the pipe.
LEMMA SendGoes ==
    ASSUME Inv, NEW r \in Requests, Going(r), r # "none", req \in [Requests -> ReqRecord],
           req[r].state = "ReadCache", SendResult(r)
    PROVE  Going(r)'
<1> DEFINE h == SentHeaders(r)
           q == [h EXCEPT !.result = "ok"]
<1>0. req[r].pipeClosed => req[r].type = "Fetch"
  BY DEF Going, Orderly
<1>1. /\ h \in ReqRecord /\ h.type = req[r].type /\ h.pipeClosed = req[r].pipeClosed
      /\ h.state = "ReadCache"
  BY DEF SentHeaders, ReqRecord
<1>2. q \in ReqRecord /\ q.type = h.type /\ q.pipeClosed = h.pipeClosed
  BY <1>1 DEF ReqRecord, Results
<1>3. \/ ToComplete(r, q) \/ (HandleError(r, h) /\ Returns)
      \/ C!send_blocks(r) /\ req' = [req EXCEPT ![r] = h] /\ Returns
  BY DEF SendResult
<1> HIDE DEF h, q
<1>4. CASE C!send_blocks(r) /\ req' = [req EXCEPT ![r] = h] /\ Returns
  <2>1. P!send_blocks(r)
    BY <1>4, SameCache
  <2>2. P!Sending(r)'
    BY <2>1, RequestAssumption, P!BlockedIsSending DEF Inv, P!CacheInv
  <2>3. StepOf(r)' = "idle" /\ req'[r] = h
    BY <1>4 DEF Returns, Idle, StepOf
  <2> QED
    BY <1>0, <1>1, <2>2, <2>3 DEF Going, Orderly, Carried
<1> QED
  BY <1>1, <1>2, <1>3, <1>4, CompleteGoes, ErrorGoes

\* handle_read_cache_state, and what the pipe's notifier calls.
LEMMA ReadingGoes ==
    ASSUME Inv, AllGoing, NEW r \in Requests,
           ReadCacheSends(r) \/ ReadCacheHandsOver(r) \/ PipeTakesMore(r)
    PROVE  Going(r)'
<1>1. /\ Going(r) /\ r # "none" /\ req \in [Requests -> ReqRecord] /\ req[r] \in ReqRecord
      /\ req[r].state = "ReadCache"
  <2>1. CASE At(r, "read")
    <3>1. Known(r, "read")
      BY <2>1, AtGoing
    <3> QED
      BY <2>1, <3>1, AtGoing DEF Known, Fits, StepFits
  <2>2. CASE PipeTakesMore(r)
    <3>1. running = Idle /\ r \notin gone /\ req[r].state = "ReadCache"
      BY <2>2 DEF PipeTakesMore, Event, In, Alive
    <3> QED
      BY <3>1, IdleGoing
  <2> QED
    BY <2>1, <2>2 DEF ReadCacheSends, ReadCacheHandsOver
<1> DEFINE h == SentHeaders(r)
           q == [h EXCEPT !.result = "ok", !.ref = "none"]
<1>2. h \in ReqRecord /\ h.type = req[r].type /\ h.pipeClosed = req[r].pipeClosed
  BY <1>1 DEF SentHeaders, ReqRecord
<1>3. q \in ReqRecord /\ q.type = h.type /\ q.pipeClosed = h.pipeClosed
  BY <1>2 DEF ReqRecord, Results
<1>4. SendResult(r) \/ ToComplete(r, q) \/ (HandleError(r, h) /\ Returns)
  BY DEF ReadCacheSends, ReadCacheHandsOver, PipeTakesMore
<1> HIDE DEF h, q
<1> QED
  BY <1>1, <1>2, <1>3, <1>4, SendGoes, CompleteGoes, ErrorGoes

\* What was received is passed on: with a pipe that is full a notifier is left behind, and
\* with nothing left the transfer goes on or is over.
LEMMA BodyGoes ==
    ASSUME Inv, AllGoing, NEW r \in Requests,
           \/ Recreate(r) \/ TransferHeaders(r) \/ WriteQueued(r) \/ PipeIsFull(r)
           \/ PipeIsClosed(r) \/ AllWritten(r)
    PROVE  Going(r)'
<1>1. PICK a \in {"recreate", "headers", "data", "writable"} : At(r, a)
  BY DEF Recreate, TransferHeaders, WriteQueued, PipeIsFull, PipeIsClosed, AllWritten
<1>2. /\ Known(r, a) /\ Going(r) /\ Orderly(req[r], a) /\ r # "none"
      /\ req \in [Requests -> ReqRecord] /\ req[r] \in ReqRecord
  BY <1>1, AtGoing
<1>3. /\ req[r].state = "Fetch" /\ (req[r].pipeClosed => req[r].type = "Fetch")
      /\ req[r].net = "transfer" \/ req[r].result # "none"
  BY <1>1, <1>2 DEF Known, Fits, StepFits, Orderly
<1>4. CASE Recreate(r) \/ TransferHeaders(r) \/ WriteQueued(r)
  <2>1. Then(r, "headers") \/ Then(r, "data")
    BY <1>4 DEF Recreate, TransferHeaders, WriteQueued
  <2>2. /\ req'[r].pipeClosed = req[r].pipeClosed /\ req'[r].type = req[r].type
        /\ req'[r].net = req[r].net /\ req'[r].result = req[r].result
    <3>1. CASE Recreate(r)
      BY <1>2, <3>1 DEF Recreate, ReqRecord
    <3>2. CASE TransferHeaders(r)
      <4> DEFINE h == [req[r] EXCEPT !.sentHeaders = TRUE]
                 g == [h EXCEPT !.ref = "none"]
      <4>1. req' = [req EXCEPT ![r] = h] \/ req' = [req EXCEPT ![r] = g]
        BY <3>2 DEF TransferHeaders, SentHeaders
      <4>2. /\ h.pipeClosed = req[r].pipeClosed /\ h.type = req[r].type
            /\ h.net = req[r].net /\ h.result = req[r].result
            /\ g.pipeClosed = req[r].pipeClosed /\ g.type = req[r].type
            /\ g.net = req[r].net /\ g.result = req[r].result
        BY <1>2 DEF ReqRecord
      <4> HIDE DEF h, g
      <4> QED
        BY <1>2, <4>1, <4>2
    <3>3. CASE WriteQueued(r)
      <4>1. \/ req' = [req EXCEPT ![r].queued = @ - 1]
            \/ req' = [req EXCEPT ![r].queued = @ - 1, ![r].ref = "none"]
        BY <3>3 DEF WriteQueued
      <4> QED
        BY <1>2, <4>1 DEF ReqRecord
    <3> QED
      BY <1>4, <3>1, <3>2, <3>3
  <2> QED
    BY <1>3, <2>1, <2>2, RunningGoes
<1>5. ASSUME UNCHANGED req, Returns,
             req[r].queued > 0 => req[r].type = "Fetch",
             req[r].queued > 0 \/ req[r].net = "transfer"
      PROVE  Going(r)'
  <2>1. StepOf(r)' = "idle"
    BY <1>2, <1>5 DEF Returns, Idle, StepOf
  <2> QED
    BY <1>3, <1>5, <2>1 DEF Going, Orderly, Carried
<1>6. CASE PipeIsFull(r)
  BY <1>5, <1>6 DEF PipeIsFull
<1>7. CASE PipeIsClosed(r)
  <2>1. req[r].queued > 0 /\ req[r].type = "Fetch" /\ UNCHANGED req
    BY <1>3, <1>7 DEF PipeIsClosed
  <2>2. CASE Returns
    BY <1>5, <2>1, <2>2
  <2>3. CASE Then(r, "aborted")
    <3>1. StepOf(r)' = "aborted" /\ running'.at = r
      BY <2>3 DEF Then, StepOf
    <3> QED
      BY <1>3, <2>1, <3>1 DEF Going, Orderly, Carried
  <2> QED
    BY <1>7, <2>2, <2>3 DEF PipeIsClosed
<1>8. CASE AllWritten(r)
  <2>1. req[r].queued = 0
    BY <1>8 DEF AllWritten
  <2>2. CASE req[r].result # "none"
    BY <1>2, <1>8, <2>2, CompleteGoes DEF AllWritten
  <2>3. CASE req[r].result = "none"
    BY <1>3, <1>5, <1>8, <2>1, <2>3 DEF AllWritten
  <2> QED
    BY <2>2, <2>3
<1> QED
  BY <1>4, <1>6, <1>7, <1>8

\* A transfer that is over leaves its result, and what the client's pipe has yet to take.
LEMMA EndedGoes ==
    ASSUME Inv, NEW r \in Requests, Going(r), r # "none", req \in [Requests -> ReqRecord],
           NEW result \in Results, TransferEnded(r, result),
           \/ req[r].state = "Fetch" /\ (req[r].queued > 0 => req[r].type = "Fetch")
           \/ req[r].state = "Error" /\ r \in removal
    PROVE  Going(r)'
<1> DEFINE q == [req[r] EXCEPT !.net = "idle", !.result = result]
<1>0. req[r].pipeClosed => req[r].type = "Fetch"
  BY DEF Going, Orderly
<1>1. /\ q \in ReqRecord /\ q.type = req[r].type /\ q.pipeClosed = req[r].pipeClosed
      /\ q.state = req[r].state /\ q.queued = req[r].queued /\ q.result # "none"
  <2>1. req[r] \in ReqRecord /\ result # "none" /\ result \in Results \cup {"none"}
    BY DEF Results
  <2>2. q \in ReqRecord
    BY <2>1 DEF ReqRecord
  <2>3. /\ q.type = req[r].type /\ q.pipeClosed = req[r].pipeClosed /\ q.state = req[r].state
        /\ q.queued = req[r].queued /\ q.result = result
    BY <2>1 DEF ReqRecord
  <2> QED
    BY <2>1, <2>2, <2>3
<1>2. \/ ToComplete(r, q)
      \/ req[r].queued # 0 /\ req' = [req EXCEPT ![r] = q] /\ Returns /\ restUnchanged
  BY DEF TransferEnded
<1> HIDE DEF q
<1>3. CASE req[r].queued # 0 /\ req' = [req EXCEPT ![r] = q] /\ Returns /\ restUnchanged
  <2>1. StepOf(r)' = "idle" /\ req'[r] = q /\ removal' = removal
    BY <1>3 DEF Returns, Idle, StepOf, restUnchanged
  <2>2. req[r].queued > 0
    <3>1. req[r].queued \in 0..MaxParts
      BY DEF ReqRecord
    <3> QED
      BY <1>3, <3>1, RequestAssumption
  <2> QED
    BY <1>0, <1>1, <2>1, <2>2 DEF Going, Orderly, Carried, Ended
<1> QED
  BY <1>1, <1>2, <1>3, CompleteGoes

\* curl reports the end of a transfer, which its callback may have caused.
LEMMA TransferGoes ==
    ASSUME Inv, AllGoing, NEW r \in Requests, TransferAborted(r) \/ TransferEnds(r)
    PROVE  Going(r)'
<1>1. CASE TransferAborted(r)
  <2>1. At(r, "aborted") /\ TransferEnded(r, "error") /\ "error" \in Results
    BY <1>1 DEF TransferAborted, Results
  <2>2. /\ Known(r, "aborted") /\ Going(r) /\ Orderly(req[r], "aborted") /\ r # "none"
        /\ req \in [Requests -> ReqRecord]
        /\ req[r].state = "Error" => r \in removal
    BY <2>1, AtGoing
  <2>3. req[r].state \in {"Fetch", "Error"} /\ req[r].type = "Fetch"
    BY <2>2 DEF Known, Fits, StepFits, Orderly
  <2> QED
    BY <2>1, <2>2, <2>3, EndedGoes
<1>2. CASE TransferEnds(r)
  <2>1. running = Idle /\ r \notin gone /\ req[r].state = "Fetch"
    BY <1>2 DEF TransferEnds, Transfers, Event, In, Alive
  <2>2. PICK result \in Results : TransferEnded(r, result)
    BY <1>2 DEF TransferEnds
  <2>3. /\ Going(r) /\ Orderly(req[r], "idle") /\ r # "none" /\ req \in [Requests -> ReqRecord]
    BY <2>1, IdleGoing
  <2> QED
    BY <2>1, <2>2, <2>3, EndedGoes DEF Orderly
<1> QED
  BY <1>1, <1>2

\* The answers of the resolver, of the cookie jar and of the server.
LEMMA AnswerGoes ==
    ASSUME Inv, AllGoing, NEW r \in Requests,
           \/ DnsAnswers(r) \/ CookieAnswers(r) \/ ConnectEnds(r)
           \/ NotModified(r) \/ RevalidationEnds(r) \/ on_data_received(r)
    PROVE  Going(r)'
<1>1. running = Idle /\ r \notin gone
  BY Zenon DEF DnsAnswers, CookieAnswers, ConnectEnds, NotModified, RevalidationEnds, on_data_received,
         Transfers, Event, In, Alive
<1>2. /\ Known(r, "idle") /\ Going(r) /\ Orderly(req[r], "idle") /\ r # "none"
      /\ req \in [Requests -> ReqRecord] /\ req[r] \in ReqRecord
  BY <1>1, IdleGoing
<1>3. req[r].pipeClosed => req[r].type = "Fetch"
  BY <1>2 DEF Orderly
<1>4. CASE DnsAnswers(r)
  <2>1. ASSUME NEW state \in {"RetrieveCookie", "Connect"}, Goes(r, state) PROVE Going(r)'
    <3>1. running'.at # r
      BY <1>2, <2>1 DEF Goes, Returns, Idle
    <3>2. /\ req'[r].pipeClosed = req[r].pipeClosed /\ req'[r].type = req[r].type
          /\ req'[r].state = state
      BY <1>2, <2>1 DEF Goes, ReqRecord
    <3> QED
      BY <1>3, <3>1, <3>2, AskingGoes
  <2>2. Goes(r, "RetrieveCookie") \/ Goes(r, "Connect") \/ ToComplete(r, req[r]) \/ Fail(r)
    BY <1>4 DEF DnsAnswers
  <2> QED
    BY <1>2, <2>1, <2>2, CompleteGoes, FailGoes
<1>5. CASE CookieAnswers(r)
  <2>1. CASE req' = [req EXCEPT ![r].state = "Fetch", ![r].net = "transfer"] /\ Returns
    <3>1. req[r].state = "RetrieveCookie"
      BY <1>5 DEF CookieAnswers, In
    <3>2. req[r].queued = 0
      BY <1>2, <3>1 DEF Known, Fits, Progress, Untouched
    <3>3. /\ req'[r].pipeClosed = req[r].pipeClosed /\ req'[r].type = req[r].type
          /\ req'[r].state = "Fetch" /\ req'[r].net = "transfer" /\ req'[r].queued = 0
      BY <1>2, <2>1, <3>2 DEF ReqRecord
    <3>4. StepOf(r)' = "idle"
      BY <1>2, <2>1 DEF Returns, Idle, StepOf
    <3> QED
      BY <1>3, <3>3, <3>4 DEF Going, Orderly, Carried
  <2> QED
    BY <1>2, <1>5, <2>1, FailGoes DEF CookieAnswers
<1>6. CASE ConnectEnds(r)
  <2> DEFINE q == [req[r] EXCEPT !.result = "ok"]
  <2>1. q \in ReqRecord /\ q.type = req[r].type /\ q.pipeClosed = req[r].pipeClosed
    BY <1>2 DEF ReqRecord, Results
  <2>2. ToComplete(r, q)
    BY <1>6 DEF ConnectEnds
  <2> HIDE DEF q
  <2> QED
    BY <1>2, <2>1, <2>2, CompleteGoes
<1>7. CASE NotModified(r)
  <2> DEFINE q == [req[r] EXCEPT !.net = "idle"]
  <2>1. q \in ReqRecord /\ q.type = req[r].type /\ q.pipeClosed = req[r].pipeClosed
    BY <1>2 DEF ReqRecord
  <2>2. \/ ToComplete(r, q)
        \/ req' = [req EXCEPT ![r].state = "ReadCache", ![r].net = "idle"] /\ Then(r, "read")
    BY <1>7 DEF NotModified
  <2> HIDE DEF q
  <2>3. CASE req' = [req EXCEPT ![r].state = "ReadCache", ![r].net = "idle"] /\ Then(r, "read")
    <3>1. /\ req'[r].pipeClosed = req[r].pipeClosed /\ req'[r].type = req[r].type
          /\ req'[r].state = "ReadCache"
      BY <1>2, <2>3 DEF ReqRecord
    <3> QED
      BY <1>3, <2>3, <3>1, RunningGoes
  <2> QED
    BY <1>2, <2>1, <2>2, <2>3, CompleteGoes
<1>8. CASE RevalidationEnds(r)
  <2> DEFINE q == [req[r] EXCEPT !.net = "idle", !.ref = "none"]
             o(result) == [q EXCEPT !.result = result, !.sentHeaders = TRUE]
  <2>1. q \in ReqRecord /\ q.type = req[r].type /\ q.pipeClosed = req[r].pipeClosed
    BY <1>2 DEF ReqRecord
  <2>2. \A result \in Results : /\ o(result) \in ReqRecord /\ o(result).type = req[r].type
                                /\ o(result).pipeClosed = req[r].pipeClosed
    BY <2>1 DEF ReqRecord
  <2>3. (\E result \in Results : ToComplete(r, o(result))) \/ (HandleError(r, q) /\ Returns)
    BY <1>8, Zenon DEF RevalidationEnds
  <2> HIDE DEF q, o
  <2> QED
    BY <1>2, <2>1, <2>2, <2>3, CompleteGoes, ErrorGoes
<1>9. CASE on_data_received(r)
  <2> DEFINE q == [req[r] EXCEPT !.got = @ + 1, !.queued = @ + 1]
             n == [q EXCEPT !.ref = "none"]
             e == [req[r] EXCEPT !.got = @ + 1, !.ref = "none"]
  <2>1. /\ q.type = req[r].type /\ q.pipeClosed = req[r].pipeClosed /\ q.net = req[r].net
        /\ n.type = req[r].type /\ n.pipeClosed = req[r].pipeClosed /\ n.net = req[r].net
        /\ e.type = req[r].type /\ e.pipeClosed = req[r].pipeClosed
    BY <1>2 DEF ReqRecord
  <2>2. req[r].net = "transfer" /\ req[r].got < MaxParts
    BY <1>9 DEF on_data_received, Transfers
  <2>3. e \in ReqRecord
    <3>1. req[r].got + 1 \in 0..MaxParts
      <4>1. req[r].got \in 0..MaxParts
        BY <1>2 DEF ReqRecord
      <4> QED
        BY <2>2, <4>1, RequestAssumption
    <3> QED
      BY <1>2, <3>1 DEF ReqRecord
  <2>4. \/ req' = [req EXCEPT ![r] = n] /\ Then(r, "recreate")
        \/ req' = [req EXCEPT ![r] = q] /\ Then(r, "headers")
        \/ HandleError(r, e) /\ Then(r, "aborted") /\ q.type = "Fetch"
    BY <1>9 DEF on_data_received
  <2> HIDE DEF q, n, e
  <2>5. CASE req' = [req EXCEPT ![r] = n] /\ Then(r, "recreate")
    <3>1. req'[r] = n
      BY <1>2, <2>5
    <3> QED
      BY <1>3, <2>1, <2>2, <2>5, <3>1, RunningGoes
  <2>6. CASE req' = [req EXCEPT ![r] = q] /\ Then(r, "headers")
    <3>1. req'[r] = q
      BY <1>2, <2>6
    <3> QED
      BY <1>3, <2>1, <2>2, <2>6, <3>1, RunningGoes
  <2>7. CASE HandleError(r, e) /\ Then(r, "aborted") /\ q.type = "Fetch"
    BY <1>2, <2>1, <2>3, <2>7, ErrorGoes
  <2> QED
    BY <2>4, <2>5, <2>6, <2>7
<1> QED
  BY <1>4, <1>5, <1>6, <1>7, <1>8, <1>9

\* The beginning of a request, its resumption, and what its client does.
LEMMA ClientGoes ==
    ASSUME Inv, AllGoing, NEW r \in Requests, r \notin gone,
           \/ start_request(r) \/ ensure_connection(r) \/ ResumeNext(r)
           \/ PipeIsWritable(r) \/ ClientClosesPipe(r)
    PROVE  Going(r)'
<1>1. running = Idle
  BY DEF start_request, ensure_connection, ResumeNext, PipeIsWritable, ClientClosesPipe, Event
<1>2. /\ Going(r) /\ Orderly(req[r], "idle") /\ r # "none"
      /\ req \in [Requests -> ReqRecord] /\ req[r] \in ReqRecord
      /\ running.at # r /\ StepOf(r) = "idle"
  BY <1>1, IdleGoing
<1>3. CASE start_request(r)
  <2>1. PICK k, m : req' = [req EXCEPT ![r] = Started(r, "Fetch", k, m, "Init")]
    BY <1>3 DEF start_request
  <2>2. req'[r].pipeClosed = FALSE /\ req'[r].state = "Init"
    BY <1>2, <2>1 DEF Started, NotStarted
  <2>3. Then(r, "open")
    BY <1>3 DEF start_request
  <2> QED
    BY <2>2, <2>3, RunningGoes
<1>4. CASE ensure_connection(r)
  <2>1. req'[r].pipeClosed = FALSE /\ req'[r].state = "DNSLookup" /\ running'.at # r
    BY <1>2, <1>4 DEF ensure_connection, Started, NotStarted
  <2> QED
    BY <2>1, AskingGoes
<1>5. CASE ResumeNext(r)
  <2>1. req' = [req EXCEPT ![r].state = "Init"] /\ Then(r, "open")
    BY <1>5 DEF ResumeNext
  <2>2. /\ req'[r].pipeClosed = req[r].pipeClosed /\ req'[r].type = req[r].type
        /\ req'[r].state = "Init"
    BY <1>2, <2>1 DEF ReqRecord
  <2> QED
    BY <1>2, <2>1, <2>2, RunningGoes DEF Orderly
<1>6. CASE PipeIsWritable(r)
  <2>1. UNCHANGED req /\ Then(r, "writable")
    BY <1>6 DEF PipeIsWritable
  <2> QED
    BY <1>2, <2>1, RunningGoes DEF Orderly
<1>7. CASE ClientClosesPipe(r)
  <2>1. /\ req[r].type = "Fetch" /\ req' = [req EXCEPT ![r].pipeClosed = TRUE]
        /\ UNCHANGED <<running, removal>> /\ cacheUnchanged
    BY <1>7 DEF ClientClosesPipe, restUnchanged
  <2>2. /\ req'[r].type = "Fetch" /\ req'[r].state = req[r].state /\ req'[r].net = req[r].net
        /\ req'[r].result = req[r].result /\ req'[r].queued = req[r].queued
    BY <1>2, <2>1 DEF ReqRecord
  <2>3. StepOf(r)' = "idle"
    BY <1>2, <2>1 DEF StepOf
  <2>4. (P!Waiting(r) => P!Waiting(r)') /\ (P!Sending(r) => P!Sending(r)')
    BY <2>1 DEF cacheUnchanged, cacheVars, P!Waiting, P!Elements, P!Sending
  <2>5. Carried(r) => Carried(r)'
    BY <2>1, <2>2, <2>4 DEF Carried
  <2> QED
    BY <1>2, <2>2, <2>3, <2>4, <2>5 DEF Going, Orderly
<1> QED
  BY <1>3, <1>4, <1>5, <1>6, <1>7

\* A request that goes is not there to be carried on.
LEMMA GoneIsGone ==
    ASSUME NEW r \in Requests, Inv, Remove(r) \/ stop_request(r) \/ OrphanSends(r)
                             \/ (ResumeNext(r) /\ r \in gone)
    PROVE  r \in gone'
<1>1. CASE Remove(r) \/ stop_request(r)
  BY <1>1 DEF Remove, stop_request, Destroyed, C!Destroy, cacheUnchanged, cacheVars
<1>2. CASE OrphanSends(r)
  <2>1. r \in gone
    BY <1>2 DEF OrphanSends
  <2> QED
    BY <1>2, <2>1 DEF OrphanSends, C!send_complete, C!send_error, C!RemoveAndClose, C!Close
<1>3. CASE ResumeNext(r) /\ r \in gone
  BY <1>3 DEF ResumeNext, C!notify_request_unblocked
<1> QED
  BY <1>1, <1>2, <1>3

\* A request that is gone stays so.
LEMMA GoneStays ==
    ASSUME Inv, NEW r \in Requests, Turn(r), ~start_revalidation_request(r)
    PROVE  gone \subseteq gone'
<1>1. CASE cacheUnchanged
  BY <1>1 DEF cacheUnchanged, cacheVars
<1>2. CASE P!Calls(r)
  <2>1. P!LockTypes /\ P!Next
    BY <1>2 DEF Inv, P!CacheInv, P!Calls, P!Next
  <2>2. P!LockStep
    BY <2>1, RequestAssumption, P!NextIsLockStep
  <2> QED
    BY <2>2 DEF P!LockStep, P!Waits, P!WaitFor, P!Creates, P!create_entry_opens, P!Opens,
           P!open_entry_opens, P!Closes, P!Edits, P!Ends, P!GoneGrows
<1> QED
  BY <1>1, <1>2, TurnCalls

\* start_revalidation_request: the new request waits for the entry of the one that starts it.
LEMMA SpawnGoes ==
    ASSUME Inv, Inv', AllGoing, NEW r \in Requests, start_revalidation_request(r)
    PROVE  AllGoing'
<1>1. PICK s \in Requests :
        /\ req[s] = NotStarted /\ s \notin gone
        /\ C!open_entry_waits(s, req[r].key, "Default", "Revalidate")
        /\ req' = [req EXCEPT
            ![s] = Started(s, "BackgroundRevalidation", req[r].key, "Default", "WaitForCache"),
            ![r].state = "ReadCache"]
  BY DEF start_revalidation_request
<1>2. s # r /\ P!Calls(s) /\ req[r].key \in Keys /\ P!WaitFor(s, req[r].key)
  BY <1>1, SpawnCalls
<1>3. At(r, "spawn") /\ Then(r, "read") /\ removal' = removal
  BY DEF start_revalidation_request, restUnchanged
<1>4. /\ Orderly(req[r], "spawn") /\ r # "none" /\ s # "none"
      /\ req \in [Requests -> ReqRecord] /\ req[r] \in ReqRecord
  BY <1>3, AtGoing, RequestAssumption
<1> DEFINE f == Started(s, "BackgroundRevalidation", req[r].key, "Default", "WaitForCache")
           g == [req[r] EXCEPT !.state = "ReadCache"]
<1>5. /\ f.pipeClosed = FALSE /\ f.state = "WaitForCache"
      /\ g.pipeClosed = req[r].pipeClosed /\ g.type = req[r].type /\ g.state = "ReadCache"
  BY <1>4 DEF Started, NotStarted, ReqRecord
<1>6. req' = [req EXCEPT ![s] = f, ![r] = g]
  BY <1>1, <1>2, <1>4
<1> HIDE DEF f, g
<1>7. req'[s] = f /\ req'[r] = g /\ \A p \in Requests \ {r, s} : req'[p] = req[p]
  BY <1>2, <1>4, <1>6
<1>8. P!LeavesOthers(s) /\ P!Waiting(s)' /\ gone' = gone
  BY <1>2, RequestAssumption, P!CallsLeaveOthers, P!WaitForForgetsNobody
     DEF Inv, P!CacheInv, P!WaitFor
<1>9. running.at = r /\ running'.at = r /\ StepOf(s)' = "idle"
  BY <1>2, <1>3 DEF At, Then, StepOf
<1> SUFFICES ASSUME NEW p \in Requests, p \notin gone' PROVE Going(p)'
  BY DEF AllGoing
<1>10. CASE p = r
  BY <1>3, <1>4, <1>5, <1>7, <1>10, RunningGoes DEF Orderly
<1>11. CASE p = s
  BY <1>5, <1>7, <1>8, <1>9, <1>11 DEF Going, Orderly
<1>12. CASE p \notin {r, s}
  <2>1. Going(p) /\ P!Undisturbed(p)
    BY <1>8, <1>12 DEF AllGoing, P!LeavesOthers
  <2> QED
    BY <1>3, <1>7, <1>9, <1>12, <2>1, OthersGo
<1> QED
  BY <1>10, <1>11, <1>12

\* Every step leaves every request that is not over with something that carries it on.
LEMMA NextGoes == ASSUME Inv, Inv', AllGoing, [Next]_vars PROVE AllGoing'
<1>1. ASSUME UNCHANGED <<req, running, removal>>, gone \subseteq gone',
             \A p \in Requests : P!Undisturbed(p)
      PROVE  AllGoing'
  <2> SUFFICES ASSUME NEW p \in Requests, p \notin gone' PROVE Going(p)'
    BY DEF AllGoing
  <2>1. Going(p) /\ P!Undisturbed(p)
    BY <1>1 DEF AllGoing
  <2>2. (P!Waiting(p) => P!Waiting(p)') /\ (P!Sending(p) => P!Sending(p)')
    BY <2>1 DEF P!Undisturbed
  <2>3. StepOf(p)' = StepOf(p) /\ req'[p] = req[p]
    BY <1>1 DEF StepOf
  <2>4. Carried(p) => Carried(p)'
    BY <1>1, <2>2 DEF Carried
  <2> QED
    BY <1>1, <2>1, <2>2, <2>3, <2>4 DEF Going
<1>2. CASE UNCHANGED vars
  <2>1. UNCHANGED <<req, running, removal>> /\ gone' = gone /\ UNCHANGED <<open, waiting, deferred>>
    BY <1>2 DEF vars, cacheVars
  <2> QED
    BY <1>1, <2>1, RequestAssumption, P!LockLeavesAll
<1>3. CASE ClearCache \/ StoreAssociatedData
  <2>1. UNCHANGED <<req, running, removal>>
    BY <1>3 DEF ClearCache, StoreAssociatedData
  <2>2. P!remove_entries_accessed_since \/ \E s \in P!Slots : P!store_associated_data(s)
    BY <1>3, SameCache DEF ClearCache, StoreAssociatedData
  <2>3. gone' = gone
    BY <2>2 DEF P!remove_entries_accessed_since, P!store_associated_data
  <2>4. \A p \in Requests : P!Undisturbed(p)
    BY <2>2, RequestAssumption, P!DeletionLeavesAll DEF Inv, P!CacheInv
  <2> QED
    BY <1>1, <2>1, <2>3, <2>4
<1>4. ASSUME NEW r \in Requests, Turn(r), ~start_revalidation_request(r) PROVE AllGoing'
  <2>1. Own(r)
    BY <1>4, TurnIsOwn
  <2>2. \A p \in Requests \ {r} : req'[p] = req[p]
    BY <2>1 DEF Own, Inv, RequestTypes
  <2>3. P!LeavesOthers(r)
    <3>1. CASE cacheUnchanged
      BY <3>1, RequestAssumption, P!LockLeavesAll DEF cacheUnchanged, cacheVars, P!LeavesOthers
    <3>2. CASE P!Calls(r)
      BY <3>2, RequestAssumption, P!CallsLeaveOthers DEF Inv, P!CacheInv
    <3> QED
      BY <1>4, <3>1, <3>2, TurnCalls
  <2>4. gone \subseteq gone'
    BY <1>4, GoneStays
  <2>5. r \notin gone' => Going(r)'
    <3> SUFFICES ASSUME r \notin gone' PROVE Going(r)'
      OBVIOUS
    <3>1. CASE Handler(r)
      BY <1>4, <3>1, CompletionGoes, OpeningGoes, ReadingGoes, BodyGoes, TransferGoes DEF Handler, Inv
    <3>2. CASE Answers(r) \/ on_data_received(r)
      BY <2>4, <3>2, AnswerGoes, TransferGoes, ClientGoes, ReadingGoes DEF Answers
    <3>3. CASE Deferred(r) \/ stop_request(r) \/ OrphanSends(r)
      BY <2>4, <3>3, GoneIsGone, ClientGoes DEF Deferred
    <3>4. CASE start_request(r) \/ ensure_connection(r) \/ ClientClosesPipe(r)
      BY <2>4, <3>4, ClientGoes
    <3> QED
      BY <1>4, <3>1, <3>2, <3>3, <3>4 DEF Turn
  <2> QED
    BY <2>1, <2>2, <2>3, <2>4, <2>5, TurnGoes DEF Own
<1> QED
  BY <1>2, <1>3, <1>4, SpawnGoes DEF Next, Turn

\* A queue that is not empty is that of a key that somebody else has open.
LEMMA WaitersAreHeldByOthers ==
    ASSUME Inv, NEW r \in Requests, P!Waiting(r)
    PROVE  Held(r)
<1>1. open[r] = P!NoEntry
  BY DEF Inv, P!WaitInv, P!WaitersHaveNone
<1>2. CASE \E i \in DOMAIN deferred : r \in P!Elements(deferred[i])
  BY <1>2 DEF Held, C!Elements, P!Elements
<1>3. ASSUME NEW k \in Keys, r \in P!Elements(waiting[k]) PROVE Held(r)
  <2>1. P!OpenOn(k) # {}
    <3>1. waiting[k] # <<>>
      BY <1>3 DEF P!Elements
    <3> QED
      BY <3>1 DEF Inv, P!CacheInv, P!WaitersAreHeld
  <2>2. r \notin P!OpenOn(k)
    BY <1>1 DEF P!OpenOn
  <2>3. P!OpenOn(k) = C!OpenOn(k) /\ P!Elements(waiting[k]) = C!Elements(waiting[k])
    BY DEF P!OpenOn, C!OpenOn, P!KeyOf, C!KeyOf, P!NoEntry, C!NoEntry, P!Elements, C!Elements
  <2>4. C!OpenOn(k) \ {r} # {} /\ r \in C!Elements(waiting[k])
    BY <1>3, <2>1, <2>2, <2>3
  <2> QED
    BY <2>4 DEF Held
<1> QED
  BY <1>2, <1>3 DEF P!Waiting

\* transition_to_state leaves no request behind, for any number of requests and keys and
\* whatever goes wrong: one that is not over is in a handler, has a callback registered with the
\* resolver, the cookie jar, curl or a pipe's notifier, is about to be removed, is in a batch that
\* will be resumed, or waits for a key that another request has open.  This is the safety half of
\* EveryRequestEnds: what is left to fairness is that those calls are made.
THEOREM NoRequestIsStuck == Spec => []NobodyIsStuck
<1>1. Init => AllGoing
  <2> SUFFICES ASSUME Init, NEW r \in Requests PROVE Going(r)
    BY DEF AllGoing
  <2>1. req[r] = NotStarted /\ running.at = "none" /\ r # "none"
    BY RequestAssumption DEF Init, Idle
  <2>2. StepOf(r) = "idle"
    BY <2>1 DEF StepOf
  <2> QED
    BY <2>1, <2>2 DEF Going, Orderly, NotStarted
<1>2. Inv /\ AllGoing /\ [Next]_vars => AllGoing'
  BY NextInv, NextGoes
<1>3. Inv /\ AllGoing => NobodyIsStuck
  BY WaitersAreHeldByOthers DEF AllGoing, Going, NobodyIsStuck, Alive
<1> QED
  BY <1>1, <1>2, <1>3, RequestInvariance, PTL DEF Spec
=============================================================================
