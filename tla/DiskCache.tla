----------------------------- MODULE DiskCache -----------------------------
(***************************************************************************)
(* The HTTP disk cache of RequestServer (src/Libraries/LibHTTP/Cache):     *)
(* DiskCache.cpp, which lends entries to requests and makes others wait,   *)
(* and CacheEntry.cpp, the entries.  All of it runs on one thread.         *)
(*                                                                         *)
(* A slot is a pair of cache key and vary key.  What is on disk for a slot *)
(* is a row of the index, a body file and a sidecar (associated data).     *)
(* Responses are named after the request that fetched them; Old is one     *)
(* that an earlier process stored.  Sizes are left to module CacheIndex:   *)
(* here an eviction may take any rows.  The temporary file of a writer     *)
(* is its private copy of the body: only one writer of a key exists, and   *)
(* the next one removes what a crash left.                                 *)
(***************************************************************************)
EXTENDS Naturals, Sequences, FiniteSets

CONSTANTS
    Requests,   \* requests, each of which fetches at most one response
    Keys,       \* cache keys: URL and method
    Varies,     \* vary keys
    Old,        \* the response stored before this process started
    MaxParts    \* bound on the number of writes to one body

ASSUME DiskCacheAssumption ==
    /\ Old \notin Requests
    /\ MaxParts \in Nat \ {0}

VARIABLES
    open,       \* m_open_cache_entries: the entry each request has open
    gone,       \* requests that were destroyed: weak pointers to them are null
    wrote,      \* requests that have had a writer
    waiting,    \* m_requests_waiting_completion
    deferred,   \* deferred_invoke'd batches of requests to resume
    row,        \* the index, per slot
    file,       \* body files, per slot
    sidecar,    \* associated data, per slot: the response it was stored with
    torn        \* slots whose file was replaced without their row (history)

diskVars == <<row, file, sidecar, torn>>
lockVars == <<open, gone, wrote, waiting, deferred>>
cacheVars == <<open, gone, wrote, waiting, deferred, row, file, sidecar, torn>>
-----------------------------------------------------------------------------
Slots == Keys \X Varies
Responses == Requests \cup {Old}
Absent == [of |-> "none", parts |-> 0]
Bodies == [of : Responses, parts : 0..MaxParts]
CacheModes == {"Default", "Reload", "NoCache", "ForceCache"}
OpenModes == {"Read", "Revalidate"}
LifetimeStatuses == {"Fresh", "Expired", "MustRevalidate", "StaleWhileRevalidate"}
RevalidationTypes == {"None", "MustRevalidate", "StaleWhileRevalidate", "Background"}

\* A reader keeps the row it was opened for and the file it opened.  The type
\* "Background" is that of a reader opened with OpenMode::Revalidate.
Readers == [kind : {"reader"}, slot : Slots, marked : BOOLEAN,
            type : RevalidationTypes, row : Bodies, body : Bodies,
            sending : BOOLEAN]
\* A writer has no vary key, and so no path, until it has the headers.
Writers == [kind : {"writer"}, key : Keys, marked : BOOLEAN,
            vary : Varies \cup {"none"}, parts : 0..MaxParts]
NoEntry == [kind |-> "none"]
Entries == Readers \cup Writers \cup {NoEntry}

TypeOK ==
    /\ open \in [Requests -> Entries]
    /\ gone \subseteq Requests
    /\ wrote \subseteq Requests
    /\ waiting \in [Keys -> Seq(Requests)]
    /\ deferred \in Seq(Seq(Requests) \ {<<>>})
    /\ row \in [Slots -> Bodies \cup {Absent}]
    /\ file \in [Slots -> Bodies \cup {Absent}]
    /\ sidecar \in [Slots -> Responses \cup {"none"}]
    /\ torn \subseteq Slots

IsReader(r) == open[r].kind = "reader"
IsWriter(r) == open[r].kind = "writer"
KeyOf(e) == IF e.kind = "reader" THEN e.slot[1] ELSE e.key
OpenOn(k) == {r \in Requests : open[r] # NoEntry /\ KeyOf(open[r]) = k}

Elements(s) == {s[i] : i \in DOMAIN s}
Waiting(r) ==
    \/ \E k \in Keys : r \in Elements(waiting[k])
    \/ \E i \in DOMAIN deferred : r \in Elements(deferred[i])

\* is_revalidation_request, asked of a request through a weak pointer.
is_revalidation_request(r) ==
    /\ r \notin gone
    /\ IsReader(r)
    /\ open[r].type \in {"MustRevalidate", "Background"}

\* Mutant: readers are not in anybody's way.
HasOpenWriter(k, checkReaders) ==
    \E q \in OpenOn(k) : IsWriter(q) \/ is_revalidation_request(q)

\* check_if_cache_has_open_entry: whether a request has to wait.
HasOpenEntry(k, checkReaders) ==
    \E q \in OpenOn(k) : IsWriter(q) \/ checkReaders \/ is_revalidation_request(q)

WaitFor(r, k) ==
    /\ waiting' = [waiting EXCEPT ![k] = Append(@, r)]
    /\ UNCHANGED <<open, gone, wrote, deferred, diskVars>>

\* Mutant: only a writer that is closed wakes those that wait.
CloseWakesAfterWriters(o, r) ==
    LET k == KeyOf(open[r])
        last == OpenOn(k) = {r} /\ IsWriter(r)
    IN  /\ open' = [o EXCEPT ![r] = NoEntry]
        /\ waiting' = IF last THEN [waiting EXCEPT ![k] = <<>>] ELSE waiting
        /\ deferred' = IF last /\ waiting[k] # <<>>
                       THEN Append(deferred, waiting[k]) ELSE deferred

\* Mutant: of those that wait only the first is woken.
CloseWakesFirst(o, r) ==
    LET k == KeyOf(open[r])
        last == OpenOn(k) = {r}
    IN  /\ open' = [o EXCEPT ![r] = NoEntry]
        /\ waiting' = IF last THEN [waiting EXCEPT ![k] = <<>>] ELSE waiting
        /\ deferred' = IF last /\ waiting[k] # <<>>
                       THEN Append(deferred, <<Head(waiting[k])>>) ELSE deferred

\* close_and_destroy_cache_entry and cache_entry_closed, when the open entries
\* are otherwise as in o: the last one to be closed wakes those that wait.
CloseIn(o, r) ==
    LET k == KeyOf(open[r])
        last == OpenOn(k) = {r}
    IN  /\ open' = [o EXCEPT ![r] = NoEntry]
        /\ waiting' = IF last THEN [waiting EXCEPT ![k] = <<>>] ELSE waiting
        /\ deferred' = IF last /\ waiting[k] # <<>>
                       THEN Append(deferred, waiting[k]) ELSE deferred
Close(r) == CloseIn(open, r) /\ UNCHANGED <<gone, wrote>>

\* delete_entry for each slot of S, as far as it concerns the open entries.
MarkForDeletion(S) ==
    [r \in Requests |->
        IF open[r] # NoEntry /\ \E s \in S : s[1] = KeyOf(open[r])
        THEN [open[r] EXCEPT !.marked = TRUE] ELSE open[r]]

Without(f, S, none) == [s \in Slots |-> IF s \in S THEN none ELSE f[s]]

\* The index rows, files and sidecars of the slots of S are removed.
RemoveSlots(S) ==
    /\ row' = Without(row, S, Absent)
    /\ file' = Without(file, S, Absent)
    /\ sidecar' = Without(sidecar, S, "none")
    /\ torn' = torn \ S

\* CacheEntry::remove of a reader, followed by the closing of its entry.
RemoveAndClose(r) == RemoveSlots({open[r].slot}) /\ Close(r)
-----------------------------------------------------------------------------
(* open_entry, one action per result.                                      *)

\* What the lifetime of a stored response and the modes of the request lead to.
Disposition(status, mode, openMode) ==
    CASE status = "Fresh" ->
            (CASE mode = "NoCache" -> "MustRevalidate"
               [] mode # "NoCache" /\ openMode = "Read" -> "None"
               [] OTHER -> "AlreadyFresh")
      [] status # "Fresh" /\ mode = "ForceCache" -> "None"
      [] status = "Expired" /\ mode # "ForceCache" -> "Remove"
      [] OTHER -> IF openMode = "Revalidate" THEN "Background" ELSE status

\* The entries open in the way are looked at before the index is.
PassesLock(k, mode, openMode) ==
    mode # "Reload" /\ ~HasOpenEntry(k, openMode = "Revalidate")

open_entry_waits(r, k, mode, openMode) ==
    /\ mode # "Reload"
    /\ \/ HasOpenEntry(k, openMode = "Revalidate")
       \/ /\ HasOpenEntry(k, TRUE)
          /\ \E s \in Slots, status \in LifetimeStatuses :
                /\ s[1] = k /\ row[s] # Absent /\ file[s] # Absent
                /\ Disposition(status, mode, openMode) = "MustRevalidate"
    /\ WaitFor(r, k)

\* Nothing that may be read: the mode does not look, no row matches the
\* request's headers, or the entry needs no revalidation any more.
open_entry_none(k, mode, openMode) ==
    /\ mode = "Reload" \/ PassesLock(k, mode, openMode)
    /\ UNCHANGED cacheVars

\* CacheEntryReader::create fails; a file with a bad header is removed.
open_entry_unreadable(k, mode, openMode) ==
    /\ PassesLock(k, mode, openMode)
    /\ \E s \in Slots :
        /\ s[1] = k /\ row[s] # Absent
        /\ row' = [row EXCEPT ![s] = Absent]
        /\ file' \in {file, [file EXCEPT ![s] = Absent]}
        /\ torn' = torn \ {s}
        /\ UNCHANGED <<lockVars, sidecar>>

open_entry_expired(k, mode, openMode) ==
    /\ PassesLock(k, mode, openMode)
    /\ Disposition("Expired", mode, openMode) = "Remove"
    /\ \E s \in Slots :
        /\ s[1] = k /\ row[s] # Absent /\ file[s] # Absent
        /\ RemoveSlots({s})
        /\ UNCHANGED lockVars

\* Mutant: a revalidation starts beside readers of the same key.
OpensBesideReaders(r, k, mode, openMode, type) ==
    /\ PassesLock(k, mode, openMode)
    /\ \E status \in LifetimeStatuses : Disposition(status, mode, openMode) = type
    /\ \E s \in Slots :
        /\ s[1] = k /\ row[s] # Absent /\ file[s] # Absent
        /\ open' = [open EXCEPT ![r] =
                [kind |-> "reader", slot |-> s, marked |-> FALSE, type |-> type,
                 row |-> row[s], body |-> file[s], sending |-> FALSE]]
        /\ UNCHANGED <<gone, wrote, waiting, deferred, diskVars>>

\* A revalidation takes the key for itself alone: the second check.
open_entry_opens(r, k, mode, openMode, type) ==
    /\ PassesLock(k, mode, openMode)
    /\ type = "MustRevalidate" => ~HasOpenEntry(k, TRUE)
    /\ \E status \in LifetimeStatuses : Disposition(status, mode, openMode) = type
    /\ \E s \in Slots :
        /\ s[1] = k /\ row[s] # Absent /\ file[s] # Absent
        /\ open' = [open EXCEPT ![r] =
                [kind |-> "reader", slot |-> s, marked |-> FALSE, type |-> type,
                 row |-> row[s], body |-> file[s], sending |-> FALSE]]
        /\ UNCHANGED <<gone, wrote, waiting, deferred, diskVars>>
-----------------------------------------------------------------------------
(* create_entry and the writer.                                            *)

create_entry_waits(r, k) == HasOpenEntry(k, TRUE) /\ WaitFor(r, k)

create_entry_opens(r, k) ==
    /\ ~HasOpenEntry(k, TRUE)
    /\ open' = [open EXCEPT ![r] = [kind |-> "writer", key |-> k, marked |-> FALSE,
                                    vary |-> "none", parts |-> 0]]
    /\ wrote' = wrote \cup {r}
    /\ UNCHANGED <<gone, waiting, deferred, diskVars>>

\* The entry was deleted meanwhile, the response is not to be stored, or the
\* file cannot be written: the writer closes itself.
write_fails(r) == IsWriter(r) /\ Close(r) /\ UNCHANGED diskVars

write_status_and_reason(r) ==
    /\ IsWriter(r) /\ ~open[r].marked /\ open[r].vary = "none"
    /\ \E v \in Varies : open' = [open EXCEPT ![r].vary = v]
    /\ UNCHANGED <<gone, wrote, waiting, deferred, diskVars>>

WriterSlot(r) == <<open[r].key, open[r].vary>>
Written(r) == [of |-> r, parts |-> open[r].parts]

\* Mutant: data goes to the entry's own file instead of a temporary one.
write_data_in_place(r) ==
    /\ IsWriter(r) /\ ~open[r].marked /\ open[r].vary # "none"
    /\ open[r].parts < MaxParts
    /\ open' = [open EXCEPT ![r].parts = @ + 1]
    /\ file' = [file EXCEPT ![WriterSlot(r)] = [of |-> r, parts |-> open[r].parts + 1]]
    /\ UNCHANGED <<gone, wrote, waiting, deferred, row, sidecar, torn>>

write_data(r) ==
    /\ IsWriter(r) /\ ~open[r].marked /\ open[r].vary # "none"
    /\ open[r].parts < MaxParts
    /\ open' = [open EXCEPT ![r].parts = @ + 1]
    /\ UNCHANGED <<gone, wrote, waiting, deferred, diskVars>>

\* Mutant: the sidecars of the entry that is replaced stay.
flush_keeps_sidecars(r) ==
    /\ IsWriter(r) /\ ~open[r].marked /\ open[r].vary # "none"
    /\ \E S \in SUBSET ({s \in Slots : row[s] # Absent} \cup {WriterSlot(r)}) :
        /\ row' = Without([row EXCEPT ![WriterSlot(r)] = Written(r)], S, Absent)
        /\ file' = Without([file EXCEPT ![WriterSlot(r)] = Written(r)], S, Absent)
        /\ sidecar' = Without(sidecar, S, "none")
        /\ torn' = torn \ (S \cup {WriterSlot(r)})
        /\ CloseIn(MarkForDeletion(S), r)
        /\ UNCHANGED <<gone, wrote>>

\* The file takes its place, sidecars of the entry it replaces are dropped, then
\* its index row is made and rows past the limit are evicted; the new one too, if
\* the clock was set back.
flush_succeeds(r) ==
    /\ IsWriter(r) /\ ~open[r].marked /\ open[r].vary # "none"
    /\ \E S \in SUBSET ({s \in Slots : row[s] # Absent} \cup {WriterSlot(r)}) :
        /\ row' = Without([row EXCEPT ![WriterSlot(r)] = Written(r)], S, Absent)
        /\ file' = Without([file EXCEPT ![WriterSlot(r)] = Written(r)], S, Absent)
        /\ sidecar' = Without(sidecar, S \cup {WriterSlot(r)}, "none")
        /\ torn' = torn \ (S \cup {WriterSlot(r)})
        /\ CloseIn(MarkForDeletion(S), r)
        /\ UNCHANGED <<gone, wrote>>

\* The index refuses the row (it is too large): remove().
flush_refused(r) ==
    /\ IsWriter(r) /\ ~open[r].marked /\ open[r].vary # "none"
    /\ RemoveSlots({WriterSlot(r)})
    /\ Close(r)

\* Mutant: an entry without headers, and so without a path, is flushed.
flush_without_headers(r) ==
    /\ IsWriter(r) /\ ~open[r].marked
    /\ file' = [file EXCEPT ![WriterSlot(r)] = Written(r)]
    /\ torn' = torn \cup {WriterSlot(r)}
    /\ Close(r)
    /\ UNCHANGED <<row, sidecar>>

\* The body file cannot be opened again after it was renamed.
flush_interrupted(r) ==
    /\ IsWriter(r) /\ ~open[r].marked /\ open[r].vary # "none"
    /\ file' = [file EXCEPT ![WriterSlot(r)] = Written(r)]
    /\ torn' = torn \cup {WriterSlot(r)}
    /\ Close(r)
    /\ UNCHANGED <<row, sidecar>>

flush(r) == flush_succeeds(r) \/ flush_refused(r) \/ flush_interrupted(r) \/ write_fails(r)
-----------------------------------------------------------------------------
(* The reader.                                                             *)

\* The new headers are stored in the row of the same response.
revalidation_succeeded(r) ==
    /\ is_revalidation_request(r)
    /\ IF open[r].type = "MustRevalidate" THEN UNCHANGED lockVars ELSE Close(r)
    /\ UNCHANGED diskVars

revalidation_failed(r) == is_revalidation_request(r) /\ RemoveAndClose(r)

\* read_and_validate_footer finds a footer only where the row's size says.
FooterIsValid(r) == open[r].row.parts = open[r].body.parts

\* The socket takes only part of the body: the reader waits for it.
send_blocks(r) ==
    /\ IsReader(r) /\ ~open[r].marked
    /\ open' = [open EXCEPT ![r].sending = TRUE]
    /\ UNCHANGED <<gone, wrote, waiting, deferred, diskVars>>

send_complete(r) ==
    /\ IsReader(r) /\ ~open[r].marked /\ FooterIsValid(r)
    /\ Close(r) /\ UNCHANGED diskVars

\* The entry was deleted, the footer is not there or the socket failed.
send_error(r) == IsReader(r) /\ RemoveAndClose(r)

take_body_file(r) == send_complete(r)

take_body_file_fails(r) ==
    /\ IsReader(r)
    /\ \/ Close(r) /\ UNCHANGED diskVars
       \/ ~open[r].marked /\ ~FooterIsValid(r) /\ RemoveAndClose(r)
-----------------------------------------------------------------------------
(* The rest of the cache's interface.                                      *)

\* A client stores data it made from a response; rows past the limit go.
store_associated_data(s) ==
    /\ row[s] # Absent
    /\ \E S \in SUBSET {t \in Slots : row[t] # Absent} :
        /\ row' = Without(row, S, Absent)
        /\ file' = Without(file, S, Absent)
        /\ sidecar' = Without([sidecar EXCEPT ![s] = row[s].of], S, "none")
        /\ torn' = torn \ S
        /\ open' = MarkForDeletion(S)
    /\ UNCHANGED <<gone, wrote, waiting, deferred>>

remove_entries_accessed_since ==
    \E S \in SUBSET {t \in Slots : row[t] # Absent} :
        /\ S # {}
        /\ RemoveSlots(S)
        /\ open' = MarkForDeletion(S)
        /\ UNCHANGED <<gone, wrote, waiting, deferred>>

\* The deferred call resumes the next request of its batch, if it still exists.
notify_request_unblocked(r) ==
    /\ deferred # <<>> /\ r = Head(Head(deferred))
    /\ deferred' = (IF Len(Head(deferred)) = 1 THEN <<>> ELSE <<Tail(Head(deferred))>>)
                        \o Tail(deferred)
    /\ UNCHANGED <<open, gone, wrote, waiting, diskVars>>

\* A request is destroyed, and its writer closed with it (remove_incomplete_entry).
\* A reader stays open, and nothing it does is heard of any more.  In the state in
\* which ~Request would flush, handle_complete_state has already done so.
Destroy(r) ==
    /\ r \notin gone
    /\ gone' = gone \cup {r}
    /\ IF IsWriter(r) THEN CloseIn(open, r) ELSE UNCHANGED <<open, waiting, deferred>>
    /\ UNCHANGED <<wrote, diskVars>>

\* What a crash may leave of a flush, between the renaming of the file and the
\* making of the row: sidecars are dropped and an older row deleted in between.
FlushCutShort(r) ==
    LET s == WriterSlot(r) IN
    /\ IsWriter(r) /\ ~open[r].marked /\ open[r].vary # "none"
    /\ file' = [file EXCEPT ![s] = Written(r)]
    /\ torn' = torn \cup {s}
    /\ \/ sidecar' = sidecar /\ row' = row
       \/ sidecar' = [sidecar EXCEPT ![s] = "none"]
          /\ row' \in {row, [row EXCEPT ![s] = Absent]}

\* What it may leave of a deletion: rows without files, or files without rows.
DeletionCutShort(S) ==
    \/ /\ file' = Without(file, S, Absent)
       /\ sidecar' \in {sidecar, Without(sidecar, S, "none")}
       /\ UNCHANGED <<row, torn>>
    \/ row' = Without(row, S, Absent) /\ UNCHANGED <<file, sidecar, torn>>

\* RequestServer ends, and with it everything but the disk.
Crash ==
    /\ open' = [r \in Requests |-> NoEntry]
    /\ gone' = gone \cup {r \in Requests : open[r] # NoEntry \/ Waiting(r)}
    /\ waiting' = [k \in Keys |-> <<>>]
    /\ deferred' = <<>>
    /\ UNCHANGED wrote
    /\ \/ UNCHANGED diskVars
       \/ \E r \in Requests : FlushCutShort(r)
       \/ \E S \in SUBSET {t \in Slots : row[t] # Absent} : DeletionCutShort(S)
-----------------------------------------------------------------------------
(* Requests in general: any of them may call for any key when it has no    *)
(* entry and does not wait.                                                *)

Init ==
    /\ open = [r \in Requests |-> NoEntry]
    /\ gone = {} /\ wrote = {}
    /\ waiting = [k \in Keys |-> <<>>]
    /\ deferred = <<>>
    /\ row \in [Slots -> {Absent, [of |-> Old, parts |-> MaxParts]}]
    /\ file = row
    /\ sidecar = [s \in Slots |-> "none"]
    /\ torn = {}

MayCall(r) == r \notin gone /\ open[r] = NoEntry /\ ~Waiting(r)

open_entry(r, k) ==
    \E openMode \in OpenModes, mode \in CacheModes :
        /\ openMode = "Revalidate" => mode = "Default"
        /\ \/ open_entry_waits(r, k, mode, openMode)
           \/ open_entry_none(k, mode, openMode)
           \/ open_entry_unreadable(k, mode, openMode)
           \/ open_entry_expired(k, mode, openMode)
           \/ \E type \in RevalidationTypes : open_entry_opens(r, k, mode, openMode, type)

create_entry(r, k) ==
    r \notin wrote /\ (create_entry_waits(r, k) \/ create_entry_opens(r, k))

Write(r) == write_status_and_reason(r) \/ write_data(r) \/ flush(r)

Read(r) ==
    \/ revalidation_succeeded(r) \/ revalidation_failed(r)
    \/ send_blocks(r) \/ send_complete(r) \/ send_error(r)
    \/ take_body_file(r) \/ take_body_file_fails(r)

Next ==
    \/ \E r \in Requests :
        \/ MayCall(r) /\ \E k \in Keys : open_entry(r, k) \/ create_entry(r, k)
        \/ Write(r) \/ Read(r) \/ notify_request_unblocked(r) \/ Destroy(r)
    \/ \E s \in Slots : store_associated_data(s)
    \/ remove_entries_accessed_since
    \/ Crash

Spec == Init /\ [][Next]_cacheVars
-----------------------------------------------------------------------------
(* Properties.                                                             *)

\* A writer has its key for itself, and so has a reader whose request will
\* replace or confirm what it reads: the locking of check_if_cache_has_open_entry
\* keyed by URL and method alone.
ExclusiveEntries ==
    \A r \in Requests :
        IsWriter(r) \/ is_revalidation_request(r) => OpenOn(KeyOf(open[r])) = {r}

\* Whoever waits for a key waits for an entry that is open on it, so that a
\* closing entry is there to wake it: cache_entry_closed wakes at the last close.
WaitersAreHeld ==
    \A k \in Keys : waiting[k] # <<>> => OpenOn(k) # {}

\* While an entry is read nobody stores another response in its place: the row,
\* if it is still there, is the one the reader was opened for.  The reader's
\* remove() therefore never takes away a newer response.
ReaderIsCurrent ==
    \A r \in Requests :
        IsReader(r) => row[open[r].slot] \in {Absent, open[r].row}

\* Headers come from the index and the body from the file; both belong to the
\* same response unless flush or the process was interrupted between the two.
HeadersMatchBody ==
    \A s \in Slots :
        row[s] # Absent /\ file[s] # Absent /\ s \notin torn => file[s] = row[s]

\* Associated data does not outlive the response it was stored with: flush drops
\* what an older entry left before the new row can be found.
SidecarOfThisRow ==
    \A s \in Slots : row[s] # Absent => sidecar[s] \in {"none", row[s].of}
=============================================================================
