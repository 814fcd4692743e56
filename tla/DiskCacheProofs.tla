-------------------------- MODULE DiskCacheProofs --------------------------
(***************************************************************************)
(* Proofs about the disk cache: its locking, and what is on disk.          *)
(***************************************************************************)
EXTENDS DiskCache, SequenceTheorems, TLAPS

-----------------------------------------------------------------------------
(* Types.                                                                  *)

\* The variables that the locking is made of keep their types.
LockTypes ==
    /\ open \in [Requests -> Entries]
    /\ gone \subseteq Requests
    /\ wrote \subseteq Requests
    /\ waiting \in [Keys -> Seq(Requests)]
    /\ deferred \in Seq(Seq(Requests) \ {<<>>})

\* So do those of the disk.
DiskTypes ==
    /\ row \in [Slots -> Bodies \cup {Absent}]
    /\ file \in [Slots -> Bodies \cup {Absent}]
    /\ sidecar \in [Slots -> Responses \cup {"none"}]
    /\ torn \subseteq Slots

\* The type invariant is the types of the locks and those of what is on disk.
LEMMA TypeParts == TypeOK <=> LockTypes /\ DiskTypes
BY DEF TypeOK, LockTypes, DiskTypes

\* An open entry has a key (KeyOf), and an entry is a reader, a writer or nothing.
LEMMA EntryShape ==
    ASSUME NEW e \in Entries
    PROVE  /\ e # NoEntry => KeyOf(e) \in Keys
           /\ e.kind \in {"reader", "writer", "none"}
           /\ e.kind = "reader" <=> e \in Readers
           /\ e.kind = "writer" <=> e \in Writers
           /\ e.kind = "none" <=> e = NoEntry
BY DEF Entries, Readers, Writers, NoEntry, KeyOf, Slots

\* cache_entry_closed keeps the types.
LEMMA CloseInType ==
    ASSUME LockTypes, NEW r \in Requests, open[r] # NoEntry,
           NEW o \in [Requests -> Entries], CloseIn(o, r)
    PROVE  /\ open' \in [Requests -> Entries]
           /\ waiting' \in [Keys -> Seq(Requests)]
           /\ deferred' \in Seq(Seq(Requests) \ {<<>>})
<1> DEFINE k == KeyOf(open[r])
<1>1. k \in Keys
  BY EntryShape DEF LockTypes
<1>2. open' = [o EXCEPT ![r] = NoEntry]
  BY DEF CloseIn
<1>3. open' \in [Requests -> Entries]
  BY <1>2 DEF Entries
<1>4. waiting' \in {waiting, [waiting EXCEPT ![k] = <<>>]}
  BY DEF CloseIn
<1>a. <<>> \in Seq(Requests)
  OBVIOUS
<1>5. waiting' \in [Keys -> Seq(Requests)]
  <2> HIDE DEF k
  <2>1. waiting \in [Keys -> Seq(Requests)]
    BY DEF LockTypes
  <2>2. [waiting EXCEPT ![k] = <<>>] \in [Keys -> Seq(Requests)]
    BY <2>1, <1>a
  <2>3. QED
    BY <1>4, <2>1, <2>2
<1>6. deferred' = deferred \/ (waiting[k] # <<>> /\ deferred' = Append(deferred, waiting[k]))
  BY DEF CloseIn
<1>7. waiting[k] \in Seq(Requests)
  BY <1>1 DEF LockTypes
<1>8. deferred' \in Seq(Seq(Requests) \ {<<>>})
  <2> DEFINE B == Seq(Requests) \ {<<>>}
  <2>1. deferred \in Seq(B)
    BY DEF LockTypes
  <2>2. waiting[k] # <<>> => waiting[k] \in B
    BY <1>7
  <2> HIDE DEF B, k
  <2>3. deferred' \in Seq(B)
    BY <1>6, <2>1, <2>2
  <2>4. QED
    BY <2>3 DEF B
<1>9. QED
  BY <1>3, <1>5, <1>8

\* delete_entry changes nothing of an open entry but its mark.
Same(e, f) ==
    /\ e.kind = f.kind /\ KeyOf(e) = KeyOf(f)
    /\ e.kind = "reader" => e.slot = f.slot /\ e.type = f.type /\ e.row = f.row

\* delete_entry marks open entries and changes nothing else of them.
LEMMA MarkKeeps ==
    ASSUME LockTypes, NEW S
    PROVE  /\ MarkForDeletion(S) \in [Requests -> Entries]
           /\ \A q \in Requests : Same(MarkForDeletion(S)[q], open[q])
           /\ \A q \in Requests : MarkForDeletion(S)[q] = NoEntry <=> open[q] = NoEntry
<1> SUFFICES ASSUME NEW q \in Requests
             PROVE  LET e == MarkForDeletion(S)[q] IN
                    e \in Entries /\ Same(e, open[q]) /\ (e = NoEntry <=> open[q] = NoEntry)
  BY DEF MarkForDeletion
<1> DEFINE e == MarkForDeletion(S)[q]
<1>1. e = open[q] \/ (open[q] # NoEntry /\ e = [open[q] EXCEPT !.marked = TRUE])
  BY DEF MarkForDeletion
<1>2. open[q] \in Entries
  BY DEF LockTypes
<1>3. CASE e = open[q]
  BY <1>2, <1>3 DEF Same
<1>4. CASE open[q] \in Readers /\ e = [open[q] EXCEPT !.marked = TRUE]
  <2>1. e \in Readers
    BY <1>4 DEF Readers
  <2>2. e.kind = "reader" /\ e.slot = open[q].slot /\ e.type = open[q].type /\ e.row = open[q].row
    BY <1>4 DEF Readers
  <2>3. open[q].kind = "reader"
    BY <1>4 DEF Readers
  <2> HIDE DEF e
  <2>4. e \in Entries /\ Same(e, open[q]) /\ e # NoEntry /\ open[q] # NoEntry
    BY <2>1, <2>2, <2>3 DEF Entries, Same, KeyOf, NoEntry
  <2>5. QED
    BY <2>4 DEF e
<1>5. CASE open[q] \in Writers /\ e = [open[q] EXCEPT !.marked = TRUE]
  <2>1. e \in Writers
    BY <1>5 DEF Writers
  <2>2. e.kind = "writer" /\ e.key = open[q].key
    BY <1>5 DEF Writers
  <2>3. open[q].kind = "writer"
    BY <1>5 DEF Writers
  <2> HIDE DEF e
  <2>4. e \in Entries /\ Same(e, open[q]) /\ e # NoEntry /\ open[q] # NoEntry
    BY <2>1, <2>2, <2>3 DEF Entries, Same, KeyOf, NoEntry
  <2>5. QED
    BY <2>4 DEF e
<1>6. QED
  BY <1>1, <1>2, <1>3, <1>4, <1>5 DEF Entries

\* A writer has a key, and a slot once it has the headers.
LEMMA WriterFacts ==
    ASSUME LockTypes, NEW r \in Requests, IsWriter(r)
    PROVE  /\ open[r] \in Writers /\ open[r] # NoEntry
           /\ KeyOf(open[r]) = open[r].key /\ open[r].key \in Keys
           /\ Written(r) \in Bodies
           /\ open[r].vary # "none" => WriterSlot(r) \in Slots
<1>1. open[r] \in Entries /\ open[r].kind = "writer"
  BY DEF LockTypes, IsWriter
<1>2. open[r] \in Writers
  BY <1>1, EntryShape
<1>3. open[r].key \in Keys /\ open[r].parts \in 0..MaxParts /\ open[r].vary \in Varies \cup {"none"}
  BY <1>2 DEF Writers
<1>4. open[r] # NoEntry
  BY <1>1 DEF NoEntry
<1>5. Written(r) \in Bodies
  BY <1>3 DEF Written, Bodies, Responses
<1>6. open[r].vary # "none" => WriterSlot(r) \in Slots
  BY <1>3 DEF WriterSlot, Slots
<1>7. QED
  BY <1>1, <1>2, <1>3, <1>4, <1>5, <1>6 DEF KeyOf

\* A reader has a slot.
LEMMA ReaderFacts ==
    ASSUME LockTypes, NEW r \in Requests, IsReader(r)
    PROVE  /\ open[r] \in Readers /\ open[r] # NoEntry
           /\ open[r].slot \in Slots /\ KeyOf(open[r]) = open[r].slot[1]
<1>1. open[r] \in Entries /\ open[r].kind = "reader"
  BY DEF LockTypes, IsReader
<1>2. open[r] \in Readers
  BY <1>1, EntryShape
<1>3. QED
  BY <1>1, <1>2 DEF Readers, NoEntry, KeyOf

-----------------------------------------------------------------------------
(* The kinds of steps, by what they do to the open entries.                *)

\* The entries that are open stay what they are, but for marks and progress.
EntriesStay(o) ==
    /\ o \in [Requests -> Entries]
    /\ \A q \in Requests : Same(o[q], open[q]) /\ (o[q] = NoEntry <=> open[q] = NoEntry)

GoneGrows == gone \subseteq gone' /\ gone' \subseteq Requests

\* A request is made to wait for an entry that is open.
Waits(r, k) == WaitFor(r, k) /\ OpenOn(k) # {}

\* A reader is opened, by the rules of open_entry.
Opens(r) ==
    /\ open[r] = NoEntry
    /\ \E k \in Keys, openMode \in OpenModes, mode \in CacheModes, type \in RevalidationTypes :
        /\ openMode = "Revalidate" => mode = "Default"
        /\ open_entry_opens(r, k, mode, openMode, type)

Creates(r, k) == open[r] = NoEntry /\ create_entry_opens(r, k)

\* No entry is opened or closed.
Edits ==
    /\ EntriesStay(open') /\ GoneGrows
    /\ UNCHANGED <<wrote, waiting>>
    /\ deferred' \in Seq(Seq(Requests) \ {<<>>})

\* An entry is closed.
Closes(r) ==
    /\ open[r] # NoEntry /\ GoneGrows /\ UNCHANGED wrote
    /\ \E o : EntriesStay(o) /\ CloseIn(o, r)

\* All of them are.
Ends ==
    /\ open' = [r \in Requests |-> NoEntry] /\ GoneGrows /\ UNCHANGED wrote
    /\ waiting' = [k \in Keys |-> <<>>]
    /\ deferred' = <<>>

LockStep ==
    \/ \E r \in Requests, k \in Keys : Waits(r, k) \/ Creates(r, k)
    \/ \E r \in Requests : Opens(r) \/ Closes(r)
    \/ Edits \/ Ends

\* An open entry stays what it is where nothing happens to it.
LEMMA OpenStays == ASSUME LockTypes PROVE EntriesStay(open)
BY DEF LockTypes, EntriesStay, Same

\* A step that leaves the locks alone is the least of the edits.
LEMMA LockStutters == ASSUME LockTypes, UNCHANGED lockVars PROVE Edits
BY OpenStays DEF LockTypes, lockVars, Edits, EntriesStay, GoneGrows, Same

\* Closing an entry without touching another is a closing.
LEMMA CloseCloses ==
    ASSUME LockTypes, NEW r \in Requests, open[r] # NoEntry, Close(r)
    PROVE  Closes(r)
BY OpenStays DEF LockTypes, Close, Closes, GoneGrows

\* Whoever has to wait finds an open entry (check_if_cache_has_open_entry).
LEMMA WaitsForOpen ==
    ASSUME NEW k, NEW b, HasOpenEntry(k, b)
    PROVE  OpenOn(k) # {}
BY DEF HasOpenEntry

\* What open_entry does to the locks: it waits, opens a reader or leaves them.
LEMMA OpenEntryLock ==
    ASSUME LockTypes, NEW r \in Requests, NEW k \in Keys, open[r] = NoEntry, open_entry(r, k)
    PROVE  LockStep
<1> PICK openMode \in OpenModes, mode \in CacheModes :
        /\ openMode = "Revalidate" => mode = "Default"
        /\ \/ open_entry_waits(r, k, mode, openMode)
           \/ open_entry_none(k, mode, openMode)
           \/ open_entry_unreadable(k, mode, openMode)
           \/ open_entry_expired(k, mode, openMode)
           \/ \E type \in RevalidationTypes : open_entry_opens(r, k, mode, openMode, type)
  BY DEF open_entry
<1>1. CASE open_entry_waits(r, k, mode, openMode)
  BY <1>1, WaitsForOpen DEF open_entry_waits, LockStep, Waits
<1>2. CASE open_entry_none(k, mode, openMode)
  BY <1>2, LockStutters DEF open_entry_none, cacheVars, lockVars, LockStep
<1>3. CASE open_entry_unreadable(k, mode, openMode)
  BY <1>3, LockStutters DEF open_entry_unreadable, LockStep
<1>4. CASE open_entry_expired(k, mode, openMode)
  BY <1>4, LockStutters DEF open_entry_expired, LockStep
<1>5. CASE \E type \in RevalidationTypes : open_entry_opens(r, k, mode, openMode, type)
  BY <1>5 DEF LockStep, Opens
<1>6. QED
  BY <1>1, <1>2, <1>3, <1>4, <1>5

\* What create_entry does to them: it waits or opens a writer.
LEMMA CreateEntryLock ==
    ASSUME LockTypes, NEW r \in Requests, NEW k \in Keys, open[r] = NoEntry, create_entry(r, k)
    PROVE  LockStep
BY WaitsForOpen DEF create_entry, create_entry_waits, LockStep, Waits, Creates

\* The writer gets headers or data: only its progress changes.
LEMMA WriterEdits ==
    ASSUME LockTypes, NEW r \in Requests, IsWriter(r), NEW w \in Writers, w.key = open[r].key,
           open' = [open EXCEPT ![r] = w], UNCHANGED <<gone, wrote, waiting, deferred>>
    PROVE  Edits
<1>1. /\ open[r] \in Writers /\ open[r].kind = "writer" /\ w.kind = "writer"
      /\ w # NoEntry /\ open[r] # NoEntry
  BY WriterFacts DEF IsWriter, Writers, NoEntry
<1>2. Same(w, open[r])
  BY <1>1 DEF Same, KeyOf
<1>3. ASSUME NEW q \in Requests
      PROVE  Same(open'[q], open[q]) /\ (open'[q] = NoEntry <=> open[q] = NoEntry)
  <2>1. CASE q = r
    BY <1>1, <1>2, <2>1 DEF LockTypes
  <2>2. CASE q # r
    BY <2>2 DEF LockTypes, Same
  <2>3. QED
    BY <2>1, <2>2
<1>4. open' \in [Requests -> Entries]
  BY DEF LockTypes, Entries
<1>5. QED
  BY <1>3, <1>4 DEF Edits, EntriesStay, GoneGrows, LockTypes

\* A writer changes its own entry or closes it.
LEMMA WriteLock ==
    ASSUME LockTypes, NEW r \in Requests, Write(r)
    PROVE  LockStep
<1>1. CASE write_status_and_reason(r)
  <2>1. IsWriter(r) /\ open[r] \in Writers
    BY <1>1, WriterFacts DEF write_status_and_reason
  <2>2. PICK v \in Varies : open' = [open EXCEPT ![r].vary = v]
    BY <1>1 DEF write_status_and_reason
  <2> DEFINE w == [open[r] EXCEPT !.vary = v]
  <2>3. w \in Writers /\ w.key = open[r].key
    BY <2>1 DEF Writers
  <2>4. open' = [open EXCEPT ![r] = w]
    BY <2>2
  <2>5. UNCHANGED <<gone, wrote, waiting, deferred>>
    BY <1>1 DEF write_status_and_reason
  <2> HIDE DEF w
  <2>6. QED
    BY <2>1, <2>3, <2>4, <2>5, WriterEdits DEF LockStep
<1>2. CASE write_data(r)
  <2>1. IsWriter(r) /\ open[r] \in Writers
    BY <1>2, WriterFacts DEF write_data
  <2>2. open[r].parts \in 0..MaxParts /\ open[r].parts < MaxParts
    BY <1>2, <2>1 DEF write_data, Writers
  <2> DEFINE w == [open[r] EXCEPT !.parts = @ + 1]
  <2>3. w \in Writers /\ w.key = open[r].key
    <3>1. open[r].parts + 1 \in 0..MaxParts
      BY <2>2, DiskCacheAssumption DEF DiskCacheAssumption
    <3>2. QED
      BY <2>1, <3>1 DEF Writers
  <2>4. open' = [open EXCEPT ![r] = w]
    BY <1>2 DEF write_data
  <2>5. UNCHANGED <<gone, wrote, waiting, deferred>>
    BY <1>2 DEF write_data
  <2> HIDE DEF w
  <2>6. QED
    BY <2>1, <2>3, <2>4, <2>5, WriterEdits DEF LockStep
<1>3. CASE flush_succeeds(r)
  <2>1. open[r] # NoEntry
    BY <1>3, WriterFacts DEF flush_succeeds
  <2>2. PICK S : CloseIn(MarkForDeletion(S), r)
    BY <1>3 DEF flush_succeeds
  <2>3. EntriesStay(MarkForDeletion(S))
    BY MarkKeeps DEF EntriesStay
  <2>4. GoneGrows /\ UNCHANGED wrote
    BY <1>3 DEF flush_succeeds, GoneGrows, LockTypes
  <2>5. QED
    BY <2>1, <2>2, <2>3, <2>4 DEF LockStep, Closes
<1>4. CASE flush_refused(r)
  BY <1>4, WriterFacts, CloseCloses DEF flush_refused, LockStep
<1>5. CASE flush_interrupted(r)
  BY <1>5, WriterFacts, CloseCloses DEF flush_interrupted, LockStep
<1>6. CASE write_fails(r)
  BY <1>6, WriterFacts, CloseCloses DEF write_fails, LockStep
<1>7. QED
  BY <1>1, <1>2, <1>3, <1>4, <1>5, <1>6 DEF Write, flush

\* A reader changes its own entry or closes it.
LEMMA ReadLock ==
    ASSUME LockTypes, NEW r \in Requests, Read(r)
    PROVE  LockStep
<1>1. IsReader(r)
  BY DEF Read, revalidation_succeeded, revalidation_failed, is_revalidation_request, send_blocks,
         send_complete, send_error, take_body_file, take_body_file_fails
<1>2. open[r] \in Readers /\ open[r] # NoEntry
  BY <1>1, ReaderFacts
<1>3. CASE Close(r)
  BY <1>2, <1>3, CloseCloses DEF LockStep
<1>4. CASE revalidation_succeeded(r) /\ ~Close(r)
  BY <1>4, LockStutters DEF revalidation_succeeded, LockStep
<1>5. CASE send_blocks(r)
  <2> DEFINE w == [open[r] EXCEPT !.sending = TRUE]
  <2>1. w \in Readers /\ w.kind = "reader" /\ open[r].kind = "reader"
    BY <1>2 DEF Readers
  <2>2. w.slot = open[r].slot /\ w.type = open[r].type /\ w.row = open[r].row
    BY <1>2 DEF Readers
  <2>3. open' = [open EXCEPT ![r] = w] /\ UNCHANGED <<gone, wrote, waiting, deferred>>
    BY <1>5 DEF send_blocks
  <2> HIDE DEF w
  <2>4. Same(w, open[r]) /\ w # NoEntry
    BY <2>1, <2>2 DEF Same, KeyOf, NoEntry
  <2>5. ASSUME NEW q \in Requests
        PROVE  Same(open'[q], open[q]) /\ (open'[q] = NoEntry <=> open[q] = NoEntry)
    <3>1. CASE q = r
      BY <1>2, <2>3, <2>4, <3>1 DEF LockTypes
    <3>2. CASE q # r
      BY <2>3, <3>2 DEF LockTypes, Same
    <3>3. QED
      BY <3>1, <3>2
  <2>6. open' \in [Requests -> Entries]
    BY <2>1, <2>3 DEF LockTypes, Entries
  <2>7. Edits
    BY <2>3, <2>5, <2>6 DEF Edits, EntriesStay, GoneGrows, LockTypes
  <2>8. QED
    BY <2>7 DEF LockStep
<1>6. QED
  BY <1>3, <1>4, <1>5 DEF Read, revalidation_failed, send_complete, send_error, take_body_file,
         take_body_file_fails, RemoveAndClose

\* The resumption of a request takes it from the first batch.
LEMMA NotifyLock ==
    ASSUME LockTypes, NEW r \in Requests, notify_request_unblocked(r)
    PROVE  LockStep
<1> DEFINE B == Seq(Requests) \ {<<>>}
<1>1. deferred \in Seq(B) /\ deferred # <<>>
  BY DEF LockTypes, notify_request_unblocked
<1>2. Head(deferred) \in B /\ Tail(deferred) \in Seq(B)
  <2> HIDE DEF B
  <2>1. QED
    BY <1>1
<1>3. Head(deferred) \in Seq(Requests) /\ Len(Head(deferred)) > 0
  BY <1>2
<1>4. Len(Head(deferred)) # 1 => Tail(Head(deferred)) \in B
  <2> SUFFICES ASSUME NEW h \in Seq(Requests), Len(h) > 0, Len(h) # 1
               PROVE  Tail(h) \in Seq(Requests) /\ Tail(h) # <<>>
    BY <1>3
  <2>1. Tail(h) \in Seq(Requests) /\ Len(Tail(h)) = Len(h) - 1
    OBVIOUS
  <2>2. Len(h) - 1 # 0
    BY LenProperties
  <2>3. QED
    BY <2>1, <2>2
<1> DEFINE first == IF Len(Head(deferred)) = 1 THEN <<>> ELSE <<Tail(Head(deferred))>>
<1>5. first \in Seq(B)
  <2> HIDE DEF B
  <2>1. QED
    BY <1>4
<1>6. deferred' = first \o Tail(deferred)
  BY DEF notify_request_unblocked
<1>7. deferred' \in Seq(B)
  <2> HIDE DEF B, first
  <2>1. QED
    BY <1>2, <1>5, <1>6
<1>8. open' = open /\ gone' = gone /\ wrote' = wrote /\ waiting' = waiting
  BY DEF notify_request_unblocked
<1>9. EntriesStay(open')
  BY <1>8, OpenStays
<1>10. QED
  BY <1>7, <1>8, <1>9 DEF LockStep, Edits, GoneGrows, LockTypes

\* ~Request closes a writer and leaves a reader behind.
LEMMA DestroyLock ==
    ASSUME LockTypes, NEW r \in Requests, Destroy(r)
    PROVE  LockStep
<1>1. GoneGrows /\ UNCHANGED wrote
  BY DEF Destroy, GoneGrows, LockTypes
<1>2. CASE IsWriter(r)
  BY <1>1, <1>2, WriterFacts, OpenStays DEF Destroy, LockStep, Closes
<1>3. CASE ~IsWriter(r)
  BY <1>1, <1>3, OpenStays DEF Destroy, LockStep, Edits, LockTypes, EntriesStay
<1>4. QED
  BY <1>2, <1>3

\* Evictions and the clearing of the cache mark entries.
LEMMA MarkLock ==
    ASSUME LockTypes, NEW S, open' = MarkForDeletion(S), UNCHANGED <<gone, wrote, waiting, deferred>>
    PROVE  LockStep
<1>1. EntriesStay(open')
  BY MarkKeeps DEF EntriesStay
<1>2. QED
  BY <1>1 DEF LockStep, Edits, GoneGrows, LockTypes

\* A crash ends every entry and every wait.
LEMMA CrashLock == ASSUME LockTypes, Crash PROVE LockStep
BY DEF Crash, LockStep, Ends, GoneGrows, LockTypes

\* Every step is one of those kinds.
LEMMA NextIsLockStep == ASSUME LockTypes, [Next]_cacheVars PROVE LockStep
<1>1. ASSUME NEW r \in Requests, MayCall(r), NEW k \in Keys, open_entry(r, k) \/ create_entry(r, k)
      PROVE  LockStep
  BY <1>1, OpenEntryLock, CreateEntryLock DEF MayCall
<1>2. ASSUME NEW r \in Requests,
             Write(r) \/ Read(r) \/ notify_request_unblocked(r) \/ Destroy(r)
      PROVE  LockStep
  BY <1>2, WriteLock, ReadLock, NotifyLock, DestroyLock
<1>3. ASSUME NEW s \in Slots, store_associated_data(s)
      PROVE  LockStep
  BY <1>3, MarkLock DEF store_associated_data
<1>4. CASE remove_entries_accessed_since
  BY <1>4, MarkLock DEF remove_entries_accessed_since
<1>5. CASE Crash
  BY <1>5, CrashLock
<1>6. CASE UNCHANGED cacheVars
  BY <1>6, LockStutters DEF cacheVars, lockVars, LockStep
<1>7. QED
  BY <1>1, <1>2, <1>3, <1>4, <1>5, <1>6 DEF Next

-----------------------------------------------------------------------------
(* The locking.                                                            *)

\* Each kind of step keeps the types of the locks.
LEMMA LockTypesKept ==
    ASSUME LockTypes, DiskTypes, LockStep
    PROVE  LockTypes'
<1>1. ASSUME NEW r \in Requests, NEW k \in Keys, Waits(r, k)
      PROVE  LockTypes'
  <2>1. waiting' = [waiting EXCEPT ![k] = Append(@, r)] /\ UNCHANGED <<open, gone, wrote, deferred>>
    BY <1>1 DEF Waits, WaitFor
  <2>2. Append(waiting[k], r) \in Seq(Requests)
    BY DEF LockTypes
  <2>3. waiting' \in [Keys -> Seq(Requests)]
    BY <2>1, <2>2 DEF LockTypes
  <2>4. QED
    BY <2>1, <2>3 DEF LockTypes
<1>2. ASSUME NEW r \in Requests, NEW k \in Keys, Creates(r, k)
      PROVE  LockTypes'
  <2> DEFINE w == [kind |-> "writer", key |-> k, marked |-> FALSE, vary |-> "none", parts |-> 0]
  <2>1. w \in Writers
    BY DiskCacheAssumption DEF Writers, DiskCacheAssumption
  <2>2. /\ open' = [open EXCEPT ![r] = w] /\ wrote' = wrote \cup {r}
        /\ UNCHANGED <<gone, waiting, deferred>>
    BY <1>2 DEF Creates, create_entry_opens
  <2> HIDE DEF w
  <2>3. QED
    BY <2>1, <2>2 DEF LockTypes, Entries
<1>3. ASSUME NEW r \in Requests, Opens(r)
      PROVE  LockTypes'
  <2>1. PICK k \in Keys, openMode \in OpenModes, mode \in CacheModes, type \in RevalidationTypes :
            open_entry_opens(r, k, mode, openMode, type)
    BY <1>3 DEF Opens
  <2>2. PICK s \in Slots :
            /\ row[s] # Absent /\ file[s] # Absent
            /\ open' = [open EXCEPT ![r] =
                    [kind |-> "reader", slot |-> s, marked |-> FALSE, type |-> type,
                     row |-> row[s], body |-> file[s], sending |-> FALSE]]
    BY <2>1 DEF open_entry_opens
  <2>3. row[s] \in Bodies /\ file[s] \in Bodies
    BY <2>2 DEF DiskTypes
  <2>4. open' \in [Requests -> Entries]
    BY <2>2, <2>3 DEF LockTypes, Entries, Readers
  <2>5. UNCHANGED <<gone, wrote, waiting, deferred>>
    BY <2>1 DEF open_entry_opens
  <2>6. QED
    BY <2>4, <2>5 DEF LockTypes
<1>4. ASSUME NEW r \in Requests, Closes(r)
      PROVE  LockTypes'
  BY <1>4, CloseInType DEF Closes, EntriesStay, LockTypes, GoneGrows
<1>5. CASE Edits
  BY <1>5 DEF Edits, EntriesStay, LockTypes, GoneGrows
<1>6. CASE Ends
  BY <1>6 DEF Ends, LockTypes, GoneGrows, Entries
<1>7. QED
  BY <1>1, <1>2, <1>3, <1>4, <1>5, <1>6 DEF LockStep

\* The requests that have an entry open on a key, when the open entries are o.
On(o, k) == {r \in Requests : o[r] # NoEntry /\ KeyOf(o[r]) = k}

\* Where entries stay, the same requests have entries open on a key.
LEMMA OpenOnStays ==
    ASSUME LockTypes, EntriesStay(open'), NEW k
    PROVE  On(open', k) = On(open, k)
BY DEF EntriesStay, OpenOn, On, Same

\* Closing an entry takes its request from those of its key, and no other.
LEMMA OpenOnCloses ==
    ASSUME LockTypes, NEW r \in Requests, Closes(r), NEW k
    PROVE  On(open', k) = On(open, k) \ {r}
<1>1. PICK o : EntriesStay(o) /\ CloseIn(o, r)
  BY DEF Closes
<1>2. open' = [o EXCEPT ![r] = NoEntry]
  BY <1>1 DEF CloseIn, OpenOn, On
<1>3. QED
  BY <1>1, <1>2 DEF EntriesStay, OpenOn, On, Same

\* Opening an entry adds it.
LEMMA OpenOnOpens ==
    ASSUME LockTypes, NEW r \in Requests, NEW e, e # NoEntry, open' = [open EXCEPT ![r] = e],
           open[r] = NoEntry, NEW k
    PROVE  On(open', k) = IF KeyOf(e) = k THEN On(open, k) \cup {r} ELSE On(open, k)
BY DEF LockTypes, OpenOn, On

\* What Opens means for the request: either nobody else has the key, or the reader
\* is a plain one and so are those it is opened beside.
LEMMA OpensAlone ==
    ASSUME NEW r \in Requests, NEW k \in Keys, NEW mode, NEW openMode \in OpenModes,
           NEW type \in RevalidationTypes, open_entry_opens(r, k, mode, openMode, type)
    PROVE  /\ \A q \in On(open, k) : ~IsWriter(q) /\ ~is_revalidation_request(q)
           /\ type \in {"MustRevalidate", "Background"} => On(open, k) = {}
<1>1. ~HasOpenEntry(k, openMode = "Revalidate")
  BY DEF open_entry_opens, PassesLock
<1>2. \A q \in On(open, k) : ~IsWriter(q) /\ ~is_revalidation_request(q)
  BY <1>1 DEF HasOpenEntry, OpenOn, On
<1>3. type = "MustRevalidate" => ~HasOpenEntry(k, TRUE)
  BY DEF open_entry_opens
<1>4. type = "Background" => openMode = "Revalidate"
  <2>1. PICK status \in LifetimeStatuses : Disposition(status, mode, openMode) = type
    BY DEF open_entry_opens
  <2>2. QED
    BY <2>1 DEF Disposition, LifetimeStatuses, RevalidationTypes
<1>5. QED
  BY <1>1, <1>2, <1>3, <1>4 DEF HasOpenEntry, OpenOn, On

\* Each kind of step keeps writers and revalidations alone on their key.
LEMMA ExclusiveKept ==
    ASSUME LockTypes, LockTypes', ExclusiveEntries, LockStep
    PROVE  ExclusiveEntries'
<1>1. ASSUME NEW r \in Requests, NEW k \in Keys, Waits(r, k)
      PROVE  ExclusiveEntries'
  BY <1>1 DEF Waits, WaitFor, ExclusiveEntries, IsWriter, IsReader, is_revalidation_request, OpenOn, On
<1>2. ASSUME NEW r \in Requests, NEW k \in Keys, Creates(r, k)
      PROVE  ExclusiveEntries'
  <2> DEFINE w == [kind |-> "writer", key |-> k, marked |-> FALSE, vary |-> "none", parts |-> 0]
  <2>1. w.kind = "writer" /\ KeyOf(w) = k /\ w # NoEntry
    BY DEF KeyOf, NoEntry
  <2>2. open' = [open EXCEPT ![r] = w] /\ open[r] = NoEntry /\ gone' = gone
    BY <1>2 DEF Creates, create_entry_opens
  <2>3. On(open, k) = {}
    BY <1>2 DEF Creates, create_entry_opens, HasOpenEntry, OpenOn, On
  <2> HIDE DEF w
  <2>4. \A j : On(open', j) = IF j = k THEN {r} ELSE On(open, j)
    BY <2>1, <2>2, <2>3, OpenOnOpens
  <2>5. ASSUME NEW q \in Requests, IsWriter(q)' \/ is_revalidation_request(q)', q # r
        PROVE  On(open', KeyOf(open'[q])) = {q}
    <3>1. open'[q] = open[q]
      BY <2>2, <2>5 DEF LockTypes
    <3>2. On(open, KeyOf(open[q])) = {q}
      BY <3>1, <2>2, <2>5 DEF ExclusiveEntries, IsWriter, IsReader, is_revalidation_request, OpenOn, On
    <3>3. QED
      BY <3>1, <3>2, <2>3, <2>4
  <2>6. On(open', KeyOf(open'[r])) = {r}
    BY <2>1, <2>2, <2>4 DEF LockTypes
  <2>7. QED
    BY <2>5, <2>6 DEF ExclusiveEntries, OpenOn, On
<1>3. ASSUME NEW r \in Requests, Opens(r)
      PROVE  ExclusiveEntries'
  <2>1. PICK k \in Keys, openMode \in OpenModes, mode \in CacheModes, type \in RevalidationTypes :
            open_entry_opens(r, k, mode, openMode, type)
    BY <1>3 DEF Opens
  <2>2. PICK s \in Slots : s[1] = k /\ open' = [open EXCEPT ![r] =
                    [kind |-> "reader", slot |-> s, marked |-> FALSE, type |-> type,
                     row |-> row[s], body |-> file[s], sending |-> FALSE]]
    BY <2>1 DEF open_entry_opens
  <2> DEFINE e == [kind |-> "reader", slot |-> s, marked |-> FALSE, type |-> type,
                   row |-> row[s], body |-> file[s], sending |-> FALSE]
  <2>3. e.kind = "reader" /\ e.type = type /\ KeyOf(e) = k /\ e # NoEntry
    BY <2>2 DEF KeyOf, NoEntry
  <2>4. open' = [open EXCEPT ![r] = e] /\ open[r] = NoEntry /\ gone' = gone
    BY <1>3, <2>1, <2>2 DEF Opens, open_entry_opens
  <2>5. /\ \A q \in On(open, k) : ~IsWriter(q) /\ ~is_revalidation_request(q)
        /\ type \in {"MustRevalidate", "Background"} => On(open, k) = {}
    BY <2>1, OpensAlone
  <2> HIDE DEF e
  <2>6. \A j : On(open', j) = IF j = k THEN On(open, j) \cup {r} ELSE On(open, j)
    BY <2>3, <2>4, OpenOnOpens
  <2>7. ASSUME NEW q \in Requests, IsWriter(q)' \/ is_revalidation_request(q)', q # r
        PROVE  On(open', KeyOf(open'[q])) = {q}
    <3>1. open'[q] = open[q]
      BY <2>4, <2>7 DEF LockTypes
    <3>2. IsWriter(q) \/ is_revalidation_request(q)
      BY <3>1, <2>4, <2>7 DEF IsWriter, IsReader, is_revalidation_request
    <3>3. On(open, KeyOf(open[q])) = {q}
      BY <3>2 DEF ExclusiveEntries, OpenOn, On
    <3>4. KeyOf(open[q]) # k
      BY <3>2, <3>3, <2>5
    <3>5. QED
      BY <3>1, <3>3, <3>4, <2>6
  <2>8. ASSUME IsWriter(r)' \/ is_revalidation_request(r)'
        PROVE  On(open', KeyOf(open'[r])) = {r}
    <3>1. open'[r] = e
      BY <2>4 DEF LockTypes
    <3>2. type \in {"MustRevalidate", "Background"}
      BY <2>3, <2>8, <3>1 DEF IsWriter, IsReader, is_revalidation_request
    <3>3. QED
      BY <2>3, <2>5, <2>6, <3>1, <3>2
  <2>9. QED
    BY <2>7, <2>8 DEF ExclusiveEntries, OpenOn, On
<1>4. ASSUME NEW r \in Requests, Closes(r)
      PROVE  ExclusiveEntries'
  <2>1. PICK o : EntriesStay(o) /\ CloseIn(o, r)
    BY <1>4 DEF Closes
  <2>2. open' = [o EXCEPT ![r] = NoEntry]
    BY <2>1 DEF CloseIn, OpenOn, On
  <2>3. ASSUME NEW q \in Requests, IsWriter(q)' \/ is_revalidation_request(q)'
        PROVE  On(open', KeyOf(open'[q])) = {q}
    <3>1. q # r
      BY <2>1, <2>2, <2>3 DEF EntriesStay, IsWriter, IsReader, is_revalidation_request, NoEntry
    <3>2. open'[q] = o[q] /\ Same(o[q], open[q])
      BY <2>1, <2>2, <3>1 DEF EntriesStay
    <3>3. IsWriter(q) \/ is_revalidation_request(q)
      BY <1>4, <2>3, <3>2 DEF IsWriter, IsReader, is_revalidation_request, Same, Closes, GoneGrows
    <3>4. On(open, KeyOf(open[q])) = {q} /\ KeyOf(open'[q]) = KeyOf(open[q])
      BY <3>2, <3>3 DEF ExclusiveEntries, Same, OpenOn, On
    <3>5. QED
      BY <1>4, <3>1, <3>4, OpenOnCloses
  <2>4. QED
    BY <2>3 DEF ExclusiveEntries, OpenOn, On
<1>5. CASE Edits
  <2>1. EntriesStay(open') /\ GoneGrows
    BY <1>5 DEF Edits
  <2>2. ASSUME NEW q \in Requests, IsWriter(q)' \/ is_revalidation_request(q)'
        PROVE  On(open', KeyOf(open'[q])) = {q}
    <3>1. Same(open'[q], open[q])
      BY <2>1 DEF EntriesStay
    <3>2. IsWriter(q) \/ is_revalidation_request(q)
      BY <2>1, <2>2, <3>1 DEF IsWriter, IsReader, is_revalidation_request, Same, GoneGrows
    <3>3. On(open, KeyOf(open[q])) = {q} /\ KeyOf(open'[q]) = KeyOf(open[q])
      BY <3>1, <3>2 DEF ExclusiveEntries, Same, OpenOn, On
    <3>4. QED
      BY <2>1, <3>3, OpenOnStays
  <2>3. QED
    BY <2>2 DEF ExclusiveEntries, OpenOn, On
<1>6. CASE Ends
  BY <1>6 DEF Ends, ExclusiveEntries, IsWriter, IsReader, is_revalidation_request, NoEntry, OpenOn, On
<1>7. QED
  BY <1>1, <1>2, <1>3, <1>4, <1>5, <1>6 DEF LockStep

\* Each kind of step leaves an entry open for those who wait.
LEMMA WaitersKept ==
    ASSUME LockTypes, WaitersAreHeld, LockStep
    PROVE  WaitersAreHeld'
<1>1. ASSUME NEW r \in Requests, NEW k \in Keys, Waits(r, k)
      PROVE  WaitersAreHeld'
  <2>1. waiting' = [waiting EXCEPT ![k] = Append(@, r)] /\ open' = open /\ On(open, k) # {}
    BY <1>1 DEF Waits, WaitFor, OpenOn, On
  <2>2. \A j : On(open', j) = On(open, j)
    BY <2>1 DEF OpenOn, On
  <2>3. QED
    BY <2>1, <2>2 DEF WaitersAreHeld, LockTypes, OpenOn, On
<1>2. ASSUME NEW r \in Requests, NEW k \in Keys, Creates(r, k)
      PROVE  WaitersAreHeld'
  <2>1. waiting' = waiting
    BY <1>2 DEF Creates, create_entry_opens
  <2>2. \A j : On(open, j) \subseteq On(open', j)
    BY <1>2 DEF Creates, create_entry_opens, OpenOn, On, LockTypes
  <2>3. QED
    BY <2>1, <2>2 DEF WaitersAreHeld, OpenOn, On
<1>3. ASSUME NEW r \in Requests, Opens(r)
      PROVE  WaitersAreHeld'
  <2>1. waiting' = waiting /\ \E e : open' = [open EXCEPT ![r] = e]
    BY <1>3 DEF Opens, open_entry_opens
  <2>2. open[r] = NoEntry
    BY <1>3 DEF Opens
  <2>3. \A j : On(open, j) \subseteq On(open', j)
    BY <2>1, <2>2 DEF OpenOn, On, LockTypes
  <2>4. QED
    BY <2>1, <2>3 DEF WaitersAreHeld, OpenOn, On
<1>4. ASSUME NEW r \in Requests, Closes(r)
      PROVE  WaitersAreHeld'
  <2>1. open[r] # NoEntry /\ KeyOf(open[r]) \in Keys
    BY <1>4, EntryShape DEF Closes, LockTypes
  <2>2. waiting' = IF On(open, KeyOf(open[r])) = {r}
                   THEN [waiting EXCEPT ![KeyOf(open[r])] = <<>>] ELSE waiting
    BY <1>4 DEF Closes, CloseIn, OpenOn, On
  <2>3. ASSUME NEW k \in Keys, waiting'[k] # <<>>
        PROVE  On(open', k) # {}
    <3>1. waiting[k] # <<>>
      BY <2>1, <2>2, <2>3 DEF LockTypes
    <3>2. On(open, k) # {}
      BY <3>1 DEF WaitersAreHeld, OpenOn, On
    <3>3. On(open, k) # {r}
      BY <2>1, <2>2, <2>3, <3>1 DEF LockTypes, OpenOn, On
    <3>4. QED
      BY <1>4, <3>2, <3>3, OpenOnCloses
  <2>4. QED
    BY <2>3 DEF WaitersAreHeld, OpenOn, On
<1>5. CASE Edits
  BY <1>5, OpenOnStays DEF Edits, WaitersAreHeld, OpenOn, On
<1>6. CASE Ends
  BY <1>6 DEF Ends, WaitersAreHeld, OpenOn, On
<1>7. QED
  BY <1>1, <1>2, <1>3, <1>4, <1>5, <1>6 DEF LockStep

-----------------------------------------------------------------------------
(* The disk.                                                               *)

DiskInv == DiskTypes /\ HeadersMatchBody /\ SidecarOfThisRow

\* No row is replaced by that of another response.
RowsShrink == \A s \in Slots : row'[s] \in {Absent, row[s]}

\* A step that leaves the disk alone keeps its invariant.
LEMMA DiskStutters == ASSUME DiskInv, UNCHANGED diskVars PROVE DiskInv' /\ RowsShrink
BY DEF DiskInv, DiskTypes, HeadersMatchBody, SidecarOfThisRow, RowsShrink, diskVars

\* Rows, files and sidecars that go together leave the rest consistent.
LEMMA RemovalKeepsDisk == ASSUME DiskInv, NEW S, RemoveSlots(S) PROVE DiskInv' /\ RowsShrink
<1>1. /\ row' = [s \in Slots |-> IF s \in S THEN Absent ELSE row[s]]
      /\ file' = [s \in Slots |-> IF s \in S THEN Absent ELSE file[s]]
      /\ sidecar' = [s \in Slots |-> IF s \in S THEN "none" ELSE sidecar[s]]
      /\ torn' = torn \ S
  BY DEF RemoveSlots, Without
<1>2. DiskTypes'
  BY <1>1 DEF DiskInv, DiskTypes
<1>3. HeadersMatchBody' /\ SidecarOfThisRow' /\ RowsShrink
  BY <1>1 DEF DiskInv, HeadersMatchBody, SidecarOfThisRow, RowsShrink
<1>4. QED
  BY <1>2, <1>3 DEF DiskInv

\* open_entry at most removes what is expired or cannot be read.
LEMMA OpenEntryDisk ==
    ASSUME DiskInv, NEW r \in Requests, NEW k \in Keys, open_entry(r, k) \/ create_entry(r, k)
    PROVE  DiskInv' /\ RowsShrink
<1>1. CASE UNCHANGED diskVars
  BY <1>1, DiskStutters
<1>2. ASSUME NEW mode, NEW openMode, open_entry_unreadable(k, mode, openMode)
      PROVE  DiskInv' /\ RowsShrink
  <2>1. PICK s \in Slots :
            /\ row' = [row EXCEPT ![s] = Absent]
            /\ file' \in {file, [file EXCEPT ![s] = Absent]}
            /\ torn' = torn \ {s} /\ sidecar' = sidecar
    BY <1>2 DEF open_entry_unreadable
  <2>2. DiskTypes'
    BY <2>1 DEF DiskInv, DiskTypes
  <2>3. HeadersMatchBody' /\ SidecarOfThisRow' /\ RowsShrink
    BY <2>1 DEF DiskInv, DiskTypes, HeadersMatchBody, SidecarOfThisRow, RowsShrink
  <2>4. QED
    BY <2>2, <2>3 DEF DiskInv
<1>3. ASSUME NEW mode, NEW openMode, open_entry_expired(k, mode, openMode)
      PROVE  DiskInv' /\ RowsShrink
  BY <1>3, RemovalKeepsDisk DEF open_entry_expired
<1>4. QED
  BY <1>1, <1>2, <1>3 DEF open_entry, open_entry_waits, open_entry_none, open_entry_opens,
         create_entry, create_entry_waits, create_entry_opens, WaitFor, cacheVars, diskVars

\* The flush of a writer makes the row and the file agree.
LEMMA FlushDisk ==
    ASSUME DiskInv, LockTypes, NEW r \in Requests, flush_succeeds(r)
    PROVE  /\ DiskInv' /\ WriterSlot(r) \in Slots
           /\ \A s \in Slots \ {WriterSlot(r)} : row'[s] \in {Absent, row[s]}
<1> DEFINE w == WriterSlot(r)
           b == Written(r)
<1>1. w \in Slots /\ b \in Bodies
  BY WriterFacts DEF flush_succeeds
<1>2. b.of = r /\ r \in Responses
  BY DEF Written, Responses
<1>3. PICK S :
        /\ row' = [s \in Slots |-> IF s \in S THEN Absent ELSE [row EXCEPT ![w] = b][s]]
        /\ file' = [s \in Slots |-> IF s \in S THEN Absent ELSE [file EXCEPT ![w] = b][s]]
        /\ sidecar' = [s \in Slots |-> IF s \in S \cup {w} THEN "none" ELSE sidecar[s]]
        /\ torn' = torn \ (S \cup {w})
  BY DEF flush_succeeds, Without
<1> HIDE DEF w, b
<1>4. DiskTypes'
  BY <1>1, <1>3 DEF DiskInv, DiskTypes
<1>5. HeadersMatchBody'
  BY <1>1, <1>3 DEF DiskInv, DiskTypes, HeadersMatchBody
<1>6. SidecarOfThisRow'
  BY <1>1, <1>3 DEF DiskInv, DiskTypes, SidecarOfThisRow
<1>7. \A s \in Slots \ {w} : row'[s] \in {Absent, row[s]}
  BY <1>1, <1>3 DEF DiskInv, DiskTypes
<1>8. QED
  BY <1>1, <1>4, <1>5, <1>6, <1>7 DEF DiskInv, w

\* A writer that does not flush, or whose row is refused, writes no row.
LEMMA WriteDisk ==
    ASSUME DiskInv, LockTypes, NEW r \in Requests, Write(r), ~flush_succeeds(r)
    PROVE  DiskInv' /\ RowsShrink
<1>1. CASE UNCHANGED diskVars
  BY <1>1, DiskStutters
<1>2. CASE flush_refused(r)
  BY <1>2, RemovalKeepsDisk DEF flush_refused
<1>3. CASE flush_interrupted(r)
  <2> DEFINE w == WriterSlot(r)
             b == Written(r)
  <2>1. w \in Slots /\ b \in Bodies
    BY <1>3, WriterFacts DEF flush_interrupted
  <2>2. file' = [file EXCEPT ![w] = b] /\ torn' = torn \cup {w} /\ row' = row /\ sidecar' = sidecar
    BY <1>3 DEF flush_interrupted
  <2> HIDE DEF w, b
  <2>3. QED
    BY <2>1, <2>2 DEF DiskInv, DiskTypes, HeadersMatchBody, SidecarOfThisRow, RowsShrink
<1>4. QED
  BY <1>1, <1>2, <1>3 DEF Write, flush, write_status_and_reason, write_data, write_fails, diskVars

\* A reader at most removes its own entry.
LEMMA ReadDisk ==
    ASSUME DiskInv, NEW r \in Requests, Read(r)
    PROVE  DiskInv' /\ RowsShrink
<1>1. CASE UNCHANGED diskVars
  BY <1>1, DiskStutters
<1>2. CASE RemoveAndClose(r)
  BY <1>2, RemovalKeepsDisk DEF RemoveAndClose
<1>3. QED
  BY <1>1, <1>2 DEF Read, revalidation_succeeded, revalidation_failed, send_blocks, send_complete,
         send_error, take_body_file, take_body_file_fails, diskVars

\* Associated data is stored under the row that is there, and rows may be evicted.
LEMMA StoreDisk ==
    ASSUME DiskInv, NEW s \in Slots, store_associated_data(s)
    PROVE  DiskInv' /\ RowsShrink
<1>1. row[s] \in Bodies
  BY DEF store_associated_data, DiskInv, DiskTypes
<1>2. row[s].of \in Responses
  BY <1>1 DEF Bodies
<1>3. PICK S :
        /\ row' = [t \in Slots |-> IF t \in S THEN Absent ELSE row[t]]
        /\ file' = [t \in Slots |-> IF t \in S THEN Absent ELSE file[t]]
        /\ sidecar' = [t \in Slots |-> IF t \in S THEN "none"
                                       ELSE [sidecar EXCEPT ![s] = row[s].of][t]]
        /\ torn' = torn \ S
  BY DEF store_associated_data, Without
<1>4. DiskTypes'
  BY <1>2, <1>3 DEF DiskInv, DiskTypes
<1>5. HeadersMatchBody' /\ RowsShrink
  BY <1>3 DEF DiskInv, HeadersMatchBody, RowsShrink
<1>6. SidecarOfThisRow'
  BY <1>3 DEF DiskInv, DiskTypes, SidecarOfThisRow
<1>7. QED
  BY <1>4, <1>5, <1>6 DEF DiskInv

\* What a crash leaves of a flush or a deletion is consistent, or torn.
LEMMA CrashDisk == ASSUME DiskInv, LockTypes, Crash PROVE DiskInv' /\ RowsShrink
<1>1. CASE UNCHANGED diskVars
  BY <1>1, DiskStutters
<1>2. ASSUME NEW r \in Requests, FlushCutShort(r)
      PROVE  DiskInv' /\ RowsShrink
  <2> DEFINE w == WriterSlot(r)
             b == Written(r)
  <2>1. w \in Slots /\ b \in Bodies
    BY <1>2, WriterFacts DEF FlushCutShort
  <2>2. /\ file' = [file EXCEPT ![w] = b] /\ torn' = torn \cup {w}
        /\ sidecar' \in {sidecar, [sidecar EXCEPT ![w] = "none"]}
        /\ row' \in {row, [row EXCEPT ![w] = Absent]}
    BY <1>2 DEF FlushCutShort
  <2> HIDE DEF w, b
  <2>3. DiskTypes'
    BY <2>1, <2>2 DEF DiskInv, DiskTypes
  <2>4. HeadersMatchBody' /\ SidecarOfThisRow' /\ RowsShrink
    BY <2>1, <2>2 DEF DiskInv, DiskTypes, HeadersMatchBody, SidecarOfThisRow, RowsShrink
  <2>5. QED
    BY <2>3, <2>4 DEF DiskInv
<1>3. ASSUME NEW S, DeletionCutShort(S)
      PROVE  DiskInv' /\ RowsShrink
  <2>1. CASE /\ file' = [t \in Slots |-> IF t \in S THEN Absent ELSE file[t]]
             /\ sidecar' \in {sidecar, [t \in Slots |-> IF t \in S THEN "none" ELSE sidecar[t]]}
             /\ row' = row /\ torn' = torn
    <3>1. DiskTypes'
      BY <2>1 DEF DiskInv, DiskTypes
    <3>2. HeadersMatchBody' /\ SidecarOfThisRow' /\ RowsShrink
      BY <2>1 DEF DiskInv, DiskTypes, HeadersMatchBody, SidecarOfThisRow, RowsShrink
    <3>3. QED
      BY <3>1, <3>2 DEF DiskInv
  <2>2. CASE /\ row' = [t \in Slots |-> IF t \in S THEN Absent ELSE row[t]]
             /\ file' = file /\ sidecar' = sidecar /\ torn' = torn
    <3>1. DiskTypes'
      BY <2>2 DEF DiskInv, DiskTypes
    <3>2. HeadersMatchBody' /\ SidecarOfThisRow' /\ RowsShrink
      BY <2>2 DEF DiskInv, DiskTypes, HeadersMatchBody, SidecarOfThisRow, RowsShrink
    <3>3. QED
      BY <3>1, <3>2 DEF DiskInv
  <2>3. QED
    BY <1>3, <2>1, <2>2 DEF DeletionCutShort, Without
<1>4. QED
  BY <1>1, <1>2, <1>3 DEF Crash

\* Every step keeps what is on disk in order, and only a flush writes a row.
LEMMA NextKeepsDisk ==
    ASSUME DiskInv, LockTypes, [Next]_cacheVars
    PROVE  DiskInv' /\ (RowsShrink \/ \E r \in Requests : flush_succeeds(r))
<1>1. ASSUME NEW r \in Requests, NEW k \in Keys, open_entry(r, k) \/ create_entry(r, k)
      PROVE  DiskInv' /\ RowsShrink
  BY <1>1, OpenEntryDisk
<1>2. ASSUME NEW r \in Requests, Write(r)
      PROVE  DiskInv' /\ (RowsShrink \/ flush_succeeds(r))
  BY <1>2, WriteDisk, FlushDisk
<1>3. ASSUME NEW r \in Requests, Read(r) \/ notify_request_unblocked(r) \/ Destroy(r)
      PROVE  DiskInv' /\ RowsShrink
  BY <1>3, ReadDisk, DiskStutters DEF notify_request_unblocked, Destroy, diskVars
<1>4. ASSUME NEW s \in Slots, store_associated_data(s)
      PROVE  DiskInv' /\ RowsShrink
  BY <1>4, StoreDisk
<1>5. CASE remove_entries_accessed_since
  BY <1>5, RemovalKeepsDisk DEF remove_entries_accessed_since
<1>6. CASE Crash
  BY <1>6, CrashDisk
<1>7. CASE UNCHANGED cacheVars
  BY <1>7, DiskStutters DEF cacheVars, diskVars
<1>8. QED
  BY <1>1, <1>2, <1>3, <1>4, <1>5, <1>6, <1>7 DEF Next

-----------------------------------------------------------------------------
(* Readers and rows.                                                       *)

\* A step that writes no row leaves readers with theirs.
LEMMA ReadersKeepRows ==
    ASSUME LockTypes, DiskTypes, ReaderIsCurrent, LockStep, RowsShrink
    PROVE  ReaderIsCurrent'
<1>1. ASSUME NEW q \in Requests, open'[q].kind = "reader", Same(open'[q], open[q])
      PROVE  row'[open'[q].slot] \in {Absent, open'[q].row}
  <2>1. IsReader(q) /\ open'[q].slot = open[q].slot /\ open'[q].row = open[q].row
    BY <1>1 DEF Same, IsReader
  <2>2. open[q].slot \in Slots /\ row[open[q].slot] \in {Absent, open[q].row}
    BY <2>1, ReaderFacts DEF ReaderIsCurrent
  <2>3. QED
    BY <2>1, <2>2 DEF RowsShrink
<1>2. ASSUME NEW r \in Requests, NEW k \in Keys, Waits(r, k)
      PROVE  ReaderIsCurrent'
  BY <1>1, <1>2 DEF Waits, WaitFor, ReaderIsCurrent, IsReader, Same
<1>3. ASSUME NEW r \in Requests, NEW k \in Keys, Creates(r, k)
      PROVE  ReaderIsCurrent'
  <2>1. \A q \in Requests : q # r => open'[q] = open[q]
    BY <1>3 DEF Creates, create_entry_opens, LockTypes
  <2>2. open'[r].kind = "writer"
    BY <1>3 DEF Creates, create_entry_opens, LockTypes
  <2>3. QED
    BY <1>1, <2>1, <2>2 DEF ReaderIsCurrent, IsReader, Same
<1>4. ASSUME NEW r \in Requests, Opens(r)
      PROVE  ReaderIsCurrent'
  <2>0. PICK k \in Keys, openMode \in OpenModes, mode \in CacheModes, type \in RevalidationTypes :
            open_entry_opens(r, k, mode, openMode, type)
    BY <1>4 DEF Opens
  <2>1. PICK s \in Slots :
            open' = [open EXCEPT ![r] =
                    [kind |-> "reader", slot |-> s, marked |-> FALSE, type |-> type,
                     row |-> row[s], body |-> file[s], sending |-> FALSE]]
    BY <2>0 DEF open_entry_opens
  <2>2. \A q \in Requests : q # r => open'[q] = open[q]
    BY <2>1 DEF LockTypes
  <2>3. open'[r].slot = s /\ open'[r].row = row[s]
    BY <2>1 DEF LockTypes
  <2>4. row' = row
    BY <2>0 DEF open_entry_opens, diskVars
  <2>5. QED
    BY <1>1, <2>2, <2>3, <2>4 DEF ReaderIsCurrent, IsReader, Same
<1>5. ASSUME NEW r \in Requests, Closes(r)
      PROVE  ReaderIsCurrent'
  <2>1. PICK o : EntriesStay(o) /\ open' = [o EXCEPT ![r] = NoEntry]
    BY <1>5 DEF Closes, CloseIn
  <2>2. \A q \in Requests : open'[q].kind = "reader" => Same(open'[q], open[q])
    BY <2>1 DEF EntriesStay, NoEntry
  <2>3. QED
    BY <1>1, <2>2 DEF ReaderIsCurrent, IsReader
<1>6. CASE Edits
  BY <1>1, <1>6 DEF Edits, EntriesStay, ReaderIsCurrent, IsReader
<1>7. CASE Ends
  BY <1>7 DEF Ends, ReaderIsCurrent, IsReader, NoEntry
<1>8. QED
  BY <1>2, <1>3, <1>4, <1>5, <1>6, <1>7 DEF LockStep

\* The flush of a writer does write one; but then nobody reads under that key.
LEMMA FlushKeepsReaders ==
    ASSUME LockTypes, DiskInv, ExclusiveEntries, ReaderIsCurrent,
           NEW r \in Requests, flush_succeeds(r)
    PROVE  ReaderIsCurrent'
<1>1. PICK o : EntriesStay(o) /\ open' = [o EXCEPT ![r] = NoEntry]
  <2>1. PICK S : CloseIn(MarkForDeletion(S), r)
    BY DEF flush_succeeds
  <2>2. QED
    BY <2>1, MarkKeeps DEF EntriesStay, CloseIn
<1>2. IsWriter(r) /\ OpenOn(open[r].key) = {r}
  BY WriterFacts DEF flush_succeeds, ExclusiveEntries
<1>3. ASSUME NEW q \in Requests, open'[q].kind = "reader"
      PROVE  row'[open'[q].slot] \in {Absent, open'[q].row}
  <2>1. q # r /\ Same(open'[q], open[q])
    BY <1>1, <1>3 DEF EntriesStay, NoEntry
  <2>2. IsReader(q) /\ open'[q].slot = open[q].slot /\ open'[q].row = open[q].row
    BY <1>3, <2>1 DEF Same, IsReader
  <2>3. /\ open[q].slot \in Slots /\ KeyOf(open[q]) = open[q].slot[1] /\ open[q] # NoEntry
        /\ row[open[q].slot] \in {Absent, open[q].row}
    BY <2>2, ReaderFacts DEF ReaderIsCurrent
  <2>4. open[q].slot[1] # open[r].key
    BY <1>2, <2>1, <2>3 DEF OpenOn
  <2>5. open[q].slot # WriterSlot(r)
    BY <2>4 DEF WriterSlot
  <2>6. row'[open[q].slot] \in {Absent, row[open[q].slot]}
    BY <2>3, <2>5, FlushDisk
  <2>7. QED
    BY <2>2, <2>3, <2>6
<1>4. QED
  BY <1>3 DEF ReaderIsCurrent, IsReader

-----------------------------------------------------------------------------
(* The theorems.                                                           *)

CacheInv ==
    LockTypes /\ DiskInv /\ ExclusiveEntries /\ WaitersAreHeld /\ ReaderIsCurrent

\* The invariant holds of the entries that an earlier process stored.
LEMMA CacheInit == Init => CacheInv
<1> SUFFICES ASSUME Init PROVE CacheInv
  OBVIOUS
<1>1. LockTypes
  BY DEF Init, LockTypes, Entries
<1>2. DiskTypes
  BY DiskCacheAssumption DEF Init, DiskTypes, DiskCacheAssumption, Bodies, Responses
<1>3. DiskInv
  BY <1>2 DEF Init, DiskInv, HeadersMatchBody, SidecarOfThisRow
<1>4. ExclusiveEntries /\ ReaderIsCurrent
  BY DEF Init, ExclusiveEntries, ReaderIsCurrent, IsWriter, IsReader, is_revalidation_request, NoEntry
<1>5. WaitersAreHeld
  BY DEF Init, WaitersAreHeld
<1>6. QED
  BY <1>1, <1>3, <1>4, <1>5 DEF CacheInv

\* Every step of the cache keeps the invariant: it is inductive.
LEMMA CacheNext == CacheInv /\ [Next]_cacheVars => CacheInv'
<1> SUFFICES ASSUME CacheInv, [Next]_cacheVars PROVE CacheInv'
  OBVIOUS
<1>1. LockStep
  BY NextIsLockStep DEF CacheInv
<1>2. DiskInv' /\ (RowsShrink \/ \E r \in Requests : flush_succeeds(r))
  BY NextKeepsDisk DEF CacheInv
<1>3. LockTypes'
  BY <1>1, LockTypesKept DEF CacheInv, DiskInv
<1>4. ExclusiveEntries' /\ WaitersAreHeld'
  BY <1>1, <1>3, ExclusiveKept, WaitersKept DEF CacheInv
<1>5. ReaderIsCurrent'
  BY <1>1, <1>2, ReadersKeepRows, FlushKeepsReaders DEF CacheInv, DiskInv
<1>6. QED
  BY <1>2, <1>3, <1>4, <1>5 DEF CacheInv

\* The invariant of the disk cache holds for any requests, keys, vary keys and
\* sizes of bodies, with crashes at any time.
THEOREM CacheInvariance == Spec => []CacheInv
BY CacheInit, CacheNext, PTL DEF Spec

\* The open entries, the queues of waiting and resumed requests and what is on disk
\* keep their types; no batch of requests to resume is empty.
THEOREM CacheTypeCorrect == Spec => []TypeOK
<1>1. CacheInv => TypeOK
  BY TypeParts DEF CacheInv, DiskInv
<1>2. QED
  BY <1>1, CacheInvariance, PTL

\* check_if_cache_has_open_entry excludes: a writer, and a reader that is being
\* revalidated, have their key for themselves, however many requests there are.
THEOREM WritersExclude == Spec => []ExclusiveEntries
<1>1. CacheInv => ExclusiveEntries
  BY DEF CacheInv
<1>2. QED
  BY <1>1, CacheInvariance, PTL

\* cache_entry_closed forgets nobody: where requests wait an entry is open, whose
\* closing will resume them.
THEOREM WaitersHaveAnEntry == Spec => []WaitersAreHeld
<1>1. CacheInv => WaitersAreHeld
  BY DEF CacheInv
<1>2. QED
  BY <1>1, CacheInvariance, PTL

\* No flush replaces the row of an entry that is being read.
THEOREM ReadersStayCurrent == Spec => []ReaderIsCurrent
<1>1. CacheInv => ReaderIsCurrent
  BY DEF CacheInv
<1>2. QED
  BY <1>1, CacheInvariance, PTL

\* The body file belongs to the row of the index, unless a flush was cut short
\* between the two (torn).
THEOREM RowsHaveTheirBody == Spec => []HeadersMatchBody
<1>1. CacheInv => HeadersMatchBody
  BY DEF CacheInv, DiskInv
<1>2. QED
  BY <1>1, CacheInvariance, PTL

\* Associated data belongs to the row it is found with, crashes included: flush
\* drops what an older response left before the new row is made.
THEOREM SidecarsBelong == Spec => []SidecarOfThisRow
<1>1. CacheInv => SidecarOfThisRow
  BY DEF CacheInv, DiskInv
<1>2. QED
  BY <1>1, CacheInvariance, PTL

-----------------------------------------------------------------------------
(* Nobody waits twice.                                                     *)

\* A request is at most once in the queues of those that wait ...
QueuedOnce ==
    \A k, l \in Keys : \A i \in 1..Len(waiting[k]), j \in 1..Len(waiting[l]) :
        waiting[k][i] = waiting[l][j] => k = l /\ i = j

\* ... at most once in the batches of those that are to be resumed ...
ResumedOnce ==
    \A a, b \in 1..Len(deferred) : \A i \in 1..Len(deferred[a]), j \in 1..Len(deferred[b]) :
        deferred[a][i] = deferred[b][j] => a = b /\ i = j

\* ... and never in both.
QueuedOrResumed ==
    \A k \in Keys, a \in 1..Len(deferred) :
        \A i \in 1..Len(waiting[k]), j \in 1..Len(deferred[a]) : waiting[k][i] # deferred[a][j]

WaitsOnce == QueuedOnce /\ ResumedOnce /\ QueuedOrResumed

\* Whoever waits has no entry.
WaitersHaveNone == \A r \in Requests : Waiting(r) => open[r] = NoEntry

\* r is in one of the queues w or in one of the batches d, as Waiting puts it ...
AmongElements(w, d, r) ==
    \/ \E k \in Keys : r \in Elements(w[k])
    \/ \E i \in DOMAIN d : r \in Elements(d[i])

\* ... and by its position.
AtSomePlace(w, d, r) ==
    \/ \E k \in Keys : \E i \in 1..Len(w[k]) : r = w[k][i]
    \/ \E a \in 1..Len(d) : \E i \in 1..Len(d[a]) : r = d[a][i]

\* A request waits if it is somewhere in a queue or in a batch.
LEMMA QueuedMeans ==
    ASSUME NEW w \in [Keys -> Seq(Requests)], NEW d \in Seq(Seq(Requests) \ {<<>>}), NEW r
    PROVE  AmongElements(w, d, r) <=> AtSomePlace(w, d, r)
<1> DEFINE B == Seq(Requests) \ {<<>>}
<1>1. \A k \in Keys : DOMAIN w[k] = 1..Len(w[k])
  OBVIOUS
<1>2. d \in Seq(B)
  OBVIOUS
<1>3. DOMAIN d = 1..Len(d) /\ \A a \in DOMAIN d : d[a] \in B
  <2> HIDE DEF B
  <2> QED
    BY <1>2
<1>4. \A a \in 1..Len(d) : DOMAIN d[a] = 1..Len(d[a])
  BY <1>3
<1> QED
  BY <1>1, <1>3, <1>4, Zenon DEF Elements, AmongElements, AtSomePlace

\* The same of the present state and of the next one.
LEMMA WaitingMeans ==
    ASSUME NEW r
    PROVE  /\ LockTypes => (Waiting(r) <=> AtSomePlace(waiting, deferred, r))
           /\ LockTypes' => (Waiting(r)' <=> AtSomePlace(waiting', deferred', r))
<1>1. LockTypes => AmongElements(waiting, deferred, r) <=> AtSomePlace(waiting, deferred, r)
  BY QueuedMeans DEF LockTypes
<1>2. LockTypes' => AmongElements(waiting', deferred', r) <=> AtSomePlace(waiting', deferred', r)
  BY QueuedMeans DEF LockTypes
<1>3. /\ Waiting(r) <=> AmongElements(waiting, deferred, r)
      /\ Waiting(r)' <=> AmongElements(waiting', deferred', r)
  BY DEF Waiting, AmongElements
<1> QED
  BY <1>1, <1>2, <1>3

\* The batches and their number, for the provers.
LEMMA Batches ==
    ASSUME LockTypes
    PROVE  /\ deferred \in Seq(Seq(Requests)) /\ Len(deferred) \in Nat
           /\ \A a \in 1..Len(deferred) :
                deferred[a] \in Seq(Requests) /\ deferred[a] # <<>> /\ Len(deferred[a]) \in Nat \ {0}
<1> DEFINE B == Seq(Requests) \ {<<>>}
<1>1. deferred \in Seq(B)
  BY DEF LockTypes
<1>2. Len(deferred) \in Nat /\ \A a \in 1..Len(deferred) : deferred[a] \in B
  <2> HIDE DEF B
  <2> QED
    BY <1>1
<1>3. deferred \in Seq(Seq(Requests))
  <2>1. B \subseteq Seq(Requests)
    OBVIOUS
  <2> HIDE DEF B
  <2> QED
    BY <1>1, <2>1
<1>4. \A s \in B : s \in Seq(Requests) /\ s # <<>> /\ Len(s) \in Nat \ {0}
  BY EmptySeq, LenProperties
<1> QED
  BY <1>2, <1>3, <1>4

\* WaitFor adds the request to one queue.
LEMMA WaitForAdds ==
    ASSUME LockTypes, NEW r \in Requests, NEW k \in Keys, WaitFor(r, k)
    PROVE  /\ deferred' = deferred /\ open' = open
           /\ Len(waiting'[k]) = Len(waiting[k]) + 1 /\ Len(waiting[k]) \in Nat
           /\ waiting'[k][Len(waiting[k]) + 1] = r
           /\ \A i \in 1..Len(waiting[k]) : waiting'[k][i] = waiting[k][i]
           /\ \A l \in Keys \ {k} : waiting'[l] = waiting[l]
<1>1. /\ deferred' = deferred /\ open' = open
      /\ waiting' = [waiting EXCEPT ![k] = Append(@, r)]
  BY DEF WaitFor
<1>2. waiting \in [Keys -> Seq(Requests)] /\ waiting[k] \in Seq(Requests)
  BY DEF LockTypes
<1>3. waiting'[k] = Append(waiting[k], r) /\ \A l \in Keys \ {k} : waiting'[l] = waiting[l]
  BY <1>1, <1>2
<1> QED
  BY <1>1, <1>2, <1>3

\* cache_entry_closed moves a whole queue to the end of the batches, or nobody.
LEMMA CloseMoves ==
    ASSUME LockTypes, NEW r \in Requests, open[r] # NoEntry, NEW o, CloseIn(o, r)
    PROVE  \/ /\ waiting' = waiting /\ deferred' = deferred
           \/ \E k \in Keys :
                /\ waiting'[k] = <<>> /\ Len(waiting'[k]) = 0
                /\ \A l \in Keys \ {k} : waiting'[l] = waiting[l]
                /\ \/ deferred' = deferred
                   \/ /\ Len(deferred') = Len(deferred) + 1
                      /\ deferred'[Len(deferred) + 1] = waiting[k]
                      /\ \A a \in 1..Len(deferred) : deferred'[a] = deferred[a]
<1> DEFINE k == KeyOf(open[r])
<1>1. k \in Keys
  BY EntryShape DEF LockTypes
<1>2. /\ waiting' \in {waiting, [waiting EXCEPT ![k] = <<>>]}
      /\ deferred' \in {deferred, Append(deferred, waiting[k])}
      /\ waiting' = waiting => deferred' = deferred \/ waiting'[k] = <<>>
  <2>1. CASE OpenOn(k) = {r}
    BY <1>1, <2>1 DEF CloseIn, LockTypes
  <2>2. CASE OpenOn(k) # {r}
    BY <2>2 DEF CloseIn
  <2> QED
    BY <2>1, <2>2
<1>3. waiting \in [Keys -> Seq(Requests)] /\ deferred \in Seq(Seq(Requests))
  BY Batches DEF LockTypes
<1>4. waiting[k] \in Seq(Requests)
  BY <1>1, <1>3
<1> HIDE DEF k
<1>5. deferred' # deferred => /\ Len(deferred') = Len(deferred) + 1
                              /\ deferred'[Len(deferred) + 1] = waiting[k]
                              /\ \A a \in 1..Len(deferred) : deferred'[a] = deferred[a]
  <2> DEFINE S == Seq(Requests)
  <2>1. deferred \in Seq(S) /\ waiting[k] \in S
    BY <1>3, <1>4
  <2> HIDE DEF S
  <2> QED
    BY <1>2, <2>1
<1>6. \A l \in Keys \ {k} : waiting'[l] = waiting[l]
  BY <1>1, <1>2, <1>3
<1>7. waiting' = waiting \/ waiting'[k] = <<>>
  BY <1>1, <1>2, <1>3
<1>8. Len(<<>>) = 0
  OBVIOUS
<1> QED
  BY <1>1, <1>2, <1>5, <1>6, <1>7, <1>8

\* notify_request_unblocked takes the first request of the first batch.
LEMMA NotifyTakes ==
    ASSUME LockTypes, NEW r \in Requests, notify_request_unblocked(r)
    PROVE  /\ waiting' = waiting /\ open' = open
           /\ Len(deferred) > 0 /\ r = deferred[1][1]
           /\ \/ /\ Len(deferred[1]) = 1 /\ Len(deferred') = Len(deferred) - 1
                 /\ \A a \in 1..Len(deferred') : deferred'[a] = deferred[a + 1]
              \/ /\ Len(deferred[1]) > 1 /\ Len(deferred') = Len(deferred)
                 /\ Len(deferred'[1]) = Len(deferred[1]) - 1
                 /\ \A i \in 1..Len(deferred'[1]) : deferred'[1][i] = deferred[1][i + 1]
                 /\ \A a \in 2..Len(deferred') : deferred'[a] = deferred[a]
<1> DEFINE S == Seq(Requests)
           h == Head(deferred)
<1>1. /\ deferred # <<>> /\ r = Head(h) /\ waiting' = waiting /\ open' = open
      /\ deferred' = (IF Len(h) = 1 THEN <<>> ELSE <<Tail(h)>>) \o Tail(deferred)
  BY DEF notify_request_unblocked
<1>2. deferred \in Seq(S) /\ Len(deferred) \in Nat
  BY Batches
<1>3. Len(deferred) > 0 /\ h = deferred[1]
  <2> HIDE DEF S
  <2> QED
    BY <1>1, <1>2
<1>4. h \in S /\ h # <<>> /\ Len(h) \in Nat \ {0}
  <2>1. 1 \in 1..Len(deferred)
    BY <1>2, <1>3
  <2> QED
    BY <1>3, <2>1, Batches
<1>5. r = h[1] /\ Tail(h) \in S /\ Len(Tail(h)) = Len(h) - 1
      /\ \A i \in 1..(Len(h) - 1) : Tail(h)[i] = h[i + 1]
  <2> HIDE DEF h
  <2> QED
    BY <1>1, <1>4
<1>6. Tail(deferred) \in Seq(S) /\ Len(Tail(deferred)) = Len(deferred) - 1
      /\ \A a \in 1..(Len(deferred) - 1) : Tail(deferred)[a] = deferred[a + 1]
  <2> HIDE DEF S
  <2> QED
    BY <1>1, <1>2
<1>7. CASE Len(h) = 1
  <2>1. deferred' = Tail(deferred)
    <3> HIDE DEF S
    <3> QED
      BY <1>1, <1>6, <1>7
  <2> QED
    BY <1>1, <1>3, <1>5, <1>6, <1>7, <2>1
<1>8. CASE Len(h) # 1
  <2>1. deferred' = <<Tail(h)>> \o Tail(deferred)
    BY <1>1, <1>8
  <2>2. /\ Len(deferred') = Len(deferred) /\ deferred'[1] = Tail(h)
        /\ \A a \in 2..Len(deferred) : deferred'[a] = deferred[a]
    <3> DEFINE t == Tail(h)
               u == Tail(deferred)
    <3>1. <<t>> \in Seq(S) /\ Len(<<t>>) = 1 /\ <<t>>[1] = t
      BY <1>5
    <3>2. u \in Seq(S) /\ Len(u) = Len(deferred) - 1 /\ deferred' = <<t>> \o u
      BY <1>6, <2>1
    <3>3. \A a \in 2..Len(deferred) : u[a - 1] = deferred[a]
      <4> SUFFICES ASSUME NEW a \in 2..Len(deferred) PROVE u[a - 1] = deferred[a]
        OBVIOUS
      <4>1. a - 1 \in 1..(Len(deferred) - 1) /\ (a - 1) + 1 = a
        BY <1>2
      <4> QED
        BY <1>6, <4>1
    <3> HIDE DEF S, t, u
    <3>4. /\ Len(deferred') = 1 + Len(u) /\ deferred'[1] = t
          /\ \A a \in 2..(1 + Len(u)) : deferred'[a] = u[a - 1]
      BY <3>1, <3>2
    <3>5. 1 + Len(u) = Len(deferred)
      BY <1>2, <3>2
    <3> QED
      BY <3>3, <3>4, <3>5 DEF t
  <2> HIDE DEF h, S
  <2>3. Len(h) > 1
    <3>1. \A n \in Nat \ {0} : n # 1 => n > 1
      OBVIOUS
    <3> QED
      BY <1>4, <1>8, <3>1
  <2> QED
    BY <1>1, <1>3, <1>5, <2>2, <2>3
<1> QED
  BY <1>7, <1>8

\* Nothing that the cache does by itself makes a request wait.
LEMMA CloseWaiting ==
    ASSUME LockTypes, LockTypes', NEW r \in Requests, open[r] # NoEntry, NEW o, CloseIn(o, r),
           NEW p, Waiting(p)'
    PROVE  Waiting(p)
<1>1. \/ \E k \in Keys : \E i \in 1..Len(waiting'[k]) : p = waiting'[k][i]
      \/ \E a \in 1..Len(deferred') : \E i \in 1..Len(deferred'[a]) : p = deferred'[a][i]
  BY WaitingMeans DEF AtSomePlace
<1> DEFINE W == AtSomePlace(waiting, deferred, p)
<1>2. W
  <2>1. CASE waiting' = waiting /\ deferred' = deferred
    BY <1>1, <2>1 DEF AtSomePlace
  <2>2. ASSUME NEW k \in Keys, Len(waiting'[k]) = 0,
               \A l \in Keys \ {k} : waiting'[l] = waiting[l],
               \/ deferred' = deferred
               \/ /\ Len(deferred') = Len(deferred) + 1
                  /\ deferred'[Len(deferred) + 1] = waiting[k]
                  /\ \A a \in 1..Len(deferred) : deferred'[a] = deferred[a]
        PROVE  W
    <3>1. ASSUME NEW l \in Keys, NEW i \in 1..Len(waiting'[l]), p = waiting'[l][i] PROVE W
      <4>1. l # k
        BY <2>2, <3>1
      <4> QED
        BY <2>2, <3>1, <4>1 DEF AtSomePlace
    <3>2. ASSUME NEW a \in 1..Len(deferred'), NEW i \in 1..Len(deferred'[a]), p = deferred'[a][i]
          PROVE  W
      <4>1. CASE deferred' = deferred
        BY <3>2, <4>1 DEF AtSomePlace
      <4>2. CASE a \in 1..Len(deferred) /\ deferred'[a] = deferred[a]
        BY <3>2, <4>2 DEF AtSomePlace
      <4>3. CASE a = Len(deferred) + 1 /\ deferred'[a] = waiting[k]
        BY <3>2, <4>3 DEF AtSomePlace
      <4>4. Len(deferred) \in Nat
        BY Batches
      <4> QED
        BY <2>2, <4>1, <4>2, <4>3, <4>4
    <3> QED
      BY <1>1, <3>1, <3>2
  <2> QED
    BY <2>1, <2>2, CloseMoves
<1> QED
  BY <1>2, WaitingMeans

\* WaitFor makes one request wait.
LEMMA WaitForWaiting ==
    ASSUME LockTypes, LockTypes', NEW r \in Requests, NEW k \in Keys, WaitFor(r, k),
           NEW p, Waiting(p)'
    PROVE  Waiting(p) \/ p = r
<1>1. AtSomePlace(waiting', deferred', p)
  BY WaitingMeans
<1>2. ASSUME NEW l \in Keys, NEW i \in 1..Len(waiting'[l]), p = waiting'[l][i]
      PROVE  AtSomePlace(waiting, deferred, p) \/ p = r
  <2>1. CASE l # k
    BY <1>2, <2>1, WaitForAdds DEF AtSomePlace
  <2>2. CASE l = k
    <3>1. i \in 1..Len(waiting[k]) \/ i = Len(waiting[k]) + 1
      BY <1>2, <2>2, WaitForAdds
    <3> QED
      BY <1>2, <2>2, <3>1, WaitForAdds DEF AtSomePlace
  <2> QED
    BY <2>1, <2>2
<1>3. deferred' = deferred
  BY WaitForAdds
<1>4. AtSomePlace(waiting, deferred, p) \/ p = r
  BY <1>1, <1>2, <1>3 DEF AtSomePlace
<1> QED
  BY <1>4, WaitingMeans

\* notify_request_unblocked makes nobody wait, and its request wait no more.
LEMMA NotifyWaiting ==
    ASSUME LockTypes, LockTypes', NEW r \in Requests, notify_request_unblocked(r),
           NEW p, Waiting(p)'
    PROVE  Waiting(p) /\ (WaitsOnce => p # r)
<1>1. AtSomePlace(waiting', deferred', p)
  BY WaitingMeans
<1>2. /\ waiting' = waiting /\ Len(deferred) > 0 /\ r = deferred[1][1]
      /\ Len(deferred) \in Nat /\ 1 \in 1..Len(deferred)
      /\ Len(deferred[1]) \in Nat \ {0} /\ 1 \in 1..Len(deferred[1])
  <2>1. waiting' = waiting /\ Len(deferred) > 0 /\ r = deferred[1][1]
    BY NotifyTakes
  <2>2. Len(deferred) \in Nat /\ 1 \in 1..Len(deferred)
    BY <2>1, Batches
  <2>3. Len(deferred[1]) \in Nat \ {0}
    BY <2>2, Batches
  <2> QED
    BY <2>1, <2>2, <2>3
<1> DEFINE G == AtSomePlace(waiting, deferred, p) /\ (WaitsOnce => p # r)
<1>3. ASSUME NEW l \in Keys, NEW i \in 1..Len(waiting[l]), p = waiting[l][i]
      PROVE  G
  BY <1>2, <1>3 DEF AtSomePlace, WaitsOnce, QueuedOrResumed
<1>4. ASSUME NEW a \in 1..Len(deferred), NEW i \in 1..Len(deferred[a]), p = deferred[a][i],
             a # 1 \/ i # 1
      PROVE  G
  BY <1>2, <1>4 DEF AtSomePlace, WaitsOnce, ResumedOnce
<1>5. ASSUME NEW a \in 1..Len(deferred'), NEW i \in 1..Len(deferred'[a]), p = deferred'[a][i]
      PROVE  G
  <2>1. CASE /\ Len(deferred') = Len(deferred) - 1
             /\ \A b \in 1..Len(deferred') : deferred'[b] = deferred[b + 1]
    <3>1. a + 1 \in 1..Len(deferred) /\ a + 1 # 1 /\ deferred'[a] = deferred[a + 1]
      BY <1>2, <2>1
    <3> QED
      BY <1>4, <1>5, <3>1
  <2>2. CASE /\ Len(deferred') = Len(deferred) /\ Len(deferred[1]) > 1
             /\ Len(deferred'[1]) = Len(deferred[1]) - 1
             /\ \A j \in 1..Len(deferred'[1]) : deferred'[1][j] = deferred[1][j + 1]
             /\ \A b \in 2..Len(deferred') : deferred'[b] = deferred[b]
    <3>1. CASE a = 1
      <4>1. i + 1 \in 1..Len(deferred[1]) /\ i + 1 # 1 /\ deferred'[1][i] = deferred[1][i + 1]
        BY <1>2, <2>2, <3>1
      <4> QED
        BY <1>2, <1>4, <1>5, <3>1, <4>1
    <3>2. CASE a # 1
      <4>1. a \in 1..Len(deferred) /\ deferred'[a] = deferred[a]
        BY <1>2, <2>2, <3>2
      <4> QED
        BY <1>4, <1>5, <3>2, <4>1
    <3> QED
      BY <3>1, <3>2
  <2> QED
    BY <2>1, <2>2, NotifyTakes
<1>6. G
  BY <1>1, <1>2, <1>3, <1>5 DEF AtSomePlace
<1> QED
  BY <1>6, WaitingMeans

\* A request that does not wait yet can be put in a queue.
LEMMA WaitForOnce ==
    ASSUME LockTypes, WaitsOnce, NEW r \in Requests, NEW k \in Keys, ~Waiting(r), WaitFor(r, k)
    PROVE  WaitsOnce'
<1>1. ~AtSomePlace(waiting, deferred, r)
  BY WaitingMeans
<1> DEFINE n == Len(waiting[k])
<1>2. /\ deferred' = deferred /\ n \in Nat
      /\ Len(waiting'[k]) = n + 1 /\ waiting'[k][n + 1] = r
      /\ \A i \in 1..n : waiting'[k][i] = waiting[k][i]
      /\ \A l \in Keys \ {k} : waiting'[l] = waiting[l]
  BY WaitForAdds
<1>3. ASSUME NEW l \in Keys, NEW i \in 1..Len(waiting'[l])
      PROVE  \/ i \in 1..Len(waiting[l]) /\ waiting'[l][i] = waiting[l][i]
             \/ l = k /\ i = n + 1 /\ waiting'[l][i] = r
  BY <1>2
<1>4. ASSUME NEW m \in Keys, NEW l \in Keys, NEW i \in 1..Len(waiting'[m]),
             NEW j \in 1..Len(waiting'[l]), waiting'[m][i] = waiting'[l][j]
      PROVE  m = l /\ i = j
  <2> HIDE DEF n
  <2>1. CASE waiting'[m][i] = r
    <3>1. m = k /\ i = n + 1
      BY <1>1, <1>3, <1>4, <2>1 DEF AtSomePlace
    <3>2. l = k /\ j = n + 1
      BY <1>1, <1>3, <1>4, <2>1 DEF AtSomePlace
    <3> QED
      BY <3>1, <3>2
  <2>2. CASE waiting'[m][i] # r
    BY <1>3, <1>4, <2>2 DEF WaitsOnce, QueuedOnce
  <2> QED
    BY <2>1, <2>2
<1>5. ASSUME NEW l \in Keys, NEW a \in 1..Len(deferred'), NEW i \in 1..Len(waiting'[l]),
             NEW j \in 1..Len(deferred'[a])
      PROVE  waiting'[l][i] # deferred'[a][j]
  BY <1>1, <1>2, <1>3 DEF WaitsOnce, QueuedOrResumed, AtSomePlace
<1>6. ResumedOnce'
  BY <1>2 DEF WaitsOnce, ResumedOnce
<1>7. QueuedOnce'
  BY <1>4 DEF QueuedOnce
<1>8. QueuedOrResumed'
  BY <1>5 DEF QueuedOrResumed
<1> QED
  BY <1>6, <1>7, <1>8 DEF WaitsOnce

\* Those that cache_entry_closed moves from a queue to a batch are still there once.
LEMMA CloseOnce ==
    ASSUME LockTypes, WaitsOnce, NEW r \in Requests, open[r] # NoEntry, NEW o, CloseIn(o, r)
    PROVE  WaitsOnce'
<1>1. CASE waiting' = waiting /\ deferred' = deferred
  BY <1>1 DEF WaitsOnce, QueuedOnce, ResumedOnce, QueuedOrResumed
<1>2. ASSUME NEW k \in Keys, Len(waiting'[k]) = 0,
             \A l \in Keys \ {k} : waiting'[l] = waiting[l],
             \/ deferred' = deferred
             \/ /\ Len(deferred') = Len(deferred) + 1
                /\ deferred'[Len(deferred) + 1] = waiting[k]
                /\ \A a \in 1..Len(deferred) : deferred'[a] = deferred[a]
      PROVE  WaitsOnce'
  <2>1. \A l \in Keys : \A i \in 1..Len(waiting'[l]) : l # k /\ waiting'[l] = waiting[l]
    BY <1>2
  <2>2. QueuedOnce'
    BY <2>1 DEF WaitsOnce, QueuedOnce
  <2>3. CASE deferred' = deferred
    <3>1. ResumedOnce'
      BY <2>3 DEF WaitsOnce, ResumedOnce
    <3>2. QueuedOrResumed'
      BY <2>1, <2>3 DEF WaitsOnce, QueuedOrResumed
    <3> QED
      BY <2>2, <3>1, <3>2 DEF WaitsOnce
  <2>4. CASE /\ Len(deferred') = Len(deferred) + 1
             /\ deferred'[Len(deferred) + 1] = waiting[k]
             /\ \A a \in 1..Len(deferred) : deferred'[a] = deferred[a]
    <3> DEFINE n == Len(deferred)
    <3>1. \A a \in 1..Len(deferred') : \/ a \in 1..n /\ deferred'[a] = deferred[a]
                                       \/ a = n + 1 /\ deferred'[a] = waiting[k]
      BY <2>4, Batches
    <3> HIDE DEF n
    <3>2. ASSUME NEW a \in 1..Len(deferred'), NEW b \in 1..Len(deferred'),
                 NEW i \in 1..Len(deferred'[a]), NEW j \in 1..Len(deferred'[b]),
                 deferred'[a][i] = deferred'[b][j]
          PROVE  a = b /\ i = j
      <4>1. CASE a = n + 1 /\ deferred'[a] = waiting[k]
        <5>1. CASE b = n + 1 /\ deferred'[b] = waiting[k]
          BY <3>2, <4>1, <5>1 DEF WaitsOnce, QueuedOnce
        <5>2. CASE b \in 1..n /\ deferred'[b] = deferred[b]
          BY <3>2, <4>1, <5>2 DEF WaitsOnce, QueuedOrResumed, n
        <5> QED
          BY <3>1, <5>1, <5>2
      <4>2. CASE a \in 1..n /\ deferred'[a] = deferred[a]
        <5>1. CASE b = n + 1 /\ deferred'[b] = waiting[k]
          BY <3>2, <4>2, <5>1 DEF WaitsOnce, QueuedOrResumed, n
        <5>2. CASE b \in 1..n /\ deferred'[b] = deferred[b]
          BY <3>2, <4>2, <5>2 DEF WaitsOnce, ResumedOnce, n
        <5> QED
          BY <3>1, <5>1, <5>2
      <4> QED
        BY <3>1, <4>1, <4>2
    <3>3. ASSUME NEW l \in Keys, NEW a \in 1..Len(deferred'), NEW i \in 1..Len(waiting'[l]),
                 NEW j \in 1..Len(deferred'[a])
          PROVE  waiting'[l][i] # deferred'[a][j]
      <4>1. l # k /\ waiting'[l] = waiting[l]
        BY <2>1
      <4>2. CASE a = n + 1 /\ deferred'[a] = waiting[k]
        BY <4>1, <4>2 DEF WaitsOnce, QueuedOnce
      <4>3. CASE a \in 1..n /\ deferred'[a] = deferred[a]
        BY <4>1, <4>3 DEF WaitsOnce, QueuedOrResumed, n
      <4> QED
        BY <3>1, <4>2, <4>3
    <3>4. ResumedOnce'
      BY <3>2 DEF ResumedOnce
    <3>5. QueuedOrResumed'
      BY <3>3 DEF QueuedOrResumed
    <3> QED
      BY <2>2, <3>4, <3>5 DEF WaitsOnce
  <2> QED
    BY <1>2, <2>3, <2>4
<1> QED
  BY <1>1, <1>2, CloseMoves

\* So are those behind the one that is resumed.
LEMMA NotifyOnce ==
    ASSUME LockTypes, WaitsOnce, NEW r \in Requests, notify_request_unblocked(r)
    PROVE  WaitsOnce'
<1>0. waiting' = waiting /\ Len(deferred) \in Nat /\ Len(deferred) > 0 /\ 1 \in 1..Len(deferred)
  BY NotifyTakes, Batches
<1>1. CASE /\ Len(deferred') = Len(deferred) - 1
           /\ \A b \in 1..Len(deferred') : deferred'[b] = deferred[b + 1]
  <2>1. \A b \in 1..Len(deferred') : b + 1 \in 1..Len(deferred) /\ deferred'[b] = deferred[b + 1]
    BY <1>0, <1>1
  <2>2. ResumedOnce'
    <3> SUFFICES ASSUME NEW a \in 1..Len(deferred'), NEW b \in 1..Len(deferred'),
                        NEW i \in 1..Len(deferred'[a]), NEW j \in 1..Len(deferred'[b]),
                        deferred'[a][i] = deferred'[b][j]
                 PROVE  a = b /\ i = j
      BY DEF ResumedOnce
    <3>1. a + 1 = b + 1 /\ i = j
      <4> DEFINE c == a + 1
                 d == b + 1
      <4>1. /\ c \in 1..Len(deferred) /\ i \in 1..Len(deferred[c])
            /\ d \in 1..Len(deferred) /\ j \in 1..Len(deferred[d])
            /\ deferred[c][i] = deferred[d][j]
        BY <2>1
      <4> HIDE DEF c, d
      <4>2. \A u \in 1..Len(deferred[c]), v \in 1..Len(deferred[d]) :
                deferred[c][u] = deferred[d][v] => c = d /\ u = v
        BY <4>1, Zenon DEF WaitsOnce, ResumedOnce
      <4>3. c = d /\ i = j
        BY <4>1, <4>2, Zenon
      <4> QED
        BY <4>3 DEF c, d
    <3> QED
      BY <3>1
  <2>3. QueuedOrResumed'
    BY <1>0, <2>1 DEF WaitsOnce, QueuedOrResumed
  <2> QED
    BY <1>0, <2>2, <2>3 DEF WaitsOnce, QueuedOnce
<1>2. CASE /\ Len(deferred') = Len(deferred) /\ Len(deferred[1]) > 1
           /\ Len(deferred'[1]) = Len(deferred[1]) - 1
           /\ \A j \in 1..Len(deferred'[1]) : deferred'[1][j] = deferred[1][j + 1]
           /\ \A b \in 2..Len(deferred') : deferred'[b] = deferred[b]
  <2> DEFINE Moved(a, i) == IF a = 1 THEN i + 1 ELSE i
  <2>1. Len(deferred[1]) \in Nat
    BY <1>0, Batches
  <2>2. ASSUME NEW a \in 1..Len(deferred'), NEW i \in 1..Len(deferred'[a])
        PROVE  /\ a \in 1..Len(deferred) /\ Moved(a, i) \in 1..Len(deferred[a])
               /\ deferred'[a][i] = deferred[a][Moved(a, i)]
    <3>1. CASE a = 1
      BY <1>0, <1>2, <2>1, <3>1
    <3>2. CASE a # 1
      BY <1>0, <1>2, <3>2
    <3> QED
      BY <3>1, <3>2
  <2>3. ResumedOnce'
    <3> SUFFICES ASSUME NEW a \in 1..Len(deferred'), NEW b \in 1..Len(deferred'),
                        NEW i \in 1..Len(deferred'[a]), NEW j \in 1..Len(deferred'[b]),
                        deferred'[a][i] = deferred'[b][j]
                 PROVE  a = b /\ i = j
      BY DEF ResumedOnce
    <3>1. a = b /\ Moved(a, i) = Moved(b, j)
      <4> HIDE DEF Moved
      <4>1. /\ a \in 1..Len(deferred) /\ Moved(a, i) \in 1..Len(deferred[a])
            /\ b \in 1..Len(deferred) /\ Moved(b, j) \in 1..Len(deferred[b])
            /\ deferred[a][Moved(a, i)] = deferred[b][Moved(b, j)]
        BY <2>2
      <4> QED
        BY <4>1, Zenon DEF WaitsOnce, ResumedOnce
    <3> QED
      BY <3>1
  <2>4. QueuedOrResumed'
    <3> HIDE DEF Moved
    <3> SUFFICES ASSUME NEW k \in Keys, NEW a \in 1..Len(deferred'),
                        NEW i \in 1..Len(waiting'[k]), NEW j \in 1..Len(deferred'[a])
                 PROVE  waiting'[k][i] # deferred'[a][j]
      BY DEF QueuedOrResumed
    <3>1. /\ a \in 1..Len(deferred) /\ Moved(a, j) \in 1..Len(deferred[a])
          /\ deferred'[a][j] = deferred[a][Moved(a, j)]
      BY <2>2
    <3>2. i \in 1..Len(waiting[k]) /\ waiting'[k][i] = waiting[k][i]
      BY <1>0
    <3>3. waiting[k][i] # deferred[a][Moved(a, j)]
      BY <3>1, <3>2, Zenon DEF WaitsOnce, QueuedOrResumed
    <3> QED
      BY <3>1, <3>2, <3>3
  <2> QED
    BY <1>0, <2>3, <2>4 DEF WaitsOnce, QueuedOnce
<1> QED
  BY <1>1, <1>2, NotifyTakes

\* Nobody is opened an entry for while waiting, nor made to wait twice.
WaitInv == WaitsOnce /\ WaitersHaveNone

\* The five kinds of steps, by what they do to those that wait.
WaitStep ==
    \/ \E r \in Requests, k \in Keys : MayCall(r) /\ WaitFor(r, k)
    \/ /\ UNCHANGED <<waiting, deferred>>
       /\ \A p \in Requests : open[p] = NoEntry /\ ~MayCall(p) => open'[p] = NoEntry
    \/ \E r \in Requests : open[r] # NoEntry /\ \E o : EntriesStay(o) /\ CloseIn(o, r)
    \/ \E r \in Requests : notify_request_unblocked(r)
    \/ Ends

\* Every step is one of them.
LEMMA NextWaits == ASSUME LockTypes, [Next]_cacheVars PROVE WaitStep
<1>1. ASSUME NEW r \in Requests, Closes(r) PROVE WaitStep
  BY <1>1 DEF Closes, WaitStep
<1>2. ASSUME UNCHANGED <<waiting, deferred>>, EntriesStay(open') PROVE WaitStep
  BY <1>2 DEF EntriesStay, WaitStep
<1>3. ASSUME NEW r \in Requests, MayCall(r), NEW k \in Keys, open_entry(r, k) \/ create_entry(r, k)
      PROVE  WaitStep
  <2>1. CASE WaitFor(r, k)
    BY <1>3, <2>1 DEF WaitStep
  <2>2. CASE UNCHANGED lockVars
    BY <2>2, <1>2, OpenStays DEF lockVars, EntriesStay, Same
  <2>3. CASE UNCHANGED <<waiting, deferred>> /\ \E e : open' = [open EXCEPT ![r] = e]
    <3>1. \A p \in Requests \ {r} : open'[p] = open[p]
      BY <2>3 DEF LockTypes
    <3> QED
      BY <1>3, <2>3, <3>1 DEF WaitStep
  <2>4. CASE open_entry(r, k)
    <3>1. PICK openMode \in OpenModes, mode \in CacheModes :
            \/ open_entry_waits(r, k, mode, openMode)
            \/ open_entry_none(k, mode, openMode)
            \/ open_entry_unreadable(k, mode, openMode)
            \/ open_entry_expired(k, mode, openMode)
            \/ \E type \in RevalidationTypes : open_entry_opens(r, k, mode, openMode, type)
      BY <2>4 DEF open_entry
    <3>2. open_entry_waits(r, k, mode, openMode) => WaitFor(r, k)
      BY DEF open_entry_waits
    <3>3. (\/ open_entry_none(k, mode, openMode)
           \/ open_entry_unreadable(k, mode, openMode)
           \/ open_entry_expired(k, mode, openMode)) => UNCHANGED lockVars
      BY DEF open_entry_none, open_entry_unreadable, open_entry_expired, cacheVars, lockVars
    <3>4. (\E type \in RevalidationTypes : open_entry_opens(r, k, mode, openMode, type)) =>
            UNCHANGED <<waiting, deferred>> /\ \E e : open' = [open EXCEPT ![r] = e]
      BY DEF open_entry_opens
    <3> QED
      BY <2>1, <2>2, <2>3, <3>1, <3>2, <3>3, <3>4
  <2>5. CASE create_entry(r, k)
    <3>1. \/ WaitFor(r, k)
          \/ UNCHANGED <<waiting, deferred>> /\ \E e : open' = [open EXCEPT ![r] = e]
      BY <2>5 DEF create_entry, create_entry_waits, create_entry_opens
    <3> QED
      BY <2>1, <2>3, <3>1
  <2> QED
    BY <1>3, <2>4, <2>5
<1>4. ASSUME NEW r \in Requests, Write(r) PROVE WaitStep
  <2>1. IsWriter(r) /\ open[r] # NoEntry
    <3>1. IsWriter(r)
      BY <1>4 DEF Write, write_status_and_reason, write_data, flush, flush_succeeds, flush_refused,
                  flush_interrupted, write_fails
    <3> QED
      BY <3>1, WriterFacts
  <2>2. CASE Close(r)
    BY <2>1, <2>2, CloseCloses, <1>1
  <2>3. CASE flush_succeeds(r)
    <3>1. PICK S : CloseIn(MarkForDeletion(S), r)
      BY <2>3 DEF flush_succeeds
    <3>2. EntriesStay(MarkForDeletion(S))
      BY MarkKeeps DEF EntriesStay
    <3> QED
      BY <2>1, <3>1, <3>2 DEF WaitStep
  <2>4. CASE UNCHANGED <<waiting, deferred>> /\ \E e : open' = [open EXCEPT ![r] = e]
    <3>1. \A p \in Requests \ {r} : open'[p] = open[p]
      BY <2>4 DEF LockTypes
    <3> QED
      BY <2>1, <2>4, <3>1 DEF WaitStep
  <2>5. CASE write_status_and_reason(r) \/ write_data(r)
    <3>1. UNCHANGED <<waiting, deferred>> /\ \E e : open' = [open EXCEPT ![r] = e]
      BY <2>5 DEF write_status_and_reason, write_data
    <3> QED
      BY <2>4, <3>1
  <2> QED
    BY <1>4, <2>2, <2>3, <2>5 DEF Write, flush, flush_refused, flush_interrupted, write_fails
<1>5. ASSUME NEW r \in Requests, Read(r) PROVE WaitStep
  <2>1. IsReader(r)
    BY <1>5 DEF Read, revalidation_succeeded, revalidation_failed, is_revalidation_request,
                send_blocks, send_complete, send_error, take_body_file, take_body_file_fails
  <2>2. open[r] # NoEntry
    BY <2>1, ReaderFacts
  <2>3. CASE Close(r)
    BY <2>2, <2>3, CloseCloses, <1>1
  <2>4. CASE revalidation_succeeded(r) /\ ~Close(r)
    <3>1. UNCHANGED lockVars
      BY <2>4 DEF revalidation_succeeded
    <3> QED
      BY <3>1, <1>2, OpenStays DEF lockVars, EntriesStay, Same
  <2>5. CASE send_blocks(r)
    <3>1. /\ UNCHANGED <<waiting, deferred>>
          /\ \A p \in Requests \ {r} : open'[p] = open[p]
      BY <2>5 DEF send_blocks, LockTypes
    <3> QED
      BY <2>2, <3>1 DEF WaitStep
  <2> QED
    BY <1>5, <2>3, <2>4, <2>5 DEF Read, revalidation_failed, send_complete, send_error,
         take_body_file, take_body_file_fails, RemoveAndClose
<1>6. ASSUME NEW r \in Requests, Destroy(r) PROVE WaitStep
  <2>1. CASE IsWriter(r)
    BY <1>6, <2>1, WriterFacts, OpenStays DEF Destroy, WaitStep
  <2>2. CASE ~IsWriter(r)
    BY <1>6, <2>2 DEF Destroy, WaitStep
  <2> QED
    BY <2>1, <2>2
<1>7. ASSUME NEW S, open' = MarkForDeletion(S), UNCHANGED <<waiting, deferred>> PROVE WaitStep
  BY <1>7, <1>2, MarkKeeps DEF EntriesStay
<1>8. CASE \E s \in Slots : store_associated_data(s)
  BY <1>7, <1>8 DEF store_associated_data
<1>9. CASE remove_entries_accessed_since
  BY <1>7, <1>9 DEF remove_entries_accessed_since
<1>10. CASE Crash
  BY <1>10 DEF Crash, Ends, GoneGrows, LockTypes, WaitStep
<1>11. CASE UNCHANGED cacheVars
  BY <1>11 DEF cacheVars, WaitStep
<1>12. ASSUME NEW r \in Requests, notify_request_unblocked(r) PROVE WaitStep
  BY <1>12 DEF WaitStep
<1> QED
  BY <1>3, <1>4, <1>5, <1>6, <1>8, <1>9, <1>10, <1>11, <1>12 DEF Next

\* Every step keeps it.
LEMMA WaitNext == CacheInv /\ CacheInv' /\ WaitInv /\ [Next]_cacheVars => WaitInv'
<1> SUFFICES ASSUME CacheInv, CacheInv', WaitInv, [Next]_cacheVars PROVE WaitInv'
  OBVIOUS
<1>0. LockTypes /\ LockTypes' /\ WaitsOnce /\ WaitersHaveNone /\ WaitStep
  BY NextWaits DEF CacheInv, WaitInv
<1>1. ASSUME NEW r \in Requests, NEW k \in Keys, MayCall(r), WaitFor(r, k) PROVE WaitInv'
  <2>1. WaitsOnce'
    BY <1>0, <1>1, WaitForOnce DEF MayCall
  <2>2. \A p \in Requests : Waiting(p)' => Waiting(p) \/ p = r
    BY <1>0, <1>1, WaitForWaiting
  <2>3. open' = open /\ open[r] = NoEntry
    BY <1>1 DEF MayCall, WaitFor
  <2>4. WaitersHaveNone'
    BY <1>0, <2>2, <2>3 DEF WaitersHaveNone
  <2> QED
    BY <2>1, <2>4 DEF WaitInv
<1>2. CASE /\ UNCHANGED <<waiting, deferred>>
           /\ \A p \in Requests : open[p] = NoEntry /\ ~MayCall(p) => open'[p] = NoEntry
  <2>1. WaitsOnce'
    BY <1>0, <1>2 DEF WaitsOnce, QueuedOnce, ResumedOnce, QueuedOrResumed
  <2>2. \A p \in Requests : Waiting(p)' => Waiting(p)
    BY <1>2 DEF Waiting
  <2>3. WaitersHaveNone'
    BY <1>0, <1>2, <2>2 DEF WaitersHaveNone, MayCall
  <2> QED
    BY <2>1, <2>3 DEF WaitInv
<1>3. ASSUME NEW r \in Requests, open[r] # NoEntry, NEW o, EntriesStay(o), CloseIn(o, r)
      PROVE  WaitInv'
  <2>1. WaitsOnce'
    BY <1>0, <1>3, CloseOnce
  <2>2. \A p \in Requests : Waiting(p)' => Waiting(p)
    BY <1>0, <1>3, CloseWaiting
  <2>3. \A p \in Requests : open[p] = NoEntry => open'[p] = NoEntry
    BY <1>3 DEF CloseIn, EntriesStay
  <2>4. WaitersHaveNone'
    BY <1>0, <2>2, <2>3 DEF WaitersHaveNone
  <2> QED
    BY <2>1, <2>4 DEF WaitInv
<1>4. ASSUME NEW r \in Requests, notify_request_unblocked(r) PROVE WaitInv'
  <2>1. WaitsOnce'
    BY <1>0, <1>4, NotifyOnce
  <2>2. \A p \in Requests : Waiting(p)' => Waiting(p)
    BY <1>0, <1>4, NotifyWaiting
  <2>3. open' = open
    BY <1>4 DEF notify_request_unblocked
  <2>4. WaitersHaveNone'
    BY <1>0, <2>2, <2>3 DEF WaitersHaveNone
  <2> QED
    BY <2>1, <2>4 DEF WaitInv
<1>5. CASE Ends
  <2>1. /\ waiting' = [k \in Keys |-> <<>>] /\ deferred' = <<>>
        /\ open' = [r \in Requests |-> NoEntry]
    BY <1>5 DEF Ends
  <2>2. /\ \A k \in Keys : \A i : i \notin 1..Len(waiting'[k])
        /\ \A a : a \notin 1..Len(deferred')
    BY <2>1
  <2>3. WaitsOnce'
    BY <2>2 DEF WaitsOnce, QueuedOnce, ResumedOnce, QueuedOrResumed
  <2> QED
    BY <2>1, <2>3 DEF WaitInv, WaitersHaveNone
<1> QED
  BY <1>0, <1>1, <1>2, <1>3, <1>4, <1>5 DEF WaitStep

\* At first nobody waits.
LEMMA WaitInit == Init => WaitInv
<1> SUFFICES ASSUME Init PROVE WaitInv
  OBVIOUS
<1>1. /\ waiting = [k \in Keys |-> <<>>] /\ deferred = <<>>
      /\ open = [r \in Requests |-> NoEntry]
  BY DEF Init
<1>2. /\ \A k \in Keys : \A i : i \notin 1..Len(waiting[k])
      /\ \A a : a \notin 1..Len(deferred)
  BY <1>1
<1>3. WaitsOnce
  BY <1>2 DEF WaitsOnce, QueuedOnce, ResumedOnce, QueuedOrResumed
<1> QED
  BY <1>1, <1>3 DEF WaitInv, WaitersHaveNone

\* m_requests_waiting_completion and the batches of cache_entry_closed hold a request at most
\* once between them, so that it is resumed once for every time it was told to wait, and never
\* while it has an entry.
THEOREM NobodyWaitsTwice == Spec => []WaitInv
BY CacheInvariance, WaitInit, WaitNext, PTL DEF Spec

-----------------------------------------------------------------------------
(* What the operations do, as the request that calls them sees it.         *)

\* The same entry, but for marks and the state of its file.
Alike(e, f) ==
    /\ e.kind = f.kind
    /\ e.kind = "reader" => e.slot = f.slot /\ e.type = f.type
    /\ e.kind = "writer" => e.key = f.key /\ e.vary = f.vary /\ e.parts = f.parts

\* Nothing happens to p.
Spared(p) ==
    /\ Alike(open'[p], open[p])
    /\ p \in gone' <=> p \in gone
    /\ p \in wrote' <=> p \in wrote
    /\ Waiting(p)' => Waiting(p)

\* Nothing happens to any other request.
SparesOthers(r) == \A p \in Requests \ {r} : Spared(p)

\* An entry is like itself.
LEMMA AlikeItself == \A e : Alike(e, e)
BY DEF Alike

\* delete_entry leaves entries like they were.
LEMMA MarkAlike ==
    ASSUME LockTypes, NEW S, NEW q \in Requests
    PROVE  Alike(MarkForDeletion(S)[q], open[q])
<1> DEFINE e == MarkForDeletion(S)[q]
<1>1. e = open[q] \/ (open[q] # NoEntry /\ e = [open[q] EXCEPT !.marked = TRUE])
  BY DEF MarkForDeletion
<1>2. open[q] \in Entries
  BY DEF LockTypes
<1>3. CASE e = open[q]
  BY <1>3, AlikeItself
<1>4. CASE open[q] \in Readers /\ e = [open[q] EXCEPT !.marked = TRUE]
  <2>1. /\ e.kind = "reader" /\ e.slot = open[q].slot /\ e.type = open[q].type
        /\ open[q].kind = "reader"
    BY <1>4 DEF Readers
  <2> QED
    BY <2>1 DEF Alike
<1>5. CASE open[q] \in Writers /\ e = [open[q] EXCEPT !.marked = TRUE]
  <2>1. /\ e.kind = "writer" /\ e.key = open[q].key /\ e.vary = open[q].vary
        /\ e.parts = open[q].parts /\ open[q].kind = "writer"
    BY <1>5 DEF Writers
  <2> QED
    BY <2>1 DEF Alike
<1> QED
  BY <1>1, <1>2, <1>3, <1>4, <1>5 DEF Entries

\* A step that leaves entries and queues alone spares everybody.
LEMMA SparesAll ==
    ASSUME UNCHANGED lockVars, NEW p
    PROVE  Spared(p)
<1>1. open' = open /\ gone' = gone /\ wrote' = wrote
  BY DEF lockVars
<1>2. Waiting(p)' <=> Waiting(p)
  BY DEF Waiting, lockVars
<1> QED
  BY <1>1, <1>2, AlikeItself DEF Spared

\* So does one that changes only the entry of r, for the others.
LEMMA SparesFromOne ==
    ASSUME LockTypes, NEW r \in Requests, NEW e, open' = [open EXCEPT ![r] = e],
           \A p \in Requests \ {r} : (p \in wrote' <=> p \in wrote),
           UNCHANGED <<gone, waiting, deferred>>
    PROVE  SparesOthers(r) /\ (Waiting(r)' => Waiting(r)) /\ open'[r] = e
<1>1. \A p \in Requests \ {r} : open'[p] = open[p]
  BY DEF LockTypes
<1>2. \A p : Waiting(p)' <=> Waiting(p)
  BY DEF Waiting
<1>3. open'[r] = e
  BY DEF LockTypes
<1> QED
  BY <1>1, <1>2, <1>3, AlikeItself DEF SparesOthers, Spared

\* A request that is made to wait keeps its entry, if it has one.
LEMMA WaitForEffect ==
    ASSUME LockTypes, LockTypes', NEW r \in Requests, NEW k \in Keys, WaitFor(r, k)
    PROVE  SparesOthers(r) /\ UNCHANGED <<open, gone, wrote, diskVars>>
<1>1. UNCHANGED <<open, gone, wrote, diskVars>>
  BY DEF WaitFor
<1>2. \A p \in Requests \ {r} : Waiting(p)' => Waiting(p)
  BY WaitForWaiting
<1> QED
  BY <1>1, <1>2, AlikeItself DEF SparesOthers, Spared

\* open_entry gives the request a reader of its key and of the type that was decided on.
LEMMA OpenEffect ==
    ASSUME LockTypes, NEW r \in Requests, NEW k, NEW mode, NEW openMode, NEW type,
           open_entry_opens(r, k, mode, openMode, type)
    PROVE  /\ SparesOthers(r) /\ UNCHANGED <<gone, wrote, diskVars>>
           /\ Waiting(r)' => Waiting(r)
           /\ open'[r].kind = "reader" /\ open'[r].slot[1] = k /\ open'[r].type = type
           /\ open'[r].slot \in Slots
<1>1. PICK s \in Slots :
        /\ s[1] = k
        /\ open' = [open EXCEPT ![r] =
                [kind |-> "reader", slot |-> s, marked |-> FALSE, type |-> type,
                 row |-> row[s], body |-> file[s], sending |-> FALSE]]
  BY DEF open_entry_opens
<1> DEFINE e == [kind |-> "reader", slot |-> s, marked |-> FALSE, type |-> type,
                 row |-> row[s], body |-> file[s], sending |-> FALSE]
<1>2. UNCHANGED <<gone, wrote, waiting, deferred, diskVars>>
  BY DEF open_entry_opens
<1>3. e.kind = "reader" /\ e.slot = s /\ e.type = type
  OBVIOUS
<1>4. open' = [open EXCEPT ![r] = e]
  BY <1>1
<1> HIDE DEF e
<1> QED
  BY <1>1, <1>2, <1>3, <1>4, SparesFromOne

\* create_entry gives it a writer that has neither headers nor data.
LEMMA CreateEffect ==
    ASSUME LockTypes, NEW r \in Requests, NEW k, create_entry_opens(r, k)
    PROVE  /\ SparesOthers(r) /\ UNCHANGED <<gone, diskVars>> /\ wrote' = wrote \cup {r}
           /\ Waiting(r)' => Waiting(r)
           /\ open'[r].kind = "writer" /\ open'[r].key = k /\ open'[r].parts = 0
           /\ ~HasOpenEntry(k, TRUE)
<1> DEFINE e == [kind |-> "writer", key |-> k, marked |-> FALSE, vary |-> "none", parts |-> 0]
<1>1. /\ open' = [open EXCEPT ![r] = e] /\ UNCHANGED <<gone, waiting, deferred, diskVars>>
      /\ wrote' = wrote \cup {r} /\ ~HasOpenEntry(k, TRUE)
  BY DEF create_entry_opens
<1>2. e.kind = "writer" /\ e.key = k /\ e.parts = 0
  OBVIOUS
<1> HIDE DEF e
<1> QED
  BY <1>1, <1>2, SparesFromOne

\* A writer that gets the headers has a vary key, and is otherwise what it was.
LEMMA HeadersEffect ==
    ASSUME LockTypes, NEW r \in Requests, write_status_and_reason(r)
    PROVE  /\ SparesOthers(r) /\ UNCHANGED <<gone, wrote, diskVars>>
           /\ Waiting(r)' => Waiting(r)
           /\ open[r].kind = "writer" /\ open'[r].kind = "writer"
           /\ open'[r].key = open[r].key /\ open'[r].parts = open[r].parts
           /\ open'[r].vary \in Varies
<1>1. open[r] \in Writers /\ open[r].kind = "writer"
  BY WriterFacts DEF write_status_and_reason, IsWriter
<1>2. PICK v \in Varies : open' = [open EXCEPT ![r].vary = v]
  BY DEF write_status_and_reason
<1> DEFINE e == [open[r] EXCEPT !.vary = v]
<1>3. open' = [open EXCEPT ![r] = e]
  BY <1>2
<1>4. e.kind = "writer" /\ e.key = open[r].key /\ e.parts = open[r].parts /\ e.vary = v
  BY <1>1 DEF Writers
<1>5. UNCHANGED <<gone, wrote, waiting, deferred, diskVars>>
  BY DEF write_status_and_reason
<1> HIDE DEF e
<1> QED
  BY <1>1, <1>3, <1>4, <1>5, SparesFromOne

\* One that gets data has one more part.
LEMMA DataEffect ==
    ASSUME LockTypes, NEW r \in Requests, write_data(r)
    PROVE  /\ SparesOthers(r) /\ UNCHANGED <<gone, wrote, diskVars>>
           /\ Waiting(r)' => Waiting(r)
           /\ open[r].kind = "writer" /\ open'[r].kind = "writer"
           /\ open'[r].key = open[r].key /\ open'[r].parts = open[r].parts + 1
           /\ open'[r].vary = open[r].vary /\ open[r].parts \in Nat
<1>1. open[r] \in Writers /\ open[r].kind = "writer"
  BY WriterFacts DEF write_data, IsWriter
<1> DEFINE e == [open[r] EXCEPT !.parts = @ + 1]
<1>2. open' = [open EXCEPT ![r] = e]
  BY DEF write_data
<1>3. /\ e.kind = "writer" /\ e.key = open[r].key /\ e.parts = open[r].parts + 1
      /\ e.vary = open[r].vary
  BY <1>1 DEF Writers
<1>4. UNCHANGED <<gone, wrote, waiting, deferred, diskVars>>
  BY DEF write_data
<1>5. open[r].parts \in Nat
  BY <1>1 DEF Writers
<1> HIDE DEF e
<1> QED
  BY <1>1, <1>2, <1>3, <1>4, <1>5, SparesFromOne

\* A reader that has to wait for its socket is the reader it was.
LEMMA BlocksEffect ==
    ASSUME LockTypes, NEW r \in Requests, send_blocks(r)
    PROVE  /\ SparesOthers(r) /\ UNCHANGED <<gone, wrote, diskVars>>
           /\ Waiting(r)' => Waiting(r)
           /\ Alike(open'[r], open[r])
<1>1. open[r] \in Readers /\ open[r].kind = "reader"
  BY ReaderFacts DEF send_blocks, IsReader
<1> DEFINE e == [open[r] EXCEPT !.sending = TRUE]
<1>2. open' = [open EXCEPT ![r] = e]
  BY DEF send_blocks
<1>3. e.kind = "reader" /\ e.slot = open[r].slot /\ e.type = open[r].type
  BY <1>1 DEF Readers
<1>4. UNCHANGED <<gone, wrote, waiting, deferred, diskVars>>
  BY DEF send_blocks
<1>5. Alike(e, open[r])
  BY <1>1, <1>3 DEF Alike
<1> HIDE DEF e
<1> QED
  BY <1>2, <1>4, <1>5, SparesFromOne

\* The entry of r is closed, and nothing else happens to anybody.
Closed(r) ==
    /\ SparesOthers(r) /\ UNCHANGED <<gone, wrote>>
    /\ open'[r] = NoEntry
    /\ Waiting(r)' => Waiting(r)

\* cache_entry_closed moves those that wait, and spares everybody but the one that closes.
LEMMA CloseInSpares ==
    ASSUME LockTypes, LockTypes', NEW r \in Requests, open[r] # NoEntry,
           NEW o, \A q \in Requests : Alike(o[q], open[q]), o \in [Requests -> Entries],
           CloseIn(o, r)
    PROVE  /\ open'[r] = NoEntry
           /\ \A p \in Requests \ {r} : Alike(open'[p], open[p])
           /\ \A p : Waiting(p)' => Waiting(p)
<1>1. open' = [o EXCEPT ![r] = NoEntry]
  BY DEF CloseIn
<1>2. open'[r] = NoEntry /\ \A p \in Requests \ {r} : open'[p] = o[p]
  BY <1>1
<1>3. \A p : Waiting(p)' => Waiting(p)
  BY CloseWaiting
<1> QED
  BY <1>2, <1>3

\* close_and_destroy_cache_entry closes the entry of its request.
LEMMA CloseEffect ==
    ASSUME LockTypes, LockTypes', NEW r \in Requests, open[r] # NoEntry, Close(r)
    PROVE  Closed(r)
<1>1. CloseIn(open, r) /\ UNCHANGED <<gone, wrote>>
  BY DEF Close
<1>2. open \in [Requests -> Entries]
  BY DEF LockTypes
<1>3. /\ open'[r] = NoEntry
      /\ \A p \in Requests \ {r} : Alike(open'[p], open[p])
      /\ \A p : Waiting(p)' => Waiting(p)
  BY <1>1, <1>2, CloseInSpares, AlikeItself
<1> QED
  BY <1>1, <1>3 DEF Closed, SparesOthers, Spared

\* A writer that fails closes its entry and leaves the disk alone.
LEMMA WriteFailsEffect ==
    ASSUME LockTypes, LockTypes', NEW r \in Requests, write_fails(r)
    PROVE  Closed(r) /\ UNCHANGED diskVars
BY CloseEffect, WriterFacts DEF write_fails

\* What a reader does to end itself closes its entry and at most removes its row.
LEMMA ReaderClosesEffect ==
    ASSUME CacheInv, LockTypes', NEW r \in Requests,
           \/ send_complete(r) \/ send_error(r) \/ take_body_file(r) \/ take_body_file_fails(r)
           \/ revalidation_failed(r)
    PROVE  Closed(r) /\ RowsShrink
<1>1. LockTypes /\ DiskInv
  BY DEF CacheInv
<1>2. RowsShrink
  BY <1>1, ReadDisk DEF Read
<1>3. IsReader(r) /\ Close(r)
  BY DEF send_complete, send_error, take_body_file, take_body_file_fails, revalidation_failed,
         is_revalidation_request, RemoveAndClose
<1> QED
  BY <1>1, <1>2, <1>3, CloseEffect, ReaderFacts

\* flush closes the entry of its writer; the only new row is that of its response.
LEMMA FlushEffect ==
    ASSUME CacheInv, LockTypes', NEW r \in Requests, flush(r)
    PROVE  Closed(r) /\ \A s \in Slots : row'[s] \in {Absent, row[s], Written(r)}
<1>1. LockTypes /\ DiskInv
  BY DEF CacheInv
<1>2. CASE flush_succeeds(r)
  <2>1. open[r] # NoEntry /\ UNCHANGED <<gone, wrote>>
    BY <1>1, <1>2, WriterFacts DEF flush_succeeds
  <2>2. PICK S : /\ CloseIn(MarkForDeletion(S), r)
                 /\ row' = Without([row EXCEPT ![WriterSlot(r)] = Written(r)], S, Absent)
    BY <1>2 DEF flush_succeeds
  <2> DEFINE o == MarkForDeletion(S)
  <2>3. o \in [Requests -> Entries] /\ \A q \in Requests : Alike(o[q], open[q])
    BY <1>1, MarkKeeps, MarkAlike
  <2>4. CloseIn(o, r)
    BY <2>2
  <2> HIDE DEF o
  <2>5. Closed(r)
    BY <1>1, <2>1, <2>3, <2>4, CloseInSpares DEF Closed, SparesOthers, Spared
  <2>6. \A s \in Slots : row'[s] \in {Absent, row[s], Written(r)}
    BY <1>1, <2>2 DEF Without, DiskInv, DiskTypes
  <2> QED
    BY <2>5, <2>6
<1>3. CASE ~flush_succeeds(r)
  <2>1. IsWriter(r) /\ Close(r)
    BY <1>3 DEF flush, flush_refused, flush_interrupted, write_fails
  <2>2. RowsShrink
    BY <1>1, <1>3, WriteDisk DEF Write
  <2> QED
    BY <1>1, <2>1, <2>2, CloseEffect, WriterFacts DEF RowsShrink
<1> QED
  BY <1>2, <1>3

\* revalidation_succeeded keeps the entry of a request that will read it, and closes that of
\* a background revalidation.
LEMMA RevalidatedEffect ==
    ASSUME LockTypes, LockTypes', NEW r \in Requests, revalidation_succeeded(r)
    PROVE  /\ UNCHANGED diskVars /\ open[r].kind = "reader"
           /\ \/ open[r].type = "MustRevalidate" /\ UNCHANGED lockVars
              \/ open[r].type = "Background" /\ Closed(r)
<1>1. /\ IsReader(r) /\ open[r].type \in {"MustRevalidate", "Background"}
      /\ UNCHANGED diskVars
      /\ IF open[r].type = "MustRevalidate" THEN UNCHANGED lockVars ELSE Close(r)
  BY DEF revalidation_succeeded, is_revalidation_request
<1> QED
  BY <1>1, CloseEffect, ReaderFacts DEF IsReader

\* open_entry that finds nothing to read leaves the locks alone, and at most removes rows.
LEMMA NothingFoundEffect ==
    ASSUME DiskInv, NEW k \in Keys, NEW mode \in CacheModes, NEW openMode \in OpenModes,
           openMode = "Revalidate" => mode = "Default",
           \/ open_entry_none(k, mode, openMode) \/ open_entry_unreadable(k, mode, openMode)
           \/ open_entry_expired(k, mode, openMode)
    PROVE  UNCHANGED lockVars /\ RowsShrink
<1>1. UNCHANGED lockVars
  BY DEF open_entry_none, open_entry_unreadable, open_entry_expired, cacheVars, lockVars
<1>2. CASE UNCHANGED diskVars
  BY <1>1, <1>2, DiskStutters
<1>3. CASE open_entry_unreadable(k, mode, openMode)
  BY <1>1, <1>3 DEF open_entry_unreadable, RowsShrink, DiskInv, DiskTypes
<1>4. CASE open_entry_expired(k, mode, openMode)
  BY <1>1, <1>4, RemovalKeepsDisk DEF open_entry_expired
<1> QED
  BY <1>1, <1>2, <1>3, <1>4 DEF open_entry_none, cacheVars, diskVars

\* notify_request_unblocked takes its request out of the batch it was in.
LEMMA NotifyEffect ==
    ASSUME LockTypes, LockTypes', WaitsOnce, NEW r \in Requests, notify_request_unblocked(r)
    PROVE  /\ SparesOthers(r) /\ UNCHANGED <<open, gone, wrote, diskVars>>
           /\ Waiting(r) /\ ~Waiting(r)'
<1>1. UNCHANGED <<open, gone, wrote, diskVars>>
  BY DEF notify_request_unblocked
<1>2. \A p : Waiting(p)' => Waiting(p) /\ p # r
  BY NotifyWaiting
<1>3. Waiting(r)
  <2>1. Len(deferred) > 0 /\ r = deferred[1][1]
    BY NotifyTakes
  <2>2. Len(deferred) \in Nat /\ 1 \in 1..Len(deferred)
    BY <2>1, Batches
  <2>3. Len(deferred[1]) \in Nat \ {0}
    BY <2>2, Batches
  <2>4. 1 \in 1..Len(deferred[1])
    BY <2>3
  <2>5. AtSomePlace(waiting, deferred, r)
    BY <2>1, <2>2, <2>4 DEF AtSomePlace
  <2> QED
    BY <2>5, WaitingMeans
<1> QED
  BY <1>1, <1>2, <1>3, AlikeItself DEF SparesOthers, Spared

\* The end of a request closes at most its writer.
LEMMA DestroyEffect ==
    ASSUME LockTypes, LockTypes', NEW r \in Requests, Destroy(r)
    PROVE  /\ SparesOthers(r) /\ gone' = gone \cup {r} /\ UNCHANGED <<wrote, diskVars>>
<1>1. gone' = gone \cup {r} /\ UNCHANGED <<wrote, diskVars>>
  BY DEF Destroy
<1>2. CASE IsWriter(r)
  <2>1. CloseIn(open, r) /\ open[r] # NoEntry
    BY <1>2, WriterFacts DEF Destroy
  <2>2. open \in [Requests -> Entries]
    BY DEF LockTypes
  <2>3. /\ \A p \in Requests \ {r} : Alike(open'[p], open[p])
        /\ \A p : Waiting(p)' => Waiting(p)
    BY <2>1, <2>2, CloseInSpares, AlikeItself
  <2> QED
    BY <1>1, <2>3 DEF SparesOthers, Spared
<1>3. CASE ~IsWriter(r)
  <2>1. UNCHANGED <<open, waiting, deferred>>
    BY <1>3 DEF Destroy
  <2>2. \A p : Waiting(p)' <=> Waiting(p)
    BY <2>1 DEF Waiting
  <2> QED
    BY <1>1, <2>1, <2>2, AlikeItself DEF SparesOthers, Spared
<1> QED
  BY <1>2, <1>3

\* Clearing the cache and storing associated data spare everybody, and write no row.
LEMMA OthersEffect ==
    ASSUME CacheInv,
           remove_entries_accessed_since \/ \E s \in Slots : store_associated_data(s)
    PROVE  (\A p \in Requests : Spared(p)) /\ RowsShrink
<1>1. LockTypes /\ DiskInv
  BY DEF CacheInv
<1>2. RowsShrink
  BY <1>1, StoreDisk, RemovalKeepsDisk DEF remove_entries_accessed_since
<1>3. PICK S : open' = MarkForDeletion(S)
  BY DEF remove_entries_accessed_since, store_associated_data
<1>4. UNCHANGED <<gone, wrote, waiting, deferred>>
  BY DEF remove_entries_accessed_since, store_associated_data
<1>5. \A p : Waiting(p)' <=> Waiting(p)
  BY <1>4 DEF Waiting
<1>6. \A p \in Requests : Alike(open'[p], open[p])
  BY <1>1, <1>3, MarkAlike
<1> QED
  BY <1>2, <1>4, <1>5, <1>6 DEF Spared

\* A revalidation that fails leaves its key to whoever comes next: nobody has it open.
LEMMA RevalidationLeavesNone ==
    ASSUME CacheInv, NEW r \in Requests, revalidation_failed(r), NEW k, k = open[r].slot[1]
    PROVE  ~HasOpenEntry(k, TRUE)'
<1>1. LockTypes /\ ExclusiveEntries
  BY DEF CacheInv
<1>2. is_revalidation_request(r) /\ IsReader(r) /\ Close(r)
  BY DEF revalidation_failed, is_revalidation_request, RemoveAndClose
<1>3. OpenOn(k) = {r}
  BY <1>1, <1>2, ReaderFacts DEF ExclusiveEntries
<1>4. open' = [open EXCEPT ![r] = NoEntry]
  BY <1>2 DEF Close, CloseIn
<1>5. \A q \in Requests : ~(open'[q] # NoEntry /\ KeyOf(open'[q]) = k)
  <2> TAKE q \in Requests
  <2>1. CASE q = r
    BY <1>1, <1>4, <2>1 DEF LockTypes
  <2>2. CASE q # r
    BY <1>1, <1>3, <1>4, <2>2 DEF LockTypes, OpenOn
  <2> QED
    BY <2>1, <2>2
<1>6. OpenOn(k)' = {}
  BY <1>5 DEF OpenOn
<1> QED
  BY <1>6 DEF HasOpenEntry

-----------------------------------------------------------------------------
(* Whoever waits for an entry or for its pipe goes on waiting until its    *)
(* own turn comes.                                                         *)

\* The reader of p waits until the client's pipe takes more.
Sending(p) == open[p].kind = "reader" /\ open[p].sending

\* p is neither forgotten by those that will resume it, nor by its notifier.
Undisturbed(p) ==
    /\ Waiting(p) => Waiting(p)'
    /\ Sending(p) => Sending(p)'

LeavesOthers(r) == \A p \in Requests \ {r} : Undisturbed(p)

\* cache_entry_closed forgets nobody: a queue that is emptied has become a batch.
LEMMA CloseForgetsNobody ==
    ASSUME LockTypes, LockTypes', NEW r \in Requests, open[r] # NoEntry, NEW o, CloseIn(o, r),
           NEW p, Waiting(p)
    PROVE  Waiting(p)'
<1> DEFINE k == KeyOf(open[r])
<1>1. k \in Keys
  BY EntryShape DEF LockTypes
<1>2. waiting \in [Keys -> Seq(Requests)] /\ deferred \in Seq(Seq(Requests))
  BY Batches DEF LockTypes
<1>3. AtSomePlace(waiting, deferred, p)
  BY WaitingMeans
<1>4. CASE waiting' = waiting /\ deferred' = deferred
  BY <1>3, <1>4, WaitingMeans
<1>5. CASE waiting' = [waiting EXCEPT ![k] = <<>>] /\ deferred' = Append(deferred, waiting[k])
  <2> DEFINE S == Seq(Requests)
             n == Len(deferred) + 1
  <2>1. waiting[k] \in S /\ deferred \in Seq(S)
    BY <1>1, <1>2
  <2> HIDE DEF S
  <2>2. /\ Len(deferred') = n /\ deferred'[n] = waiting[k] /\ Len(deferred) \in Nat
        /\ \A a \in 1..Len(deferred) : deferred'[a] = deferred[a]
    BY <1>5, <2>1
  <2>3. \A l \in Keys \ {k} : waiting'[l] = waiting[l]
    BY <1>2, <1>5
  <2>4. n \in 1..Len(deferred') /\ 1..Len(deferred) \subseteq 1..Len(deferred')
    BY <2>2
  <2> HIDE DEF n, k
  <2>5. ASSUME NEW l \in Keys, NEW i \in 1..Len(waiting[l]), p = waiting[l][i]
        PROVE  AtSomePlace(waiting', deferred', p)
    BY <2>2, <2>3, <2>4, <2>5, Zenon DEF AtSomePlace
  <2>6. ASSUME NEW a \in 1..Len(deferred), NEW i \in 1..Len(deferred[a]), p = deferred[a][i]
        PROVE  AtSomePlace(waiting', deferred', p)
    BY <2>2, <2>4, <2>6, Zenon DEF AtSomePlace
  <2>7. AtSomePlace(waiting', deferred', p)
    BY <1>3, <2>5, <2>6, Zenon DEF AtSomePlace
  <2> QED
    BY <2>7, WaitingMeans
<1>6. waiting[k] = <<>> => [waiting EXCEPT ![k] = <<>>] = waiting
  BY <1>1, <1>2
<1>7. \/ waiting' = waiting /\ deferred' = deferred
      \/ waiting' = [waiting EXCEPT ![k] = <<>>] /\ deferred' = Append(deferred, waiting[k])
  BY <1>6 DEF CloseIn
<1> QED
  BY <1>4, <1>5, <1>7

\* WaitFor forgets nobody either, and its request waits.
LEMMA WaitForForgetsNobody ==
    ASSUME LockTypes, LockTypes', NEW r \in Requests, NEW k \in Keys, WaitFor(r, k),
           NEW p, Waiting(p) \/ p = r
    PROVE  Waiting(p)'
<1> DEFINE n == Len(waiting[k]) + 1
<1>1. /\ deferred' = deferred /\ Len(waiting'[k]) = n /\ Len(waiting[k]) \in Nat
      /\ waiting'[k][n] = r
      /\ \A i \in 1..Len(waiting[k]) : waiting'[k][i] = waiting[k][i]
      /\ \A l \in Keys \ {k} : waiting'[l] = waiting[l]
  BY WaitForAdds
<1>2. n \in 1..Len(waiting'[k]) /\ 1..Len(waiting[k]) \subseteq 1..Len(waiting'[k])
  BY <1>1
<1> HIDE DEF n
<1>3. CASE p = r
  BY <1>1, <1>2, <1>3, WaitingMeans, Zenon DEF AtSomePlace
<1>4. CASE Waiting(p)
  <2>1. AtSomePlace(waiting, deferred, p)
    BY <1>4, WaitingMeans
  <2>2. ASSUME NEW l \in Keys, NEW i \in 1..Len(waiting[l]), p = waiting[l][i]
        PROVE  AtSomePlace(waiting', deferred', p)
    <3>1. i \in 1..Len(waiting'[l]) /\ waiting'[l][i] = waiting[l][i]
      BY <1>1, <1>2, <2>2
    <3> QED
      BY <2>2, <3>1, Zenon DEF AtSomePlace
  <2>3. AtSomePlace(waiting', deferred', p)
    BY <1>1, <2>1, <2>2, Zenon DEF AtSomePlace
  <2> QED
    BY <2>3, WaitingMeans
<1> QED
  BY <1>3, <1>4

\* notify_request_unblocked leaves the rest of its batch, and the other batches.
LEMMA NotifyForgetsNobodyElse ==
    ASSUME LockTypes, LockTypes', NEW r \in Requests, notify_request_unblocked(r),
           NEW p, p # r, Waiting(p)
    PROVE  Waiting(p)'
<1>1. AtSomePlace(waiting, deferred, p)
  BY WaitingMeans
<1>2. waiting' = waiting /\ Len(deferred) > 0 /\ r = deferred[1][1]
  BY NotifyTakes
<1>3. Len(deferred) \in Nat /\ \A a \in 1..Len(deferred) : Len(deferred[a]) \in Nat \ {0}
  BY Batches
<1> DEFINE G == AtSomePlace(waiting', deferred', p)
<1>4. ASSUME NEW l \in Keys, NEW i \in 1..Len(waiting[l]), p = waiting[l][i] PROVE G
  BY <1>2, <1>4, Zenon DEF AtSomePlace
<1>5. ASSUME NEW a \in 1..Len(deferred), NEW i \in 1..Len(deferred[a]), p = deferred[a][i] PROVE G
  <2>1. a # 1 \/ i # 1
    BY <1>2, <1>5
  <2>2. CASE /\ Len(deferred[1]) = 1 /\ Len(deferred') = Len(deferred) - 1
             /\ \A b \in 1..Len(deferred') : deferred'[b] = deferred[b + 1]
    <3>1. a # 1
      BY <1>5, <2>1, <2>2
    <3>2. a - 1 \in 1..Len(deferred') /\ (a - 1) + 1 = a
      BY <1>3, <2>2, <3>1
    <3>3. deferred'[a - 1] = deferred[a]
      BY <2>2, <3>2
    <3> QED
      BY <1>5, <3>2, <3>3, Zenon DEF AtSomePlace
  <2>3. CASE /\ Len(deferred') = Len(deferred)
             /\ Len(deferred'[1]) = Len(deferred[1]) - 1
             /\ \A j \in 1..Len(deferred'[1]) : deferred'[1][j] = deferred[1][j + 1]
             /\ \A b \in 2..Len(deferred') : deferred'[b] = deferred[b]
    <3>1. CASE a = 1
      <4>1. i - 1 \in 1..Len(deferred'[1]) /\ (i - 1) + 1 = i /\ 1 \in 1..Len(deferred')
        BY <1>3, <1>5, <2>1, <2>3, <3>1
      <4>2. deferred'[1][i - 1] = deferred[1][i]
        BY <2>3, <4>1
      <4> QED
        BY <1>5, <3>1, <4>1, <4>2, Zenon DEF AtSomePlace
    <3>2. CASE a # 1
      <4>1. a \in 1..Len(deferred') /\ deferred'[a] = deferred[a]
        BY <1>3, <2>3, <3>2
      <4> QED
        BY <1>5, <4>1, Zenon DEF AtSomePlace
    <3> QED
      BY <3>1, <3>2
  <2> QED
    BY <2>2, <2>3, NotifyTakes
<1>6. G
  BY <1>1, <1>4, <1>5, Zenon DEF AtSomePlace
<1> QED
  BY <1>6, WaitingMeans

\* delete_entry leaves the readers that wait for their pipe.
LEMMA MarkLeavesSending ==
    ASSUME LockTypes, NEW S, NEW q \in Requests, open[q].kind = "reader", open[q].sending
    PROVE  MarkForDeletion(S)[q].kind = "reader" /\ MarkForDeletion(S)[q].sending
<1> DEFINE e == MarkForDeletion(S)[q]
<1>1. e = open[q] \/ e = [open[q] EXCEPT !.marked = TRUE]
  BY DEF MarkForDeletion
<1>2. open[q] \in Readers
  BY EntryShape DEF LockTypes
<1>3. CASE e = [open[q] EXCEPT !.marked = TRUE]
  BY <1>2, <1>3 DEF Readers
<1> QED
  BY <1>1, <1>3

\* What closes the entry of r, while entries are marked perhaps, leaves the others.
LEMMA CloseLeavesOthers ==
    ASSUME LockTypes, LockTypes', NEW r \in Requests, open[r] # NoEntry, NEW o,
           o \in [Requests -> Entries],
           \A q \in Requests : open[q].kind = "reader" /\ open[q].sending =>
                o[q].kind = "reader" /\ o[q].sending,
           CloseIn(o, r)
    PROVE  LeavesOthers(r)
<1>1. open' = [o EXCEPT ![r] = NoEntry]
  BY DEF CloseIn
<1>2. \A p \in Requests \ {r} : open'[p] = o[p]
  BY <1>1
<1>3. \A p : Waiting(p) => Waiting(p)'
  BY CloseForgetsNobody
<1> QED
  BY <1>2, <1>3 DEF LeavesOthers, Undisturbed, Sending

\* What changes only the entry of r leaves the others.
LEMMA OneEntryLeavesOthers ==
    ASSUME LockTypes, NEW r \in Requests, NEW e, open' = [open EXCEPT ![r] = e],
           UNCHANGED <<waiting, deferred>>
    PROVE  LeavesOthers(r)
<1>1. \A p \in Requests \ {r} : open'[p] = open[p]
  BY DEF LockTypes
<1>2. \A p : Waiting(p) => Waiting(p)'
  BY DEF Waiting
<1> QED
  BY <1>1, <1>2 DEF LeavesOthers, Undisturbed, Sending

\* What leaves entries and queues alone leaves everybody.
LEMMA LockLeavesAll ==
    ASSUME UNCHANGED <<open, waiting, deferred>>, NEW p
    PROVE  Undisturbed(p)
BY DEF Undisturbed, Sending, Waiting

\* The request r calls the cache, or the cache calls r.
Calls(r) ==
    \/ \E k \in Keys : MayCall(r) /\ (open_entry(r, k) \/ create_entry(r, k))
    \/ Write(r) \/ Read(r) \/ notify_request_unblocked(r) \/ Destroy(r)

\* Whatever a request does to the cache, no other is forgotten.
LEMMA CallsLeaveOthers ==
    ASSUME LockTypes, LockTypes', NEW r \in Requests, Calls(r)
    PROVE  LeavesOthers(r)
<1>1. CASE Close(r) /\ (IsWriter(r) \/ IsReader(r))
  <2>1. CloseIn(open, r) /\ open[r] # NoEntry /\ open \in [Requests -> Entries]
    BY <1>1, WriterFacts, ReaderFacts DEF Close, LockTypes
  <2> QED
    BY <2>1, CloseLeavesOthers
<1>2. CASE UNCHANGED <<waiting, deferred>> /\ \E e : open' = [open EXCEPT ![r] = e]
  BY <1>2, OneEntryLeavesOthers
<1>3. CASE UNCHANGED lockVars
  BY <1>3, LockLeavesAll DEF lockVars, LeavesOthers
<1>4. ASSUME NEW k \in Keys, WaitFor(r, k) PROVE LeavesOthers(r)
  <2>1. open' = open /\ \A p : Waiting(p) => Waiting(p)'
    BY <1>4, WaitForForgetsNobody DEF WaitFor
  <2> QED
    BY <2>1 DEF LeavesOthers, Undisturbed, Sending
<1>5. ASSUME NEW k \in Keys, open_entry(r, k) \/ create_entry(r, k) PROVE LeavesOthers(r)
  <2>1. CASE open_entry(r, k)
    <3>1. PICK openMode \in OpenModes, mode \in CacheModes :
            \/ open_entry_waits(r, k, mode, openMode)
            \/ open_entry_none(k, mode, openMode)
            \/ open_entry_unreadable(k, mode, openMode)
            \/ open_entry_expired(k, mode, openMode)
            \/ \E type \in RevalidationTypes : open_entry_opens(r, k, mode, openMode, type)
      BY <2>1 DEF open_entry
    <3>2. open_entry_waits(r, k, mode, openMode) => WaitFor(r, k)
      BY DEF open_entry_waits
    <3>3. (\/ open_entry_none(k, mode, openMode)
           \/ open_entry_unreadable(k, mode, openMode)
           \/ open_entry_expired(k, mode, openMode)) => UNCHANGED lockVars
      BY DEF open_entry_none, open_entry_unreadable, open_entry_expired, cacheVars, lockVars
    <3>4. (\E type \in RevalidationTypes : open_entry_opens(r, k, mode, openMode, type)) =>
            UNCHANGED <<waiting, deferred>> /\ \E e : open' = [open EXCEPT ![r] = e]
      BY DEF open_entry_opens
    <3> QED
      BY <1>2, <1>3, <1>4, <3>1, <3>2, <3>3, <3>4
  <2>2. CASE create_entry(r, k)
    <3>1. \/ WaitFor(r, k)
          \/ UNCHANGED <<waiting, deferred>> /\ \E e : open' = [open EXCEPT ![r] = e]
      BY <2>2 DEF create_entry, create_entry_waits, create_entry_opens
    <3> QED
      BY <1>2, <1>4, <3>1
  <2> QED
    BY <1>5, <2>1, <2>2
<1>6. CASE Write(r)
  <2>1. CASE flush_succeeds(r)
    <3>1. PICK S : CloseIn(MarkForDeletion(S), r)
      BY <2>1 DEF flush_succeeds
    <3>2. open[r] # NoEntry
      BY <2>1, WriterFacts DEF flush_succeeds
    <3> QED
      BY <3>1, <3>2, MarkKeeps, MarkLeavesSending, CloseLeavesOthers
  <2>2. CASE write_status_and_reason(r) \/ write_data(r)
    <3>1. UNCHANGED <<waiting, deferred>> /\ \E e : open' = [open EXCEPT ![r] = e]
      BY <2>2 DEF write_status_and_reason, write_data
    <3> QED
      BY <1>2, <3>1
  <2> QED
    BY <1>1, <1>6, <2>1, <2>2 DEF Write, flush, flush_refused, flush_interrupted, write_fails
<1>7. CASE Read(r)
  <2>1. CASE send_blocks(r)
    <3>1. UNCHANGED <<waiting, deferred>> /\ \E e : open' = [open EXCEPT ![r] = e]
      BY <2>1 DEF send_blocks
    <3> QED
      BY <1>2, <3>1
  <2>2. CASE revalidation_succeeded(r)
    BY <1>1, <1>3, <2>2 DEF revalidation_succeeded, is_revalidation_request
  <2> QED
    BY <1>1, <1>7, <2>1, <2>2 DEF Read, revalidation_failed, is_revalidation_request, send_complete,
         send_error, take_body_file, take_body_file_fails, RemoveAndClose
<1>8. CASE notify_request_unblocked(r)
  <2>1. open' = open /\ \A p : p # r /\ Waiting(p) => Waiting(p)'
    BY <1>8, NotifyForgetsNobodyElse DEF notify_request_unblocked
  <2> QED
    BY <2>1 DEF LeavesOthers, Undisturbed, Sending
<1>9. CASE Destroy(r)
  <2>1. CASE IsWriter(r)
    <3>1. CloseIn(open, r) /\ open[r] # NoEntry /\ open \in [Requests -> Entries]
      BY <1>9, <2>1, WriterFacts DEF Destroy, LockTypes
    <3> QED
      BY <3>1, CloseLeavesOthers
  <2>2. CASE ~IsWriter(r)
    BY <1>9, <2>2, LockLeavesAll DEF Destroy, LeavesOthers
  <2> QED
    BY <2>1, <2>2
<1> QED
  BY <1>5, <1>6, <1>7, <1>8, <1>9 DEF Calls

\* Neither is anybody forgotten when entries are deleted from outside.
LEMMA DeletionLeavesAll ==
    ASSUME LockTypes,
           remove_entries_accessed_since \/ \E s \in Slots : store_associated_data(s),
           NEW p \in Requests
    PROVE  Undisturbed(p)
<1>1. PICK S : open' = MarkForDeletion(S)
  BY DEF remove_entries_accessed_since, store_associated_data
<1>2. UNCHANGED <<waiting, deferred>>
  BY DEF remove_entries_accessed_since, store_associated_data
<1>3. Waiting(p) => Waiting(p)'
  BY <1>2 DEF Waiting
<1> QED
  BY <1>1, <1>3, MarkLeavesSending DEF Undisturbed, Sending

\* A reader whose pipe is full waits for it.
LEMMA BlockedIsSending ==
    ASSUME LockTypes, NEW r \in Requests, send_blocks(r)
    PROVE  Sending(r)'
<1>1. open[r] \in Readers /\ open[r].kind = "reader"
  BY ReaderFacts DEF send_blocks, IsReader
<1> DEFINE e == [open[r] EXCEPT !.sending = TRUE]
<1>2. open' = [open EXCEPT ![r] = e]
  BY DEF send_blocks
<1>3. e.kind = "reader" /\ e.sending
  BY <1>1 DEF Readers
<1> HIDE DEF e
<1>4. open'[r] = e
  BY <1>2 DEF LockTypes
<1> QED
  BY <1>3, <1>4 DEF Sending
=============================================================================
