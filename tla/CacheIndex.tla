----------------------------- MODULE CacheIndex -----------------------------
(***************************************************************************)
(* The index of the HTTP disk cache (CacheIndex.cpp in                     *)
(* src/Libraries/LibHTTP/Cache): a database table of rows, the entries of  *)
(* it that are held in memory, and the running total of their sizes.       *)
(*                                                                         *)
(* m_entries is filled per cache key, when the key is first looked up or   *)
(* written.  Sizes are kept, since the total and the eviction depend on    *)
(* them: of a row, those of its body with the request's headers, of its    *)
(* associated data and of the response's headers.  The time is the wall    *)
(* clock in milliseconds: it may stand still between two calls and be set  *)
(* back.  The module DiskCache has the files and who may call.             *)
(***************************************************************************)
EXTENDS Naturals, FiniteSets, FiniteSetsExt

CONSTANTS
    Keys, Varies,   \* cache keys and vary keys
    DataSizes, HeaderSizes, AssociatedSizes,
    Times,          \* readings of the clock
    FreeShare,      \* the part of the free disk space that the cache may have
    Settings,       \* sizes that the user may set
    EntryShare      \* an entry may have one part in EntryShare of the cache

ASSUME CacheIndexAssumption ==
    /\ DataSizes \cup HeaderSizes \cup AssociatedSizes \cup Times \cup Settings \subseteq Nat
    /\ FreeShare \in Nat /\ EntryShare \in Nat \ {0}

VARIABLES
    rows,       \* the table CacheIndex
    entries,    \* the entries of m_entries
    loaded,     \* the keys of m_entries
    total,      \* m_total_estimated_size
    limits      \* m_limits

vars == <<rows, entries, loaded, total, limits>>
-----------------------------------------------------------------------------
Slots == Keys \X Varies
Rows == [data : DataSizes, headers : HeaderSizes, associated : AssociatedSizes \cup {0},
         time : Times]
NoRow == [data |-> 0, headers |-> 0, associated |-> 0]
NewRows == {e \in Rows : e.associated = 0}
Stored(table) == {s \in Slots : table[s] # NoRow}

estimated_size(e) == e.data + e.headers + e.associated
SumOf(table, S) == MapThenSumSet(LAMBDA s : estimated_size(table[s]), S)

Limits(setting) ==
    LET maximum == IF setting < FreeShare THEN setting ELSE FreeShare
    IN  [cache |-> maximum, entry |-> maximum \div EntryShare]

TypeOK ==
    /\ rows \in [Slots -> Rows \cup {NoRow}]
    /\ entries \in [Slots -> Rows \cup {NoRow}]
    /\ loaded \subseteq Keys
    /\ total \in Nat
    /\ limits \in [cache : Nat, entry : Nat]

Without(table, S) == [s \in Slots |-> IF s \in S THEN NoRow ELSE table[s]]

\* delete_entry for each slot of S: a key goes with the last of its entries.
KeysLeft(S) ==
    loaded \ {k \in Keys :
        /\ \E s \in S : s[1] = k
        /\ \A s \in Stored(entries) : s[1] = k => s \in S}

\* Mutant: a row that is loaded is subtracted again with its entry.
RemoveRowsAndEntries(S) ==
    /\ rows' = Without(rows, S)
    /\ total' = total - SumOf(rows, S \cap Stored(rows)) - SumOf(entries, S \cap Stored(entries))
    /\ entries' = Without(entries, S)
    /\ loaded' = KeysLeft(S)
    /\ UNCHANGED limits

\* Mutant: rows go and their entries stay.
RemoveRowsOnly(S) ==
    /\ rows' = Without(rows, S)
    /\ total' = total - SumOf(rows, S \cap Stored(rows))
    /\ UNCHANGED <<entries, loaded, limits>>

\* What DELETE ... RETURNING removes is subtracted from the total.
RemoveRows(S) ==
    /\ rows' = Without(rows, S)
    /\ total' = total - SumOf(rows, S \cap Stored(rows))
    /\ entries' = Without(entries, S)
    /\ loaded' = KeysLeft(S)
    /\ UNCHANGED limits
-----------------------------------------------------------------------------
\* Mutant: rows of the same time are not counted with each other.
CumulativeOfLater(table, s) ==
    SumOf(table, {s} \cup {t \in Stored(table) : table[t].time > table[s].time})

\* The rows past the limit: SUM(...) OVER (ORDER BY last_access_time DESC) counts
\* with a row all that were accessed no earlier, those of the same time included.
Cumulative(table, s) == SumOf(table, {t \in Stored(table) : table[t].time >= table[s].time})
Exceeding(table) == {s \in Stored(table) : Cumulative(table, s) > limits.cache}

\* remove_entries_exceeding_cache_limit, when the table, the entries, the keys and
\* the total are as given.  The total tells whether there is anything to do.
EvictFrom(table, memory, keys, size) ==
    LET S == IF size > limits.cache THEN Exceeding(table) ELSE {}
    IN  /\ rows' = Without(table, S)
        /\ total' = size - SumOf(table, S)
        /\ entries' = Without(memory, S)
        /\ loaded' = keys \ {k \in Keys :
                /\ \E s \in S : s[1] = k
                /\ \A s \in Stored(memory) : s[1] = k => s \in S}
        /\ UNCHANGED limits

\* Mutant: what is replaced is looked for among the entries only.
create_entry_over_entry(s, e) ==
    /\ estimated_size(e) <= limits.entry
    /\ EvictFrom([rows EXCEPT ![s] = e], [entries EXCEPT ![s] = e], loaded \cup {s[1]},
                 total - estimated_size(entries[s]) + estimated_size(e))

\* create_entry and the eviction that flush makes after it.  Only the one row that
\* is replaced is looked at: other rows of a key that was not loaded stay out of
\* the entries.  An entry that is too large is refused.
create_entry(s, e) ==
    /\ estimated_size(e) <= limits.entry
    /\ EvictFrom([rows EXCEPT ![s] = e], [entries EXCEPT ![s] = e], loaded \cup {s[1]},
                 total - estimated_size(rows[s]) + estimated_size(e))

remove_entry(s) == RemoveRows({s})

remove_entries_accessed_since ==
    \E since \in Times : RemoveRows({s \in Stored(rows) : rows[s].time >= since})

\* find_entry loads the rows of a key.
find_entry(k) ==
    /\ k \notin loaded
    /\ loaded' = loaded \cup {k}
    /\ entries' = [s \in Slots |-> IF s[1] = k THEN rows[s] ELSE entries[s]]
    /\ UNCHANGED <<rows, total, limits>>

has_entry(s) == entries[s] # NoRow

\* The row and the entry are both updated, and the total by the entry's old size.
update_response_headers(s) ==
    /\ has_entry(s)
    /\ \E n \in HeaderSizes :
        /\ rows' = [rows EXCEPT ![s].headers = n]
        /\ entries' = [entries EXCEPT ![s].headers = n]
        /\ total' = total - entries[s].headers + n
    /\ UNCHANGED <<loaded, limits>>

update_last_access_time(s) ==
    /\ has_entry(s)
    /\ \E now \in Times :
        /\ rows' = [rows EXCEPT ![s].time = now]
        /\ entries' = [entries EXCEPT ![s].time = now]
    /\ UNCHANGED <<loaded, total, limits>>

\* store_associated_data: update_associated_data_size, then the eviction.
update_associated_data_size(s) ==
    /\ has_entry(s)
    /\ \E n \in AssociatedSizes :
        EvictFrom([rows EXCEPT ![s].associated = n], [entries EXCEPT ![s].associated = n],
                  loaded, total - entries[s].associated + n)

\* Mutant: the limit of an entry stays as it was.
set_maximum_of_cache_only ==
    /\ \E n \in Settings : limits' = [limits EXCEPT !.cache = Limits(n).cache]
    /\ UNCHANGED <<rows, entries, loaded, total>>

\* The limits change, and nothing is evicted until the next write.
set_maximum_disk_cache_size ==
    /\ \E n \in Settings : limits' = Limits(n)
    /\ UNCHANGED <<rows, entries, loaded, total>>

\* RequestServer starts again: the table is empty if it had another version.
Create ==
    /\ rows' \in {rows, [s \in Slots |-> NoRow]}
    /\ entries' = [s \in Slots |-> NoRow]
    /\ loaded' = {}
    /\ total' = SumOf(rows', Stored(rows'))
    /\ \E n \in Settings : limits' = Limits(n)

Init ==
    /\ rows = [s \in Slots |-> NoRow] /\ entries = rows
    /\ loaded = {} /\ total = 0
    /\ \E n \in Settings : limits = Limits(n)

Next ==
    \/ \E s \in Slots : \E e \in NewRows : create_entry(s, e)
    \/ \E s \in Slots : update_associated_data_size(s)
    \/ \E s \in Slots :
        remove_entry(s) \/ update_response_headers(s) \/ update_last_access_time(s)
    \/ \E k \in Keys : find_entry(k)
    \/ remove_entries_accessed_since
    \/ set_maximum_disk_cache_size
    \/ Create

Spec == Init /\ [][Next]_vars
-----------------------------------------------------------------------------
(* Properties.                                                             *)

\* The running total, which decides whether anything is evicted and is never
\* computed anew while RequestServer runs, is the sum of what is in the table, of
\* the rows that are not loaded as well.
TotalIsSum == total = SumOf(rows, Stored(rows))

\* An entry in memory is the row of the table, so that the sizes update_* subtract
\* are those that were added; nothing stays in memory of a row that is gone.
EntriesAreRows == \A s \in Slots : has_entry(s) => entries[s] = rows[s] /\ s[1] \in loaded

\* What a write evicts from the table as it had become was accessed before
\* everything that stays, and what stays fits the limit.
EvictionIsOrdered(table) ==
    /\ total' <= limits.cache
    /\ \A s \in Stored(table) : \A t \in Slots :
        rows'[s] = NoRow /\ rows'[t] # NoRow => table[s].time < rows'[t].time

\* Both writes evict: the total, the SQL that ranks the rows and the limits agree on
\* how much and what, however rows share a time.
EvictsLeastRecent ==
    [][\A s \in Slots :
        /\ \A e \in NewRows : create_entry(s, e) => EvictionIsOrdered([rows EXCEPT ![s] = e])
        /\ update_associated_data_size(s) => EvictionIsOrdered(rows)]_vars

\* The entry that was just written is not what its own flush evicts, if the clock
\* has moved on since anything else was accessed: the limit of an entry stays below
\* that of the cache whatever the settings become.
NewestSurvives ==
    [][\A s \in Slots, e \in NewRows :
        create_entry(s, e) /\ (\A t \in Stored(rows) \ {s} : rows[t].time < e.time)
            => rows'[s] = e]_vars
=============================================================================
