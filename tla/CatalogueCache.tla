--------------------------- MODULE CatalogueCache ---------------------------
(***************************************************************************)
(* The cache of services and of areas: apps/common/cache_utils.py, the     *)
(* signals of apps/services and apps/worker, and the list and detail views.*)
(*                                                                         *)
(* An entry is stored under the version its reader started with; a writer  *)
(* raises the version once its transaction is committed.                   *)
(***************************************************************************)
EXTENDS Integers

CONSTANTS
    Writers,            \* saves of a service, an image or an area
    CacheReaders,       \* requests
    MaxVersion          \* bound on the versions explored

ASSUME CacheAssumption == MaxVersion \in Nat /\ MaxVersion > 1

Nothing == -1

VARIABLES
    content,        \* committed content, counted by its changes
    version,        \* the key "<namespace>:ver"; Nothing when it is not set
    entries,        \* version -> cached content, or Nothing
    writer,         \* stage of each save
    reader,         \* stage of each request, with what it holds
    rewound         \* a late bump put the version back

cacheVars == <<content, version, entries, writer, reader, rewound>>

Versions == 1..MaxVersion

\* cache.get(..., 1)
Current == IF version = Nothing THEN 1 ELSE version

Unfinished == {w \in Writers : writer[w] \in {"COMMITTED", "UNSET", "DIED"}}

\* post_save and post_delete: the bump waits for the commit.
InvalidateCache(w) == "COMMITTED"

\* A save and its commit.
SaveRow(w) ==
    /\ writer[w] = "NONE"
    /\ content' = content + 1
    /\ writer' = [writer EXCEPT ![w] = InvalidateCache(w)]
    /\ UNCHANGED <<version, entries, reader, rewound>>

\* bump_version: cache.incr, when the key is there.
BumpVersion(w) ==
    /\ writer[w] = "COMMITTED"
    /\ version # MaxVersion
    /\ IF version = Nothing
       THEN writer' = [writer EXCEPT ![w] = "UNSET"] /\ UNCHANGED version
       ELSE writer' = [writer EXCEPT ![w] = "DONE"] /\ version' = version + 1
    /\ UNCHANGED <<content, entries, reader, rewound>>

\* incr has raised ValueError: the version is set to 2 whatever it has become.
SetVersion(w) ==
    /\ writer[w] = "UNSET"
    /\ writer' = [writer EXCEPT ![w] = "DONE"]
    /\ version' = 2
    /\ rewound' = (rewound \/ version > 2)
    /\ UNCHANGED <<content, entries, reader>>

\* The process ends between the commit and the bump.
ProcessDies(w) ==
    /\ writer[w] \in {"COMMITTED", "UNSET"}
    /\ writer' = [writer EXCEPT ![w] = "DIED"]
    /\ UNCHANGED <<content, version, entries, reader, rewound>>

\* versioned_key and the look-up: an entry is the answer.
LookUp(r) ==
    /\ reader[r].stage = "NONE"
    /\ reader' = [reader EXCEPT ![r] =
           [stage |-> IF entries[Current] = Nothing THEN "MISSED" ELSE "ANSWERED",
            key |-> Current, value |-> entries[Current]]]
    /\ UNCHANGED <<content, version, entries, writer, rewound>>

ReadRows(r) ==
    /\ reader[r].stage = "MISSED"
    /\ reader' = [reader EXCEPT ![r].stage = "READ", ![r].value = content]
    /\ UNCHANGED <<content, version, entries, writer, rewound>>

\* Plausible bug: the key is made when the answer is stored.
StoreKey_Late(r) == Current

\* The key made before the look-up.
StoreKey(r) == reader[r].key

StoreEntry(r) ==
    /\ reader[r].stage = "READ"
    /\ entries' = [entries EXCEPT ![StoreKey(r)] = reader[r].value]
    /\ reader' = [reader EXCEPT ![r].stage = "ANSWERED"]
    /\ UNCHANGED <<content, version, writer, rewound>>

\* SERVICES_TTL, or the hour of the areas.
EntryExpires(v) ==
    /\ entries[v] # Nothing
    /\ entries' = [entries EXCEPT ![v] = Nothing]
    /\ UNCHANGED <<content, version, writer, reader, rewound>>

CacheInit ==
    /\ content = 0 /\ version \in {Nothing, 2}
    /\ entries = [v \in Versions |-> Nothing]
    /\ writer = [w \in Writers |-> "NONE"]
    /\ reader = [r \in CacheReaders |-> [stage |-> "NONE", key |-> 1, value |-> Nothing]]
    /\ rewound = FALSE

CacheNext ==
    \/ \E w \in Writers : SaveRow(w) \/ BumpVersion(w) \/ SetVersion(w) \/ ProcessDies(w)
    \/ \E r \in CacheReaders : LookUp(r) \/ ReadRows(r) \/ StoreEntry(r)
    \/ \E v \in Versions : EntryExpires(v)

CacheSpec == CacheInit /\ [][CacheNext]_cacheVars

-----------------------------------------------------------------------------
\* The entry under the current version is the committed content, unless a commit has
\* not been followed by its bump, or a bump that found no version came after others
\* and put it back ("only after the transaction": comment of the signals).
EntryIsFresh ==
    \/ entries[Current] \in {Nothing, content}
    \/ Unfinished # {} \/ rewound
=============================================================================
