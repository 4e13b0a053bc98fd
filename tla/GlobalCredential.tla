--------------------------- MODULE GlobalCredential ---------------------------
(***************************************************************************)
(* The SSH key that servers without one of their own share                 *)
(* (internal/servers/global_credential.go): a row of the settings table    *)
(* and, before it, a cache that answers while the row cannot be read.      *)
(*                                                                         *)
(* Resolving reads the cache's generation, then the row, then offers what  *)
(* it read to the cache; replacing and clearing write the row, then the    *)
(* cache.  Requests run concurrently and nothing orders these steps but    *)
(* the generation.  A key is a model value, its encryption what a fault    *)
(* may make unreadable.                                                    *)
(***************************************************************************)
EXTENDS Naturals, FiniteSets

CONSTANTS
    Requests,
    Keys,
    None,      \* no key
    MaxOps,    \* bound: replacements, clearings, restarts and restores
    MaxFaults  \* bound: reads, writes and decryptions that fail

VARIABLES
    stored,      \* the key of the row
    cache,       \* the last known good key: cachedKey, cacheLoaded, cacheGeneration
    op,          \* the requests
    active,      \* whether a server action is in progress
    overlapped,  \* whether the last write of the row met another one whose
                 \* cache entry was still to come
    ops, faults

vars == <<stored, cache, op, active, overlapped, ops, faults>>

Idle == [pc |-> "idle", gen |-> 0, key |-> None]

NewCache == [key |-> None, loaded |-> FALSE, gen |-> 0]

Init ==
    /\ stored \in Keys \cup {None}
    /\ cache = NewCache
    /\ op = [r \in Requests |-> Idle]
    /\ active = FALSE
    /\ overlapped = FALSE
    /\ ops = 0 /\ faults = 0

Fault == faults < MaxFaults /\ faults' = faults + 1

Spend == ops < MaxOps /\ ops' = ops + 1

Becomes(r, o) == op' = [op EXCEPT ![r] = o]

-----------------------------------------------------------------------------

\* Resolve of a server without its own key: the generation first.
Resolve(r) ==
    /\ op[r].pc = "idle"
    /\ Becomes(r, [Idle EXCEPT !.pc = "read", !.gen = cache.gen])
    /\ UNCHANGED <<stored, cache, active, overlapped, ops, faults>>

\* The row is read and decrypted; when either fails for good the cached key
\* answers, or an error if there is none, and the cache stays as it is.
Read(r) ==
    /\ op[r].pc = "read"
    /\ \/ Becomes(r, [op[r] EXCEPT !.pc = "update", !.key = stored]) /\ UNCHANGED faults
       \/ Fault /\ Becomes(r, Idle)
    /\ UNCHANGED <<stored, cache, active, overlapped, ops>>

\* Mutant: whatever was read is cached, however old it is by now.
UpdateCache(r) ==
    /\ op[r].pc = "update"
    /\ cache' = [cache EXCEPT !.key = op[r].key, !.loaded = TRUE]
    /\ Becomes(r, Idle)
    /\ UNCHANGED <<stored, active, overlapped, ops, faults>>

UpdateCacheIfCurrent(r) ==
    /\ op[r].pc = "update"
    /\ cache' = IF cache.gen = op[r].gen
                THEN [cache EXCEPT !.key = op[r].key, !.loaded = TRUE] ELSE cache
    /\ Becomes(r, Idle)
    /\ UNCHANGED <<stored, active, overlapped, ops, faults>>

\* Replace with a key that validates, or Clear (None): refused only if a server
\* action is in progress now.
Replace(r, key) ==
    /\ op[r].pc = "idle"
    /\ Spend
    /\ ~active
    /\ Becomes(r, [Idle EXCEPT !.pc = "write", !.key = key])
    /\ UNCHANGED <<stored, cache, active, overlapped, faults>>

Writing == {r \in Requests : op[r].pc = "cache"}

Write(r) ==
    /\ op[r].pc = "write"
    /\ \/ /\ stored' = op[r].key
          /\ overlapped' = (Writing # {})
          /\ Becomes(r, [op[r] EXCEPT !.pc = "cache"])
          /\ UNCHANGED faults
       \/ Fault /\ Becomes(r, Idle) /\ UNCHANGED <<stored, overlapped>>
    /\ UNCHANGED <<cache, active, ops>>

ReplaceCache(r) ==
    /\ op[r].pc = "cache"
    /\ cache' = [key |-> op[r].key, loaded |-> TRUE, gen |-> cache.gen + 1]
    /\ Becomes(r, Idle)
    /\ UNCHANGED <<stored, active, overlapped, ops, faults>>

-----------------------------------------------------------------------------

Quiet == \A r \in Requests : op[r] = Idle

\* Server actions come and go; the key is read again at each of their dials.
Act ==
    /\ active' = ~active
    /\ UNCHANGED <<stored, cache, op, overlapped, ops, faults>>

\* ResetCache, before and after the database is replaced by that of an archive:
\* the exclusive lease waits for every request.
Restore(key) ==
    /\ Quiet /\ ~active
    /\ Spend
    /\ stored' = key
    /\ cache' = [key |-> None, loaded |-> FALSE, gen |-> cache.gen + 2]
    /\ overlapped' = FALSE
    /\ UNCHANGED <<op, active, faults>>

Restart ==
    /\ Spend
    /\ cache' = NewCache
    /\ op' = [r \in Requests |-> Idle]
    /\ active' = FALSE
    /\ overlapped' = FALSE
    /\ UNCHANGED <<stored, faults>>

Next ==
    \/ \E r \in Requests : Resolve(r) \/ Read(r) \/ UpdateCacheIfCurrent(r)
                           \/ Write(r) \/ ReplaceCache(r)
    \/ \E r \in Requests, key \in Keys \cup {None} : Replace(r, key)
    \/ \E key \in Keys \cup {None} : Restore(key)
    \/ Act \/ Restart

Spec == Init /\ [][Next]_vars

-----------------------------------------------------------------------------

TypeOK ==
    /\ stored \in Keys \cup {None}
    /\ cache \in [key : Keys \cup {None}, loaded : BOOLEAN, gen : Nat]
    /\ op \in [Requests -> [pc : {"idle", "read", "update", "write", "cache"}, gen : Nat,
                            key : Keys \cup {None}]]
    /\ active \in BOOLEAN /\ overlapped \in BOOLEAN

\* What a resolution falls back on is the present key: however old the row a
\* slow resolution read, a key that was replaced, cleared or restored over is
\* not in the cache once its replacement is done (updateCacheIfCurrent).  Two
\* replacements that overlap may cache in the other order than they stored;
\* the next one that does not overlap puts that right.
CacheFollowsStore ==
    ~overlapped /\ Writing = {} /\ cache.loaded => cache.key = stored
====
