-------------------------- MODULE MetricsCredential --------------------------
(***************************************************************************)
(* The Metrics Access Credential (internal/observability/token.go): one    *)
(* token, kept as a hash with its lifecycle in two rows of the settings    *)
(* table and as a cached record in memory.  Every operation holds          *)
(* metricsAccessCredential.mu, so each is one step; any of its database    *)
(* calls may fail.  A use of the token is written to the database at most  *)
(* once per UsageWriteInterval and origin.  A restore swaps the database   *)
(* under exclusive maintenance and calls Invalidate before requests are    *)
(* served again.                                                           *)
(***************************************************************************)
EXTENDS Integers

CONSTANTS Tokens,               \* the tokens Rotate can generate
          Origins,              \* masked client addresses
          UsageWriteInterval, StaleAfter,
          MaxTime               \* bound on the clock

VARIABLES stored,    \* the settings rows
          cache,     \* [loaded, record, at, origin]: the fields of the service
          archive,   \* the settings rows of a backup, or NoRecord
          now,
          spent,     \* the tokens generated so far
          use        \* ghost: the last accepted use of the token in force

vars == <<stored, cache, archive, now, spent, use>>

Never == -1
NoOrigin == "none"
NoUse == [at |-> Never, origin |-> NoOrigin]

\* MetricsCredentialRecord; the empty hash is "".
NoRecord == [hash |-> "", created |-> Never, rotated |-> Never, used |-> Never, origin |-> NoOrigin]

Unloaded == [loaded |-> FALSE, record |-> NoRecord, at |-> Never, origin |-> NoOrigin]

Init ==
  /\ stored = NoRecord /\ cache = Unloaded /\ archive = NoRecord
  /\ now = 0 /\ spent = {} /\ use = NoUse

Cached(r, at, origin) == [loaded |-> TRUE, record |-> r, at |-> at, origin |-> origin]

\* SQLiteMetricsCredentialStore.  Load reads both rows in one query, Replace
\* writes both in one transaction, UpdateLifecycle only the second.
StoreLoad == stored
StoreReplace(r) == stored' = r
StoreUpdateLifecycle(r) == stored' = [r EXCEPT !.hash = stored.hash]
StoreDelete == stored' = NoRecord

\* loadLocked: the usage last persisted is the one the rows hold.
LoadLocked ==
  IF cache.loaded THEN cache ELSE LET r == StoreLoad IN Cached(r, r.used, r.origin)

\* Status and Details.
Read ==
  /\ cache' = LoadLocked
  /\ UNCHANGED <<stored, archive, now, spent, use>>

\* Mutant: the use shown, not the use stored, is the one the interval counts from.
ShouldPersistSinceShown(c, origin) ==
  c.origin # origin \/ c.record.used = Never \/ now - c.record.used >= UsageWriteInterval

\* shouldPersistMetricsCredentialUsage
ShouldPersist(c, origin) ==
  c.origin # origin \/ c.at = Never \/ now - c.at >= UsageWriteInterval

\* VerifyWithOrigin.  A token other than the cached one is rejected; when the
\* usage cannot be written the token is not accepted either.
Verify(presented, origin) ==
  LET c == LoadLocked
      r == [c.record EXCEPT !.used = now, !.origin = origin]
  IN /\ \/ /\ presented # c.record.hash
           /\ cache' = c /\ UNCHANGED <<stored, use>>
        \/ /\ presented = c.record.hash /\ ShouldPersist(c, origin)
           /\ StoreUpdateLifecycle(r)
           /\ cache' = Cached(r, now, origin)
           /\ use' = [at |-> now, origin |-> origin]
        \/ /\ presented = c.record.hash /\ ShouldPersist(c, origin)
           /\ cache' = c /\ UNCHANGED <<stored, use>>
        \/ /\ presented = c.record.hash /\ ~ShouldPersist(c, origin)
           /\ cache' = Cached(r, c.at, c.origin)
           /\ use' = [at |-> now, origin |-> origin]
           /\ UNCHANGED stored
     /\ UNCHANGED <<archive, now, spent>>

\* Rotate: the new record keeps the creation time of the one it replaces.
Rotated(token, old) ==
  IF old.hash = "" THEN [NoRecord EXCEPT !.hash = token, !.created = now]
  ELSE [NoRecord EXCEPT !.hash = token, !.created = old.created, !.rotated = now]

Rotate(token) ==
  LET r == Rotated(token, LoadLocked.record)
  IN /\ token \notin spent /\ spent' = spent \cup {token}
     /\ \/ StoreReplace(r) /\ cache' = Cached(r, Never, NoOrigin) /\ use' = NoUse
        \/ cache' = LoadLocked /\ UNCHANGED <<stored, use>>
     /\ UNCHANGED <<archive, now>>

\* Disable deletes both rows, or fails and changes nothing.
Disable ==
  /\ StoreDelete /\ cache' = Cached(NoRecord, Never, NoOrigin) /\ use' = NoUse
  /\ UNCHANGED <<archive, now, spent>>

Invalidated == Unloaded

TakeBackup ==
  /\ archive' = stored
  /\ UNCHANGED <<stored, cache, now, spent, use>>

\* ReloadRestoredState: the restored rows, then Invalidate.
Restore ==
  /\ stored' = archive /\ cache' = Invalidated
  /\ use' = [at |-> archive.used, origin |-> archive.origin]
  /\ UNCHANGED <<archive, now, spent>>

\* The process stops and starts: only the rows are left.
Restart ==
  /\ cache' = Unloaded
  /\ UNCHANGED <<stored, archive, now, spent, use>>

Tick ==
  /\ now < MaxTime /\ now' = now + 1
  /\ UNCHANGED <<stored, cache, archive, spent, use>>

Next ==
  \/ Read \/ Disable \/ TakeBackup \/ Restore \/ Restart \/ Tick
  \/ \E t \in Tokens : Rotate(t) \/ \E o \in Origins : Verify(t, o)

Spec == Init /\ [][Next]_vars

(***************************************************************************)
(* What Details shows, and the property.                                   *)
(***************************************************************************)
\* metricsAccessDetails
Details(r) ==
  IF r.hash = "" THEN "disabled"
  ELSE IF r.used = Never THEN IF r.created = Never /\ r.rotated = Never THEN "unknown" ELSE "never_used"
  ELSE IF now - r.used >= StaleAfter THEN "stale" ELSE "current"

\* The token accepted is the token stored, and what Details would say of it now,
\* or after a crash at this moment, is true of its uses: it is not shown as
\* never used once it was accepted, not shown as used when it never was, and
\* not shown as stale within StaleAfter - UsageWriteInterval of its last use,
\* over failed writes, restarts and restores.
DetailsTellTheUse ==
  LET told == Details(LoadLocked.record) IN
  /\ LoadLocked.record.hash = stored.hash
  /\ \A d \in {told, Details(stored)} :
       /\ d \in {"never_used", "unknown"} => use = NoUse
       /\ d \in {"current", "stale"} => use # NoUse
       /\ d = "stale" => now - use.at > StaleAfter - UsageWriteInterval
=============================================================================
