----------------------- MODULE GlobalCredential_proofs -----------------------
(***************************************************************************)
(* Proof that the cached shared key follows the stored one, for any number *)
(* of requests, keys, replacements, restarts, restores and faults.         *)
(***************************************************************************)
EXTENDS GlobalCredential, TLAPS

\* No resolution is ahead of the cache: generations only grow while it runs.
Behind ==
    \A r \in Requests : op[r].pc \in {"read", "update"} => op[r].gen <= cache.gen

\* A replacement that is alone between its row and its cache entry holds the
\* key of the row.
WriterHoldsStored ==
    ~overlapped =>
        /\ \A r \in Requests : op[r].pc = "cache" => op[r].key = stored
        /\ \A r, s \in Requests : op[r].pc = "cache" /\ op[s].pc = "cache" => r = s

\* What a resolution may still cache is the key of the row: if its generation is
\* the present one, nothing was replaced since it read.
ReaderHoldsStored ==
    ~overlapped /\ Writing = {} =>
        \A r \in Requests : op[r].pc = "update" /\ op[r].gen = cache.gen => op[r].key = stored

IInv ==
    TypeOK /\ Behind /\ WriterHoldsStored /\ ReaderHoldsStored /\ CacheFollowsStore

\* The invariant holds at the start.
LEMMA InitIInv == Init => IInv
  <1> SUFFICES ASSUME Init PROVE IInv
    BY Zenon
  <1> USE DEF Init, Idle, NewCache
  <1>1. \A r \in Requests : op[r] = Idle
    BY Zenon
  <1>2. TypeOK
    BY Zenon DEF TypeOK
  <1>3. Writing = {}
    BY <1>1, Zenon DEF Writing
  <1>4. Behind /\ WriterHoldsStored /\ ReaderHoldsStored
    BY <1>1, Zenon DEF Behind, WriterHoldsStored, ReaderHoldsStored
  <1>5. CacheFollowsStore
    BY Zenon DEF CacheFollowsStore
  <1> QED BY <1>2, <1>4, <1>5, Zenon DEF IInv

\* A resolution notes the generation of the cache.
LEMMA ResolveIInv ==
    ASSUME IInv, NEW r \in Requests, Resolve(r)
    PROVE  IInv'
  <1> USE DEF IInv, Resolve, Becomes, Idle
  <1>1. TypeOK'
    BY Zenon DEF TypeOK
  <1>2. Behind'
    BY DEF TypeOK, Behind
  <1>3. WriterHoldsStored'
    BY Zenon DEF TypeOK, WriterHoldsStored
  <1>4. Writing' = Writing
    BY Zenon DEF TypeOK, Writing
  <1>5. ReaderHoldsStored' /\ CacheFollowsStore'
    BY <1>4, Zenon DEF TypeOK, ReaderHoldsStored, CacheFollowsStore
  <1> QED BY <1>1, <1>2, <1>3, <1>5, Zenon

\* A resolution reads the row, or fails.
LEMMA ReadIInv ==
    ASSUME IInv, NEW r \in Requests, Read(r)
    PROVE  IInv'
  <1> USE DEF IInv, Idle, Becomes
  <1>0. op[r].pc = "read" /\ UNCHANGED <<stored, cache, active, overlapped>>
    BY Zenon DEF Read
  <1>1. PICK o :
           /\ op' = [op EXCEPT ![r] = o]
           /\ o \in [pc : {"idle", "update"}, gen : Nat, key : Keys \cup {None}]
           /\ o.pc = "update" => o.key = stored /\ o.gen = op[r].gen
    <2>1. CASE op' = [op EXCEPT ![r] = [op[r] EXCEPT !.pc = "update", !.key = stored]]
      <3> DEFINE o == [op[r] EXCEPT !.pc = "update", !.key = stored]
      <3>1. op[r] \in [pc : {"idle", "read", "update", "write", "cache"}, gen : Nat,
                       key : Keys \cup {None}] /\ stored \in Keys \cup {None}
        BY Zenon DEF TypeOK
      <3>2. o \in [pc : {"idle", "update"}, gen : Nat, key : Keys \cup {None}]
        BY <3>1, Zenon
      <3>3. o.key = stored /\ o.gen = op[r].gen
        BY <3>1, Zenon
      <3> HIDE DEF o
      <3> QED BY <2>1, <3>2, <3>3, Zenon DEF o
    <2>2. CASE op' = [op EXCEPT ![r] = Idle]
      <3>1. Idle \in [pc : {"idle", "update"}, gen : Nat, key : Keys \cup {None}]
            /\ Idle.pc = "idle"
        BY Zenon
      <3> QED BY <2>2, <3>1, Zenon
    <2> QED BY <2>1, <2>2, Zenon DEF Read
  <1> USE <1>0, <1>1
  <1>2. TypeOK' /\ Behind'
    BY Zenon DEF TypeOK, Behind
  <1>3. WriterHoldsStored'
    BY Zenon DEF TypeOK, WriterHoldsStored
  <1>4. \A q \in Requests : op'[q].pc = "cache" <=> op[q].pc = "cache"
    BY Zenon DEF TypeOK
  <1>5. Writing' = Writing
    BY <1>4, Zenon DEF Writing
  <1>6. ReaderHoldsStored'
    BY <1>5, Zenon DEF TypeOK, ReaderHoldsStored
  <1>7. CacheFollowsStore'
    BY <1>5, Zenon DEF CacheFollowsStore
  <1> QED BY <1>2, <1>3, <1>6, <1>7, Zenon

\* A resolution caches what it read if its generation is still the present one.
LEMMA UpdateIInv ==
    ASSUME IInv, NEW r \in Requests, UpdateCacheIfCurrent(r)
    PROVE  IInv'
  <1> USE DEF IInv, UpdateCacheIfCurrent, Becomes, Idle
  <1>1. TypeOK'
    BY Zenon DEF TypeOK
  <1>2. Behind'
    BY Zenon DEF TypeOK, Behind
  <1>3. WriterHoldsStored'
    BY Zenon DEF TypeOK, WriterHoldsStored
  <1>4. Writing' = Writing
    BY Zenon DEF TypeOK, Writing
  <1>5. ReaderHoldsStored' /\ CacheFollowsStore'
    BY <1>4, Zenon DEF TypeOK, ReaderHoldsStored, CacheFollowsStore
  <1> QED BY <1>1, <1>2, <1>3, <1>5, Zenon

\* A replacement passes its check for actions in progress.
LEMMA ReplaceIInv ==
    ASSUME IInv, NEW r \in Requests, NEW key \in Keys \cup {None}, Replace(r, key)
    PROVE  IInv'
  <1> USE DEF IInv, Replace, Spend, Becomes, Idle
  <1>1. TypeOK'
    BY Zenon DEF TypeOK
  <1>2. Behind'
    BY Zenon DEF TypeOK, Behind
  <1>3. WriterHoldsStored'
    BY Zenon DEF TypeOK, WriterHoldsStored
  <1>4. Writing' = Writing
    BY Zenon DEF TypeOK, Writing
  <1>5. ReaderHoldsStored' /\ CacheFollowsStore'
    BY <1>4, Zenon DEF TypeOK, ReaderHoldsStored, CacheFollowsStore
  <1> QED BY <1>1, <1>2, <1>3, <1>5, Zenon

\* A replacement writes the row, or fails.
LEMMA WriteIInv ==
    ASSUME IInv, NEW r \in Requests, Write(r)
    PROVE  IInv'
  <1> USE DEF IInv, Idle
  <1>1. CASE Fault /\ Becomes(r, Idle) /\ UNCHANGED <<stored, cache, active, overlapped>>
    <2> USE <1>1 DEF Write, Becomes
    <2>1. TypeOK'
      BY Zenon DEF TypeOK
    <2>2. Behind' /\ WriterHoldsStored'
      BY Zenon DEF TypeOK, Behind, WriterHoldsStored
    <2>3. \A q \in Requests : op'[q].pc = "cache" <=> op[q].pc = "cache"
      BY Zenon DEF TypeOK
    <2>4. Writing' = Writing
      BY <2>3, Zenon DEF Writing
    <2>5. ReaderHoldsStored' /\ CacheFollowsStore'
      BY <2>4, Zenon DEF TypeOK, ReaderHoldsStored, CacheFollowsStore
    <2> QED BY <2>1, <2>2, <2>5, Zenon
  <1>2. CASE /\ stored' = op[r].key
             /\ overlapped' = (Writing # {})
             /\ Becomes(r, [op[r] EXCEPT !.pc = "cache"])
             /\ UNCHANGED <<cache, active>>
    <2> USE <1>2 DEF Becomes
    <2>1. TypeOK'
      BY ZenonT(40) DEF TypeOK
    <2>2. Behind'
      BY ZenonT(40) DEF TypeOK, Behind
    <2>3. op'[r].pc = "cache" /\ op'[r].key = stored'
      BY Zenon DEF TypeOK
    <2>4. r \in Writing'
      BY <2>3, Zenon DEF Writing
    <2>5. ~overlapped' => \A q \in Requests : q # r => op'[q].pc # "cache"
      BY Zenon DEF TypeOK, Writing
    <2>6. WriterHoldsStored'
      BY <2>3, <2>5, Zenon DEF WriterHoldsStored
    <2> QED BY <2>1, <2>2, <2>4, <2>6, Zenon DEF ReaderHoldsStored, CacheFollowsStore
  <1> QED BY <1>1, <1>2, Zenon DEF Write

\* A replacement caches the key it wrote.
LEMMA ReplaceCacheIInv ==
    ASSUME IInv, NEW r \in Requests, ReplaceCache(r)
    PROVE  IInv'
  <1> USE DEF IInv, ReplaceCache, Becomes, Idle
  <1>1. TypeOK'
    BY DEF TypeOK
  <1>2. Behind'
    BY DEF TypeOK, Behind
  <1>3. WriterHoldsStored'
    BY Zenon DEF TypeOK, WriterHoldsStored
  <1>4. \A q \in Requests : op'[q].pc = "update" => op'[q].gen # cache'.gen
    BY DEF TypeOK, Behind
  <1>5. ReaderHoldsStored'
    BY <1>4, Zenon DEF ReaderHoldsStored
  <1>6. CacheFollowsStore'
    BY Zenon DEF TypeOK, WriterHoldsStored, CacheFollowsStore
  <1> QED BY <1>1, <1>2, <1>3, <1>5, <1>6, Zenon

\* A restore meets no request, a restart ends them all.
LEMMA RestoreIInv ==
    ASSUME IInv, NEW key \in Keys \cup {None}, Restore(key)
    PROVE  IInv'
  <1> USE DEF Restore, Idle
  <1>1. TypeOK'
    <2>1. cache.gen + 2 \in Nat
      BY DEF IInv, TypeOK
    <2> QED BY <2>1, Zenon DEF IInv, TypeOK
  <1>2. \A q \in Requests : op'[q].pc = "idle"
    BY DEF Quiet
  <1>3. Behind' /\ WriterHoldsStored' /\ ReaderHoldsStored'
    BY <1>2, Zenon DEF Behind, WriterHoldsStored, ReaderHoldsStored
  <1>4. CacheFollowsStore'
    BY Zenon DEF CacheFollowsStore
  <1> QED BY <1>1, <1>3, <1>4, Zenon DEF IInv

\* A restart empties the cache.
LEMMA RestartIInv ==
    ASSUME IInv, Restart
    PROVE  IInv'
  <1> USE DEF Restart, Idle, NewCache
  <1>1. TypeOK'
    BY Zenon DEF IInv, TypeOK
  <1>2. \A q \in Requests : op'[q].pc = "idle"
    BY Zenon
  <1>3. Behind' /\ WriterHoldsStored' /\ ReaderHoldsStored'
    BY <1>2, Zenon DEF Behind, WriterHoldsStored, ReaderHoldsStored
  <1>4. CacheFollowsStore'
    BY Zenon DEF CacheFollowsStore
  <1> QED BY <1>1, <1>3, <1>4, Zenon DEF IInv

\* Every step keeps the invariant.
LEMMA NextIInv == IInv /\ [Next]_vars => IInv'
  <1> SUFFICES ASSUME IInv, [Next]_vars PROVE IInv'
    BY Zenon
  <1>1. CASE Act
    BY <1>1, Zenon DEF Act, IInv, TypeOK, Behind, WriterHoldsStored, ReaderHoldsStored,
                CacheFollowsStore, Writing
  <1>2. CASE UNCHANGED vars
    BY <1>2, Zenon DEF vars, IInv, TypeOK, Behind, WriterHoldsStored, ReaderHoldsStored,
                CacheFollowsStore, Writing
  <1> QED
    BY <1>1, <1>2, ResolveIInv, ReadIInv, UpdateIInv, ReplaceIInv, WriteIInv,
       ReplaceCacheIInv, RestoreIInv, RestartIInv, Zenon DEF Next

\* Whatever the number of requests and keys, and however often the key is
\* replaced, cleared, restored over or the process restarted: unless two
\* replacements overlapped, the key updateCacheIfCurrent and replaceCache leave
\* to fall back on is the stored one.
THEOREM CacheIsCurrent == Spec => []CacheFollowsStore
  <1>1. IInv => CacheFollowsStore
    BY Zenon DEF IInv
  <1> QED BY <1>1, InitIInv, NextIInv, PTL DEF Spec
==============================================================================
