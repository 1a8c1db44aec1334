---------------------------- MODULE StorageCache ----------------------------
(***************************************************************************)
(* The cache in front of an application's storage: pkg/istoragecache.  A   *)
(* write goes to the storage first and into the cache when the storage has *)
(* answered; a read that misses asks the storage and fills the cache with  *)
(* the answer, "no such row" included.  Only the accesses to the cache are *)
(* locked, and each for itself.                                            *)
(*                                                                         *)
(* Rows without a TTL: what TTLGet and expiry add is not modelled.         *)
(***************************************************************************)
EXTENDS FiniteSets

CONSTANTS
    Rows,           \* keys: partition key and clustering columns
    Values,
    Absent,         \* no row in the storage; nil in the cache
    NotCached,
    Users           \* goroutines of the process

ASSUME CacheConstants ==
    Absent \notin Values /\ NotCached \notin Values /\ Absent # NotCached

VARIABLES
    stored,     \* [Rows -> Values \union {Absent}]: the storage
    cached,     \* [Rows -> Values \union {Absent, NotCached}]: the cache
    op,         \* [Users -> the operation the goroutine is in]
    spoilt      \* history: rows that were deleted, written with an error, or
                \* evicted under a reader

cacheVars == <<stored, cached, op, spoilt>>

\* left: rows of the batch not yet in the storage; items: what to cache.
NoOp == [at |-> "none", left |-> {}, items |-> <<>>]

CacheInit ==
    /\ stored \in [Rows -> Values \union {Absent}]
    /\ cached = [r \in Rows |-> NotCached]
    /\ op = [u \in Users |-> NoOp]
    /\ spoilt = {}

Idle(u) == op[u].at = "none"
Become(u, o) == op' = [op EXCEPT ![u] = o]

-----------------------------------------------------------------------------
(***************************************************************************)
(* Put and PutBatch.  The rows of a batch get into the storage one by one. *)
(***************************************************************************)
PutBatch(u) ==
    /\ Idle(u)
    /\ \E rows \in SUBSET Rows \ {{}} : \E items \in [rows -> Values] :
          Become(u, [at |-> "put", left |-> rows, items |-> items])
    /\ UNCHANGED <<stored, cached, spoilt>>

StoreRow(u) ==
    /\ op[u].at = "put"
    /\ \E r \in op[u].left :
          /\ stored' = [stored EXCEPT ![r] = op[u].items[r]]
          /\ op' = [op EXCEPT ![u].left = @ \ {r}]
    /\ UNCHANGED <<cached, spoilt>>

\* The storage answers with an error: rows may be written, none is cached.
PutFails(u) ==
    /\ op[u].at = "put"
    /\ spoilt' = spoilt \union DOMAIN op[u].items
    /\ Become(u, NoOp)
    /\ UNCHANGED <<stored, cached>>

\* cacheMu is held once for the whole batch.
CacheRows(u) ==
    /\ op[u].at = "put" /\ op[u].left = {}
    /\ cached' = [r \in Rows |-> IF r \in DOMAIN op[u].items THEN op[u].items[r]
                                 ELSE cached[r]]
    /\ Become(u, NoOp)
    /\ UNCHANGED <<stored, spoilt>>

(***************************************************************************)
(* InsertIfNotExists, CompareAndSwap, CompareAndDelete: one step of the    *)
(* storage; nothing follows when the condition does not hold.              *)
(***************************************************************************)
InsertIfNotExists(u) ==
    /\ Idle(u)
    /\ \E r \in Rows, v \in Values :
          /\ stored[r] = Absent
          /\ stored' = [stored EXCEPT ![r] = v]
          /\ Become(u, [at |-> "put", left |-> {}, items |-> [x \in {r} |-> v]])
    /\ UNCHANGED <<cached, spoilt>>

CompareAndSwap(u) ==
    /\ Idle(u)
    /\ \E r \in Rows, v \in Values :
          /\ stored[r] # Absent
          /\ stored' = [stored EXCEPT ![r] = v]
          /\ Become(u, [at |-> "put", left |-> {}, items |-> [x \in {r} |-> v]])
    /\ UNCHANGED <<cached, spoilt>>

CompareAndDelete(u) ==
    /\ Idle(u)
    /\ \E r \in Rows :
          /\ stored[r] # Absent
          /\ stored' = [stored EXCEPT ![r] = Absent]
          /\ spoilt' = spoilt \union {r}
          /\ Become(u, [at |-> "delete", left |-> {r}, items |-> <<>>])
    /\ UNCHANGED cached

UncacheRow(u) ==
    /\ op[u].at = "delete"
    /\ cached' = [r \in Rows |-> IF r \in op[u].left THEN NotCached ELSE cached[r]]
    /\ Become(u, NoOp)
    /\ UNCHANGED <<stored, spoilt>>

(***************************************************************************)
(* Get and GetBatch.  A read whose rows are all cached changes nothing.    *)
(***************************************************************************)
GetMisses(u) ==
    /\ Idle(u)
    /\ \E rows \in SUBSET Rows :
          /\ \E r \in rows : cached[r] = NotCached
          /\ Become(u, [at |-> "get", left |-> rows, items |-> <<>>])
    /\ UNCHANGED <<stored, cached, spoilt>>

ReadStorage(u) ==
    /\ op[u].at = "get"
    /\ Become(u, [at |-> "fill", left |-> op[u].left,
                  items |-> [r \in op[u].left |-> stored[r]]])
    /\ UNCHANGED <<stored, cached, spoilt>>

ReadFails(u) ==
    /\ op[u].at = "get"
    /\ Become(u, NoOp)
    /\ UNCHANGED <<stored, cached, spoilt>>

\* Mutated form of Fill: nil is set whatever the cache holds.
FillBlindly(c, answer) == answer

\* A row that was found is set in any case, nil only if nothing is cached.
Fill(c, answer) == IF answer = Absent /\ c # NotCached THEN c ELSE answer

FillCache(u) ==
    /\ op[u].at = "fill"
    /\ cached' = [r \in Rows |-> IF r \in op[u].left
                                 THEN Fill(cached[r], op[u].items[r]) ELSE cached[r]]
    /\ Become(u, NoOp)
    /\ UNCHANGED <<stored, spoilt>>

-----------------------------------------------------------------------------
\* fastcache drops an entry to make room for others.
Evict ==
    /\ \E r \in Rows :
          /\ cached[r] # NotCached
          /\ cached' = [cached EXCEPT ![r] = NotCached]
          /\ spoilt' = IF \E u \in Users : op[u].at = "fill" /\ r \in op[u].left
                       THEN spoilt \union {r} ELSE spoilt
    /\ UNCHANGED <<stored, op>>

\* The process starts again with an empty cache.
CacheRestart ==
    /\ cached' = [r \in Rows |-> NotCached]
    /\ op' = [u \in Users |-> NoOp]
    /\ UNCHANGED <<stored, spoilt>>

CacheNext ==
    \/ \E u \in Users :
          \/ PutBatch(u) \/ StoreRow(u) \/ PutFails(u) \/ CacheRows(u)
          \/ InsertIfNotExists(u) \/ CompareAndSwap(u)
          \/ CompareAndDelete(u) \/ UncacheRow(u)
          \/ GetMisses(u) \/ ReadStorage(u) \/ ReadFails(u) \/ FillCache(u)
    \/ Evict
    \/ CacheRestart

CacheSpec == CacheInit /\ [][CacheNext]_cacheVars

-----------------------------------------------------------------------------
\* A writer has the row in the storage and its cache entry still to set.
Caching(r) == \E u \in Users : op[u].at = "put" /\ r \in DOMAIN op[u].items
                                                /\ r \notin op[u].left

\* A stored row is not hidden by a cached "no such row", in whatever order the
\* reads and writes of the row overlap; the writers that are about to set their
\* entry aside.  Deleted rows, failed writes and evictions under a reader are
\* outside of what the cache can promise.
StoredRowIsVisible ==
    \A r \in Rows \ spoilt :
        stored[r] # Absent /\ cached[r] = Absent => Caching(r)

=============================================================================
