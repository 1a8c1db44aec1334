---------------------------- MODULE StorageProofs ----------------------------
(***************************************************************************)
(* Proofs about the storage, for any rows, values and times to live and    *)
(* any number of users at the same time: a cached "no such row" never      *)
(* hides a stored row (StorageCache), no row escapes the cleaner of the    *)
(* bbolt driver (BboltStorage), and a BLOB of any size is read whole       *)
(* (BlobStorage).                                                          *)
(***************************************************************************)
EXTENDS StorageCache, BboltStorage, BlobStorage, FiniteSetTheorems, TLAPS

-----------------------------------------------------------------------------
(* StorageCache. *)

LEMMA Distinct == Absent \notin Values /\ NotCached \notin Values /\ Absent # NotCached
BY CacheConstants DEF CacheConstants

-----------------------------------------------------------------------------
(* What the goroutines hold. *)

MapsType ==
    /\ stored \in [Rows -> Values \union {Absent}]
    /\ cached \in [Rows -> Values \union {Absent, NotCached}]
    /\ op = [u \in Users |-> op[u]]

\* An operation of a goroutine: a writer has values for all it has yet to
\* write, a deleter has spoilt its rows, a reader has an answer for each row.
OpOK(u) ==
    /\ op[u] = [at |-> op[u].at, left |-> op[u].left, items |-> op[u].items]
    /\ op[u].left \subseteq Rows
    /\ op[u].at \in {"none", "put", "delete", "get", "fill"}
    /\ op[u].at = "put" =>
          /\ op[u].left \subseteq DOMAIN op[u].items
          /\ DOMAIN op[u].items \subseteq Rows
          /\ \A r \in DOMAIN op[u].items : op[u].items[r] \in Values
    /\ op[u].at = "delete" => op[u].left \subseteq spoilt
    /\ op[u].at = "fill" =>
          \A r \in op[u].left : op[u].items[r] \in Values \union {Absent}

OpsOK == MapsType /\ \A u \in Users : OpOK(u)

\* A reader is about to cache "no such row" for r.
HoldsAbsent(r) == \E u \in Users : /\ op[u].at = "fill" /\ r \in op[u].left
                                   /\ op[u].items[r] = Absent

\* While a stored row has no cache entry and nobody is about to set it, no
\* reader holds an answer from before the row was stored.
RowIsSafe(r) ==
    r \notin spoilt /\ stored[r] # Absent =>
        \/ Caching(r)
        \/ cached[r] \in Values
        \/ cached[r] = NotCached /\ ~HoldsAbsent(r)

CacheInv == OpsOK /\ \A r \in Rows : RowIsSafe(r)

LEMMA InvHolds == CacheInit => CacheInv
<1> SUFFICES ASSUME CacheInit  PROVE CacheInv
  OBVIOUS
<1>1. OpsOK  BY DEF CacheInit, NoOp, OpsOK, MapsType, OpOK
<1>2. \A r \in Rows : RowIsSafe(r)
  BY DEF CacheInit, NoOp, RowIsSafe, HoldsAbsent
<1> QED  BY <1>1, <1>2 DEF CacheInv

LEMMA InvVisible == CacheInv => StoredRowIsVisible
BY Distinct DEF CacheInv, RowIsSafe, StoredRowIsVisible

-----------------------------------------------------------------------------
(* The steps that only change what one goroutine is doing. *)

\* A goroutine takes up an operation o; no row is harmed unless it ceases to
\* write one that is not spoilt, or begins to hold "no such row" for one.
LEMMA BecomeKeeps ==
    ASSUME CacheInv, NEW u \in Users, NEW o, Become(u, o),
           UNCHANGED <<stored, cached>>, spoilt \subseteq spoilt',
           OpOK(u)',
           \A r \in Rows \ spoilt' :
               op[u].at = "put" /\ r \in DOMAIN op[u].items /\ r \notin op[u].left =>
                   o.at = "put" /\ r \in DOMAIN o.items /\ r \notin o.left,
           \A r \in Rows : o.at = "fill" /\ r \in o.left /\ stored[r] # Absent =>
                               o.items[r] # Absent
    PROVE  CacheInv'
<1> USE DEF CacheInv, OpsOK, MapsType, Become
<1>1. op'[u] = o /\ \A w \in Users \ {u} : op'[w] = op[w]
  OBVIOUS
<1>2. OpsOK'
  <2>1. MapsType'
    BY <1>1
  <2>2. ASSUME NEW w \in Users \ {u}  PROVE OpOK(w)'
    BY <1>1, <2>2 DEF OpOK
  <2> QED  BY <2>1, <2>2
<1>3. ASSUME NEW r \in Rows, r \notin spoilt', stored'[r] # Absent
      PROVE  \/ Caching(r)'
             \/ cached'[r] \in Values
             \/ cached'[r] = NotCached /\ ~HoldsAbsent(r)'
  <2>1. r \notin spoilt /\ stored[r] # Absent /\ RowIsSafe(r)
    BY <1>3
  <2>2. Caching(r) => Caching(r)'
    BY <1>1, <1>3 DEF Caching
  <2>3. HoldsAbsent(r)' => HoldsAbsent(r)
    BY <1>1, <2>1 DEF HoldsAbsent
  <2>4. cached' = cached
    OBVIOUS
  <2> HIDE DEF CacheInv, OpsOK, MapsType
  <2> QED  BY <2>1, <2>2, <2>3, <2>4 DEF RowIsSafe
<1> QED  BY <1>2, <1>3 DEF RowIsSafe

LEMMA BeginKeeps ==
    ASSUME CacheInv, NEW u \in Users,
           PutBatch(u) \/ GetMisses(u)
    PROVE  CacheInv'
<1> USE DEF CacheInv, OpsOK, MapsType, Idle
<1>1. CASE PutBatch(u)
  <2>1. PICK rows \in SUBSET Rows \ {{}} : \E items \in [rows -> Values] :
            Become(u, [at |-> "put", left |-> rows, items |-> items])
    BY <1>1 DEF PutBatch
  <2>2. PICK items \in [rows -> Values] :
            Become(u, [at |-> "put", left |-> rows, items |-> items])
    BY <2>1
  <2>3. OpOK(u)'  BY <2>2 DEF Become, OpOK
  <2> QED  BY <1>1, <2>2, <2>3, BecomeKeeps DEF PutBatch
<1>2. CASE GetMisses(u)
  <2>1. PICK rows \in SUBSET Rows :
            Become(u, [at |-> "get", left |-> rows, items |-> <<>>])
    BY <1>2 DEF GetMisses
  <2>2. OpOK(u)'  BY <2>1 DEF Become, OpOK
  <2> QED  BY <1>2, <2>1, <2>2, BecomeKeeps DEF GetMisses
<1> QED  BY <1>1, <1>2

LEMMA EndKeeps ==
    ASSUME CacheInv, NEW u \in Users,
           PutFails(u) \/ ReadFails(u) \/ ReadStorage(u)
    PROVE  CacheInv'
<1> USE DEF CacheInv, OpsOK, MapsType
<1>1. CASE PutFails(u)
  <2>1. OpOK(u)'  BY <1>1 DEF PutFails, Become, NoOp, OpOK
  <2> QED  BY <1>1, <2>1, BecomeKeeps DEF PutFails, NoOp
<1>2. CASE ReadFails(u)
  <2>1. OpOK(u)'  BY <1>2 DEF ReadFails, Become, NoOp, OpOK
  <2> QED  BY <1>2, <2>1, BecomeKeeps DEF ReadFails, NoOp
<1>3. CASE ReadStorage(u)
  <2> DEFINE o == [at |-> "fill", left |-> op[u].left,
                   items |-> [r \in op[u].left |-> stored[r]]]
  <2>1. OpOK(u)'  BY <1>3 DEF ReadStorage, Become, OpOK
  <2>2. Become(u, o) /\ UNCHANGED <<stored, cached, spoilt>> /\ op[u].at = "get"
    BY <1>3 DEF ReadStorage
  <2> HIDE DEF CacheInv, OpsOK, MapsType
  <2>3. \A r \in Rows : o.at = "fill" /\ r \in o.left /\ stored[r] # Absent =>
                            o.items[r] # Absent
    OBVIOUS
  <2> QED  BY <2>1, <2>2, <2>3, BecomeKeeps
<1> QED  BY <1>1, <1>2, <1>3

-----------------------------------------------------------------------------
(* The steps that change the storage: the row has a writer afterwards, or is *)
(* spoilt.                                                                   *)

LEMMA StoreKeeps ==
    ASSUME CacheInv, NEW u \in Users, NEW r \in Rows, NEW v \in Values \union {Absent},
           NEW o, Become(u, o), OpOK(u)', o.at \in {"put", "delete"},
           stored' = [stored EXCEPT ![r] = v], cached' = cached,
           spoilt \subseteq spoilt',
           v = Absent => r \in spoilt',
           v # Absent => o.at = "put" /\ r \in DOMAIN o.items /\ r \notin o.left,
           \A x \in Rows :
               op[u].at = "put" /\ x \in DOMAIN op[u].items /\ x \notin op[u].left =>
                   o.at = "put" /\ x \in DOMAIN o.items /\ x \notin o.left
    PROVE  CacheInv'
<1> USE DEF CacheInv, OpsOK, MapsType, Become
<1>1. op'[u] = o /\ \A w \in Users \ {u} : op'[w] = op[w]
  OBVIOUS
<1>2. OpsOK'
  <2>1. MapsType'
    BY <1>1
  <2>2. ASSUME NEW w \in Users \ {u}  PROVE OpOK(w)'
    BY <1>1, <2>2 DEF OpOK
  <2> QED  BY <2>1, <2>2
<1>3. ASSUME NEW x \in Rows, x \notin spoilt', stored'[x] # Absent
      PROVE  \/ Caching(x)'
             \/ cached'[x] \in Values
             \/ cached'[x] = NotCached /\ ~HoldsAbsent(x)'
  <2>1. CASE x = r
    <3>1. v # Absent
      BY <1>3, <2>1
    <3>2. op'[u].at = "put" /\ r \in DOMAIN op'[u].items /\ r \notin op'[u].left
      BY <1>1, <3>1
    <3>3. Caching(r)'
      BY <3>2 DEF Caching
    <3> QED  BY <2>1, <3>3
  <2>2. CASE x # r
    <3>1. x \notin spoilt /\ stored[x] # Absent /\ RowIsSafe(x)
      BY <1>3, <2>2
    <3>2. Caching(x) => Caching(x)'
      BY <1>1 DEF Caching
    <3>3. HoldsAbsent(x)' => HoldsAbsent(x)
      BY <1>1 DEF HoldsAbsent
    <3> HIDE DEF CacheInv, OpsOK, MapsType
    <3> QED  BY <3>1, <3>2, <3>3 DEF RowIsSafe
  <2> QED  BY <2>1, <2>2
<1> QED  BY <1>2, <1>3 DEF RowIsSafe

LEMMA WriteKeeps ==
    ASSUME CacheInv, NEW u \in Users,
           StoreRow(u) \/ InsertIfNotExists(u) \/ CompareAndSwap(u) \/ CompareAndDelete(u)
    PROVE  CacheInv'
<1> USE DEF CacheInv, OpsOK, MapsType
<1>1. CASE StoreRow(u)
  <2>1. PICK r \in op[u].left :
            /\ stored' = [stored EXCEPT ![r] = op[u].items[r]]
            /\ op' = [op EXCEPT ![u].left = @ \ {r}]
    BY <1>1 DEF StoreRow
  <2> DEFINE o == [op[u] EXCEPT !.left = @ \ {r}]
  <2>2. /\ op[u].at = "put" /\ r \in Rows /\ r \in DOMAIN op[u].items
        /\ op[u].items[r] \in Values
    BY <1>1 DEF StoreRow, OpOK
  <2>3. o = [at |-> "put", left |-> op[u].left \ {r}, items |-> op[u].items]
    <3>1. op[u] = [at |-> "put", left |-> op[u].left, items |-> op[u].items]
      BY <2>2 DEF OpOK
    <3> QED  BY <3>1
  <2>4. Become(u, o)  BY <2>1 DEF Become
  <2> HIDE DEF o
  <2>5. OpOK(u)'
    <3>1. op'[u] = o  BY <2>4 DEF Become
    <3>2. OpOK(u)  OBVIOUS
    <3>3. /\ op'[u].at = "put" /\ op'[u].left = op[u].left \ {r}
          /\ op'[u].items = op[u].items
      BY <2>3, <3>1
    <3>4. op'[u] = [at |-> op'[u].at, left |-> op'[u].left, items |-> op'[u].items]
      BY <2>3, <3>1, <3>3
    <3> HIDE DEF CacheInv, OpsOK, MapsType
    <3> QED  BY <2>2, <3>2, <3>3, <3>4 DEF OpOK
  <2>6. /\ o.at = "put" /\ r \in DOMAIN o.items /\ r \notin o.left
        /\ \A x \in Rows : x \in DOMAIN op[u].items /\ x \notin op[u].left
                             => x \in DOMAIN o.items /\ x \notin o.left
    BY <2>2, <2>3
  <2>7. op[u].items[r] # Absent /\ cached' = cached /\ spoilt' = spoilt
    BY <1>1, <2>2, Distinct DEF StoreRow
  <2> HIDE DEF CacheInv, OpsOK, MapsType
  <2> QED  BY <2>1, <2>2, <2>4, <2>5, <2>6, <2>7, StoreKeeps
<1>2. ASSUME NEW r \in Rows, NEW v \in Values, Idle(u), cached' = cached, spoilt' = spoilt,
             stored' = [stored EXCEPT ![r] = v],
             Become(u, [at |-> "put", left |-> {}, items |-> [x \in {r} |-> v]])
      PROVE  CacheInv'
  <2> DEFINE o == [at |-> "put", left |-> {}, items |-> [x \in {r} |-> v]]
  <2>1. OpOK(u)'  BY <1>2 DEF Become, OpOK
  <2>2. /\ o.at = "put" /\ r \in DOMAIN o.items /\ r \notin o.left
        /\ Become(u, o) /\ op[u].at = "none" /\ v # Absent
    BY <1>2, Distinct DEF Idle
  <2> HIDE DEF o, CacheInv, OpsOK, MapsType
  <2> QED  BY <1>2, <2>1, <2>2, StoreKeeps
<1>3. CASE InsertIfNotExists(u)  BY <1>2, <1>3 DEF InsertIfNotExists
<1>4. CASE CompareAndSwap(u)  BY <1>2, <1>4 DEF CompareAndSwap
<1>5. CASE CompareAndDelete(u)
  <2>1. PICK r \in Rows :
            /\ stored' = [stored EXCEPT ![r] = Absent]
            /\ spoilt' = spoilt \union {r}
            /\ Become(u, [at |-> "delete", left |-> {r}, items |-> <<>>])
    BY <1>5 DEF CompareAndDelete
  <2>2. OpOK(u)'  BY <2>1 DEF Become, OpOK
  <2> QED  BY <1>5, <2>1, <2>2, StoreKeeps DEF CompareAndDelete, Idle
<1> QED  BY <1>1, <1>3, <1>4, <1>5

-----------------------------------------------------------------------------
(* The steps that change the cache. *)

\* u ends its operation; a row that has no entry afterwards had none before
\* and no reader that would harm it.
LEMMA CacheKeeps ==
    ASSUME CacheInv, NEW u \in Users, Become(u, NoOp),
           stored' = stored, spoilt' = spoilt,
           cached' \in [Rows -> Values \union {Absent, NotCached}],
           \A r \in Rows \ spoilt :
               \/ cached'[r] \in Values
               \/ /\ cached'[r] = cached[r]
                  /\ ~(op[u].at = "put" /\ r \in DOMAIN op[u].items)
               \/ stored[r] # Absent => /\ Caching(r)
                                        /\ op[u].at # "put"
    PROVE  CacheInv'
<1> USE DEF CacheInv, OpsOK, MapsType, Become
<1>1. op'[u] = NoOp /\ \A w \in Users \ {u} : op'[w] = op[w]
  OBVIOUS
<1>2. OpsOK'
  <2>1. MapsType'
    BY <1>1
  <2>2. ASSUME NEW w \in Users \ {u}  PROVE OpOK(w)'
    BY <1>1, <2>2 DEF OpOK
  <2>3. OpOK(u)'
    BY <1>1 DEF OpOK, NoOp
  <2> QED  BY <2>1, <2>2, <2>3
<1>3. ASSUME NEW r \in Rows, r \notin spoilt', stored'[r] # Absent
      PROVE  \/ Caching(r)'
             \/ cached'[r] \in Values
             \/ cached'[r] = NotCached /\ ~HoldsAbsent(r)'
  <2>1. RowIsSafe(r)
    OBVIOUS
  <2>2. Caching(r) /\ ~(op[u].at = "put" /\ r \in DOMAIN op[u].items) => Caching(r)'
    BY <1>1 DEF Caching
  <2>3. HoldsAbsent(r)' => HoldsAbsent(r)
    BY <1>1 DEF HoldsAbsent, NoOp
  <2>4. r \notin spoilt /\ stored[r] # Absent
    BY <1>3
  <2>5. \/ cached'[r] \in Values
        \/ cached'[r] = cached[r] /\ ~(op[u].at = "put" /\ r \in DOMAIN op[u].items)
        \/ Caching(r) /\ op[u].at # "put"
    BY <2>4
  <2> HIDE DEF CacheInv, OpsOK, MapsType
  <2> QED  BY <2>1, <2>2, <2>3, <2>4, <2>5 DEF RowIsSafe
<1> QED  BY <1>2, <1>3 DEF RowIsSafe

LEMMA SetEntriesKeeps ==
    ASSUME CacheInv, NEW u \in Users,
           CacheRows(u) \/ UncacheRow(u) \/ FillCache(u)
    PROVE  CacheInv'
<1> USE DEF CacheInv, OpsOK, MapsType
<1>0. OpOK(u)
  OBVIOUS
<1>1. CASE CacheRows(u)
  <2>1. cached' \in [Rows -> Values \union {Absent, NotCached}]
    BY <1>0, <1>1 DEF CacheRows, OpOK
  <2>2. \A r \in Rows : \/ cached'[r] \in Values
                        \/ cached'[r] = cached[r] /\ r \notin DOMAIN op[u].items
    BY <1>0, <1>1 DEF CacheRows, OpOK
  <2> QED  BY <1>1, <2>1, <2>2, CacheKeeps DEF CacheRows
<1>2. CASE UncacheRow(u)
  <2>1. cached' \in [Rows -> Values \union {Absent, NotCached}]
    BY <1>2 DEF UncacheRow
  <2>2. \A r \in Rows \ spoilt : cached'[r] = cached[r]
    BY <1>0, <1>2 DEF UncacheRow, OpOK
  <2> QED  BY <1>2, <2>1, <2>2, CacheKeeps DEF UncacheRow
<1>3. CASE FillCache(u)
  <2>1. \A r \in op[u].left : op[u].items[r] \in Values \union {Absent}
    BY <1>0, <1>3 DEF FillCache, OpOK
  <2>2. cached' \in [Rows -> Values \union {Absent, NotCached}]
    BY <1>3, <2>1 DEF FillCache, Fill
  <2>3. ASSUME NEW r \in Rows \ spoilt
        PROVE  \/ cached'[r] \in Values
               \/ cached'[r] = cached[r]
               \/ stored[r] # Absent => Caching(r)
    <3>1. CASE r \notin op[u].left  BY <1>3, <3>1 DEF FillCache
    <3>2. CASE r \in op[u].left /\ op[u].items[r] # Absent
      BY <1>3, <2>1, <3>2 DEF FillCache, Fill
    <3>3. CASE r \in op[u].left /\ op[u].items[r] = Absent /\ cached[r] # NotCached
      BY <1>3, <3>3 DEF FillCache, Fill
    <3>4. CASE r \in op[u].left /\ op[u].items[r] = Absent /\ cached[r] = NotCached
      <4>1. HoldsAbsent(r)  BY <1>3, <3>4 DEF FillCache, HoldsAbsent
      <4>2. RowIsSafe(r)  OBVIOUS
      <4> QED  BY <3>4, <4>1, <4>2, Distinct DEF RowIsSafe
    <3> QED  BY <3>1, <3>2, <3>3, <3>4
  <2>4. op[u].at = "fill"  BY <1>3 DEF FillCache
  <2> QED  BY <1>3, <2>2, <2>3, <2>4, CacheKeeps DEF FillCache
<1> QED  BY <1>1, <1>2, <1>3

LEMMA EvictKeeps ==
    ASSUME CacheInv, Evict
    PROVE  CacheInv'
<1> USE DEF CacheInv, OpsOK, MapsType
<1>1. PICK r \in Rows :
          /\ cached' = [cached EXCEPT ![r] = NotCached]
          /\ spoilt' = IF \E u \in Users : op[u].at = "fill" /\ r \in op[u].left
                       THEN spoilt \union {r} ELSE spoilt
  BY DEF Evict
<1>2. stored' = stored /\ op' = op /\ spoilt \subseteq spoilt'
  BY <1>1 DEF Evict
<1>3. OpsOK'
  BY <1>1, <1>2 DEF OpOK
<1>4. ASSUME NEW x \in Rows  PROVE RowIsSafe(x)'
  <2>1. RowIsSafe(x)
    OBVIOUS
  <2>2. CASE x # r
    BY <1>1, <1>2, <2>1, <2>2 DEF RowIsSafe, Caching, HoldsAbsent
  <2>3. CASE x = r
    BY <1>1, <1>2, <2>3 DEF RowIsSafe, HoldsAbsent
  <2> QED  BY <2>2, <2>3
<1> QED  BY <1>3, <1>4

LEMMA RestartKeeps ==
    ASSUME CacheInv, CacheRestart
    PROVE  CacheInv'
<1>1. OpsOK'
  BY DEF CacheInv, OpsOK, MapsType, CacheRestart, NoOp, OpOK
<1>2. ASSUME NEW r \in Rows  PROVE RowIsSafe(r)'
  BY DEF CacheRestart, NoOp, RowIsSafe, HoldsAbsent
<1> QED  BY <1>1, <1>2 DEF CacheInv

-----------------------------------------------------------------------------
\* "No such row" in the cache (istoragecache, Get and GetBatch) never hides a
\* row of the storage, however reads and writes of it overlap.
THEOREM StoredRowsAreVisible == CacheSpec => []StoredRowIsVisible
<1>1. CacheInv /\ [CacheNext]_cacheVars => CacheInv'
  <2> SUFFICES ASSUME CacheInv, [CacheNext]_cacheVars  PROVE CacheInv'
    OBVIOUS
  <2>1. CASE UNCHANGED cacheVars
    BY <2>1 DEF cacheVars, CacheInv, OpsOK, MapsType, OpOK, RowIsSafe, Caching, HoldsAbsent
  <2>2. CASE CacheNext
    BY <2>2, BeginKeeps, EndKeeps, WriteKeeps, SetEntriesKeeps, EvictKeeps, RestartKeeps
    DEF CacheNext
  <2> QED  BY <2>1, <2>2
<1> QED  BY <1>1, InvHolds, InvVisible, PTL DEF CacheSpec

-----------------------------------------------------------------------------
(***************************************************************************)
(* BboltStorage.  A stored row carries an expiration or none, and the      *)
(* second transaction of a conditional write sets one of the TTLs.         *)
(***************************************************************************)
Lives == Nat \union {Forever}

BboltTypeOK ==
    /\ \A k \in DataKeys : dataBucket[k] # NoRow =>
          dataBucket[k] = [data |-> dataBucket[k].data, life |-> dataBucket[k].life]
          /\ dataBucket[k].life \in Lives
    /\ dataBucket = [k \in DataKeys |-> dataBucket[k]]
    /\ writing = [g \in StorageUsers |-> writing[g]]
    /\ \A g \in StorageUsers : writing[g].ccols \in CCols /\ writing[g].ttl \in Nat

BboltInv == BboltTypeOK /\ ExpiringRowsAreIndexed

LEMMA BboltFacts ==
    /\ EmptyCCols \in CCols /\ Forever \notin Nat /\ TTLs \subseteq Nat
    /\ \A c \in CCols : SafeKey(c) \in DataKeys
    /\ \A l \in Lives : Older(l) \in Lives /\ (Older(l) = Forever <=> l = Forever)
BY BboltConstants DEF BboltConstants, DataKeys, Lives, Older

LEMMA BboltInvInit == BboltInit => BboltInv
BY BboltFacts DEF BboltInit, BboltInv, BboltTypeOK, NoWrite, ExpiringRowsAreIndexed

\* A row that is written or deleted leaves the entries of the others.
LEMMA RowKeepsIndex ==
    ASSUME BboltInv, NEW j \in DataKeys, NEW row, dataBucket' = [dataBucket EXCEPT ![j] = row],
           ttlBucket \subseteq ttlBucket', writing' = [g \in StorageUsers |-> writing'[g]],
           \A g \in StorageUsers : writing'[g].ccols \in CCols /\ writing'[g].ttl \in Nat,
           row # NoRow => /\ row = [data |-> row.data, life |-> row.life] /\ row.life \in Lives
                          /\ row.life # Forever => <<row.life, j>> \in ttlBucket'
    PROVE  BboltInv'
<1>1. /\ dataBucket' = [k \in DataKeys |-> dataBucket'[k]] /\ dataBucket'[j] = row
      /\ \A k \in DataKeys \ {j} : dataBucket'[k] = dataBucket[k]
  BY DEF BboltInv, BboltTypeOK
<1>2. BboltTypeOK'  BY <1>1 DEF BboltInv, BboltTypeOK
<1>3. ExpiringRowsAreIndexed'  BY <1>1 DEF BboltInv, ExpiringRowsAreIndexed
<1> QED  BY <1>2, <1>3 DEF BboltInv

LEMMA CheckKeepsIndex ==
    ASSUME BboltInv, NEW g \in StorageUsers,
           BboltInsertIfNotExists(g) \/ BboltCompareAndSwap(g) \/ BboltCompareAndDelete(g)
    PROVE  BboltInv'
<1>1. PICK c, w :
          /\ c \in CCols /\ w.ccols = c /\ w.ttl \in Nat /\ writing' = [writing EXCEPT ![g] = w]
          /\ UNCHANGED <<dataBucket, ttlBucket>>
  <2>1. CASE BboltInsertIfNotExists(g)
    <3>1. PICK c \in CCols, d \in Contents, t \in TTLs :
              writing' = [writing EXCEPT ![g] =
                             [op |-> "put", ccols |-> c, data |-> d, ttl |-> t]]
      BY <2>1 DEF BboltInsertIfNotExists
    <3> QED  BY <2>1, <3>1, BboltFacts DEF BboltInsertIfNotExists
  <2>2. CASE BboltCompareAndSwap(g)
    <3>1. PICK c \in CCols, d \in Contents, t \in TTLs :
              writing' = [writing EXCEPT ![g] =
                             [op |-> "put", ccols |-> c, data |-> d, ttl |-> t]]
      BY <2>2 DEF BboltCompareAndSwap
    <3> QED  BY <2>2, <3>1, BboltFacts DEF BboltCompareAndSwap
  <2>3. CASE BboltCompareAndDelete(g)
    <3>1. PICK c \in CCols :
              writing' = [writing EXCEPT ![g] =
                             [op |-> "delete", ccols |-> c, data |-> NoRow, ttl |-> 0]]
      BY <2>3 DEF BboltCompareAndDelete
    <3> QED  BY <2>3, <3>1 DEF BboltCompareAndDelete
  <2> QED  BY <2>1, <2>2, <2>3
<1>2. /\ writing' = [h \in StorageUsers |-> writing'[h]]
      /\ \A h \in StorageUsers : writing'[h].ccols \in CCols /\ writing'[h].ttl \in Nat
  BY <1>1 DEF BboltInv, BboltTypeOK
<1> QED  BY <1>1, <1>2 DEF BboltInv, BboltTypeOK, ExpiringRowsAreIndexed

LEMMA WriteKeepsIndex ==
    ASSUME BboltInv, NEW g \in StorageUsers, BboltWrite(g) \/ BboltDelete(g)
    PROVE  BboltInv'
<1>0. /\ writing[g].ccols \in CCols /\ writing[g].ttl \in Nat
      /\ writing' = [h \in StorageUsers |-> writing'[h]]
      /\ \A h \in StorageUsers : writing'[h].ccols \in CCols /\ writing'[h].ttl \in Nat
  BY BboltFacts DEF BboltInv, BboltTypeOK, BboltWrite, BboltDelete, NoWrite
<1>1. CASE BboltWrite(g)
  <2> PICK life : life = IF writing[g].ttl > 0 THEN writing[g].ttl ELSE Forever  OBVIOUS
  <2> PICK row : row = BRow(writing[g].data, life)  OBVIOUS
  <2>1. life \in Lives /\ row = [data |-> row.data, life |-> row.life] /\ row.life = life
    BY <1>0 DEF Lives, BRow
  <2>2. /\ dataBucket' = [dataBucket EXCEPT ![SafeKey(writing[g].ccols)] = row]
        /\ ttlBucket' = IF writing[g].ttl > 0
                        THEN ttlBucket \union {<<life, SafeKey(writing[g].ccols)>>} ELSE ttlBucket
    BY <1>1 DEF BboltWrite, PutValue, MakeTTLKey
  <2>3. SafeKey(writing[g].ccols) \in DataKeys  BY <1>0, BboltFacts
  <2> QED  BY <1>0, <2>1, <2>2, <2>3, RowKeepsIndex
<1>2. CASE BboltDelete(g)
  <2>1. dataBucket' = [k \in DataKeys |-> IF k = writing[g].ccols THEN NoRow ELSE dataBucket[k]]
        /\ ttlBucket' = ttlBucket
    BY <1>2 DEF BboltDelete, DeleteRaw
  <2> QED  BY <1>0, <2>1 DEF BboltInv, BboltTypeOK, ExpiringRowsAreIndexed
<1> QED  BY <1>1, <1>2

LEMMA PutKeepsIndex == BboltInv /\ (BboltPut \/ BboltPutBatch) => BboltInv'
<1> SUFFICES ASSUME BboltInv, BboltPut \/ BboltPutBatch  PROVE BboltInv'
  OBVIOUS
<1>0. ttlBucket' = ttlBucket /\ writing' = writing /\ Forever \in Lives
  BY DEF BboltPut, BboltPutBatch, Lives
<1>1. CASE BboltPut
  <2>1. PICK c \in CCols, d \in Contents :
            dataBucket' = [dataBucket EXCEPT ![SafeKey(c)] = BRow(d, Forever)]
    BY <1>1 DEF BboltPut
  <2> PICK row : row = BRow(d, Forever)  OBVIOUS
  <2>2. row = [data |-> row.data, life |-> row.life] /\ row.life = Forever  BY DEF BRow
  <2>3. SafeKey(c) \in DataKeys  BY BboltFacts
  <2>4. /\ writing' = [h \in StorageUsers |-> writing'[h]]
        /\ \A h \in StorageUsers : writing'[h].ccols \in CCols /\ writing'[h].ttl \in Nat
    BY <1>0 DEF BboltInv, BboltTypeOK
  <2> QED  BY <1>0, <2>1, <2>2, <2>3, <2>4, RowKeepsIndex
<1>2. CASE BboltPutBatch
  <2>1. PICK items \in SUBSET (CCols \ {EmptyCCols}), d \in Contents :
            dataBucket' = [k \in DataKeys |->
                              IF k \in items THEN BRow(d, Forever) ELSE dataBucket[k]]
    BY <1>2 DEF BboltPutBatch
  <2> QED  BY <1>0, <2>1 DEF BRow, BboltInv, BboltTypeOK, ExpiringRowsAreIndexed
<1> QED  BY <1>1, <1>2

\* Rows and entries grow older together.
LEMMA TickKeepsIndex == BboltInv /\ BboltTick => BboltInv'
<1> SUFFICES ASSUME BboltInv, BboltTick  PROVE BboltInv'
  OBVIOUS
<1>1. \A k \in DataKeys : dataBucket[k] # NoRow =>
          dataBucket'[k] = [data |-> dataBucket[k].data, life |-> Older(dataBucket[k].life)]
  <2> TAKE k \in DataKeys
  <2> HAVE dataBucket[k] # NoRow
  <2>1. dataBucket'[k] = [dataBucket[k] EXCEPT !.life = Older(dataBucket[k].life)]
    BY DEF BboltTick
  <2> QED  BY <2>1 DEF BboltInv, BboltTypeOK
<1>2. \A k \in DataKeys : dataBucket[k] = NoRow => dataBucket'[k] = NoRow
  BY DEF BboltTick
<1>3. dataBucket' = [k \in DataKeys |-> dataBucket'[k]] /\ writing' = writing
  BY DEF BboltTick
<1>4. BboltTypeOK'  BY <1>1, <1>2, <1>3, BboltFacts DEF BboltInv, BboltTypeOK
<1>5. ExpiringRowsAreIndexed'
  <2> SUFFICES ASSUME NEW k \in DataKeys, dataBucket'[k] # NoRow, dataBucket'[k].life # Forever
               PROVE  <<dataBucket'[k].life, k>> \in ttlBucket'
    BY DEF ExpiringRowsAreIndexed
  <2> PICK life : life = dataBucket[k].life  OBVIOUS
  <2>0. dataBucket[k] # NoRow  BY <1>2
  <2> PICK aged : aged = Older(life)  OBVIOUS
  <2>a. dataBucket'[k] = [data |-> dataBucket[k].data, life |-> aged]  BY <1>1, <2>0
  <2>b. life \in Lives  BY <2>0 DEF BboltInv, BboltTypeOK
  <2>1. dataBucket[k] # NoRow /\ dataBucket'[k].life = Older(life) /\ life \in Lives
    BY <2>0, <2>a, <2>b
  <2>2. <<life, k>> \in ttlBucket
    BY <2>1, BboltFacts DEF BboltInv, ExpiringRowsAreIndexed
  <2>3. ttlBucket' = {<<Older(e[1]), e[2]>> : e \in ttlBucket}  BY DEF BboltTick
  <2>4. <<Older(life), k>> \in ttlBucket'  BY <2>2, <2>3
  <2> QED  BY <2>1, <2>4
<1> QED  BY <1>4, <1>5 DEF BboltInv

\* The cleaner takes an entry together with the row of its key.
LEMMA CleanerKeepsIndex == BboltInv /\ BackgroundCleaner => BboltInv'
<1> SUFFICES ASSUME BboltInv, BackgroundCleaner  PROVE BboltInv'
  OBVIOUS
<1> PICK due : due = {e \in ttlBucket : e[1] = 0}  OBVIOUS
<1>1. /\ dataBucket' = [k \in DataKeys |->
                            IF \E e \in due : e[2] = k THEN NoRow ELSE dataBucket[k]]
      /\ ttlBucket' = ttlBucket \ due /\ writing' = writing
  BY DEF BackgroundCleaner
<1>2. BboltTypeOK'  BY <1>1 DEF BboltInv, BboltTypeOK
<1>3. ExpiringRowsAreIndexed'
  <2> SUFFICES ASSUME NEW k \in DataKeys, dataBucket'[k] # NoRow, dataBucket'[k].life # Forever
               PROVE  <<dataBucket'[k].life, k>> \in ttlBucket'
    BY DEF ExpiringRowsAreIndexed
  <2>1. dataBucket'[k] = dataBucket[k] /\ ~\E e \in due : e[2] = k  BY <1>1
  <2>2. <<dataBucket[k].life, k>> \in ttlBucket
    BY <2>1 DEF BboltInv, ExpiringRowsAreIndexed
  <2>3. <<dataBucket[k].life, k>> \notin due  BY <2>1
  <2> QED  BY <1>1, <2>1, <2>2, <2>3
<1> QED  BY <1>2, <1>3 DEF BboltInv

\* Every row that is to expire has its entry in the TTL bucket: the cleaner will
\* find it, whatever was written, renewed, deleted or cleaned meanwhile.
THEOREM NoRowEscapesTheCleaner == BboltSpec => []ExpiringRowsAreIndexed
<1>1. BboltInv /\ [BboltNext]_bboltVars => BboltInv'
  <2> SUFFICES ASSUME BboltInv, [BboltNext]_bboltVars  PROVE BboltInv'
    OBVIOUS
  <2>1. ASSUME NEW g \in StorageUsers,
               BboltInsertIfNotExists(g) \/ BboltCompareAndSwap(g) \/ BboltCompareAndDelete(g)
        PROVE  BboltInv'
    BY <2>1, CheckKeepsIndex
  <2>2. ASSUME NEW g \in StorageUsers, BboltWrite(g) \/ BboltDelete(g)  PROVE BboltInv'
    BY <2>2, WriteKeepsIndex
  <2>3. CASE UNCHANGED bboltVars
    BY <2>3 DEF bboltVars, BboltInv, BboltTypeOK, ExpiringRowsAreIndexed
  <2> QED  BY <2>1, <2>2, <2>3, PutKeepsIndex, TickKeepsIndex, CleanerKeepsIndex DEF BboltNext
<1>2. BboltInv => ExpiringRowsAreIndexed  BY DEF BboltInv
<1> QED  BY <1>1, <1>2, BboltInvInit, PTL DEF BboltSpec

-----------------------------------------------------------------------------
(***************************************************************************)
(* BlobStorage.  Chunks do not overlap, so a download that has counted as  *)
(* many bytes as the upload sent has read each of them once, whatever the  *)
(* order.  A storage sorts the chunks of a bucket by the bytes of their    *)
(* little-endian numbers: the order of the numbers while they fit one      *)
(* byte.                                                                   *)
(***************************************************************************)
ChunkType == [bucket : Nat \ {0}, number : Nat, from : Nat, size : Nat \ {0}]

EndOf(r) == r.from + r.size

\* Chunk r was written before chunk s.
Before(r, s) == r.number < s.number /\ EndOf(r) <= s.from /\ r.bucket <= s.bucket

UploadSteps == {"new", "state", "chunks", "eof", "error", "written", "replied", "failed"}

DownloadSteps == {"none", "checked", "reading", "ok", "not found", "corrupted", "failed"}

UploadType ==
    [at : UploadSteps, temp : BOOLEAN, total : 0 .. MaxBytes, sent : Nat, cut : BOOLEAN,
     chunks : Nat, bucket : Nat \ {0}]

DownloadType ==
    [at : DownloadSteps, exists : BOOLEAN, size : Nat, bucket : Nat,
     rows : SUBSET ChunkType, bytesRead : Nat, out : Seq(ChunkType)]

StateType == [status : {"none", "InProcess", "Completed", "Unknown"}, size : Nat]

BlobTypeOK ==
    /\ upload \in UploadType /\ upload.sent <= upload.total
    /\ blobState \in StateType
    /\ chunks \in Seq(ChunkType)
    /\ download \in DownloadType

\* The rows that are stored or have been read.
Known == RowsOf(chunks) \union RowsOf(download.out) \union download.rows

KnownInv ==
    /\ \A r \in Known : EndOf(r) <= upload.sent
    /\ \A r, s \in Known : r = s \/ Before(r, s) \/ Before(s, r)

\* The upload is over and took what the body gave.
Ended == upload.sent = upload.total \/ upload.cut

Sent ==
    /\ upload.at \in {"written", "replied", "failed"} /\ Ended
    /\ \A r \in RowsOf(chunks) : r.number < upload.chunks

CompletedState == [status |-> "Completed", size |-> upload.sent]

\* The next chunk comes after all the others.
UploadInv ==
    /\ upload.at \in {"new", "state"} =>
          chunks = <<>> /\ upload.sent = 0 /\ upload.chunks = 0 /\ upload.bucket = 1
    /\ upload.at = "chunks" => \A r \in RowsOf(chunks) : r.bucket <= upload.bucket
    /\ upload.at \in {"chunks", "eof"} =>
          \A r \in RowsOf(chunks) : r.number < upload.chunks
    /\ upload.at = "eof" => Ended
    /\ upload.at \in {"written", "replied"} => Sent
    /\ blobState.status = "Completed" => Sent /\ blobState = CompletedState

\* What has been read comes before what is to be read.  It either has no gap, or
\* fewer bytes than lie before its end.
ReadInOrder ==
    /\ \A s \in RowsOf(download.out), r \in download.rows : EndOf(s) <= r.from
    /\ \/ AreFirstBytes(download.out, download.bytesRead)
       \/ /\ download.out # <<>>
          /\ download.bytesRead < EndOf(download.out[Len(download.out)])

\* What has been read is counted, and is not what is to be read.
ReadingInv ==
    /\ IF download.exists THEN download.size = upload.sent
                          ELSE download.rows = {} /\ download.bytesRead = 0
    /\ \A r \in download.rows : r.bucket = download.bucket /\ r.number < upload.chunks
    /\ \A s \in RowsOf(download.out) : s.bucket <= download.bucket /\ s \notin download.rows
    /\ Cardinality(BytesOf(RowsOf(download.out))) = download.bytesRead
    /\ upload.chunks <= Base => ReadInOrder

DownloadInv ==
    /\ download.at \in {"checked", "reading", "ok", "corrupted"} => Sent
    /\ download.out # <<>> \/ download.rows # {} => Sent
    /\ download.at \in {"none", "checked"} => download = [NoDownload EXCEPT !.at = download.at]
    /\ download.at = "checked" => blobState \in {NoState, CompletedState}
    /\ download.at = "reading" => ReadingInv
    /\ DownloadIsWhole

\* The chunks of a persistent BLOB, up to its answer: none is missing, and no
\* bucket up to the last one is empty.
ChunksInv ==
    /\ AreFirstBytes(chunks, upload.sent)
    /\ BytesOf(RowsOf(chunks)) = 0 .. upload.sent - 1
    /\ \A r \in RowsOf(chunks) : r.bucket <= upload.bucket
    /\ IF chunks = <<>> THEN upload.bucket = 1
       ELSE \A b \in 1 .. upload.bucket : \E r \in RowsOf(chunks) : r.bucket = b

\* A download of it has read, or holds, all chunks of the buckets so far.
HeldInv ==
    /\ download.exists
    /\ \A r \in RowsOf(chunks) :
          r.bucket <= download.bucket => r \in RowsOf(download.out) \union download.rows

PersistentInv ==
    ~upload.temp =>
        /\ upload.at \in {"new", "state", "chunks", "eof", "written", "replied"} => ChunksInv
        /\ upload.at \in {"written", "replied"} =>
              /\ blobState = CompletedState
              /\ download.at = "reading" => HeldInv
              /\ download.at # "corrupted"
        /\ upload.at = "replied" => doc = "completed"

BlobInv ==
    BlobTypeOK /\ KnownInv /\ UploadInv /\ DownloadInv /\ PersistentInv

-----------------------------------------------------------------------------
(* Facts about rows, their bytes and their order. *)

LEMMA BlobBounds ==
    /\ ChunkSize \in Nat \ {0} /\ BucketSize \in Nat \ {0} /\ Base \in Nat \ {0, 1}
    /\ Quota \in Nat /\ MaxBytes \in Nat
BY BlobConstants DEF BlobConstants

LEMMA NoRows == RowsOf(<<>>) = {} /\ AreFirstBytes(<<>>, 0) /\ BytesOf({}) = {}
BY DEF RowsOf, AreFirstBytes, BytesOf

LEMMA RowsOfAppend ==
    ASSUME NEW s \in Seq(ChunkType), NEW r \in ChunkType
    PROVE  /\ Append(s, r) \in Seq(ChunkType) /\ Append(s, r) # <<>>
           /\ Len(Append(s, r)) = Len(s) + 1 /\ Append(s, r)[Len(s) + 1] = r
           /\ \A i \in 1 .. Len(s) : Append(s, r)[i] = s[i]
           /\ RowsOf(Append(s, r)) = RowsOf(s) \union {r}
<1>1. /\ Append(s, r) \in Seq(ChunkType) /\ Append(s, r) # <<>>
      /\ Len(Append(s, r)) = Len(s) + 1 /\ Append(s, r)[Len(s) + 1] = r
      /\ \A i \in 1 .. Len(s) : Append(s, r)[i] = s[i]
  OBVIOUS
<1>2. Len(s) \in Nat  OBVIOUS
<1>3. 1 .. Len(s) + 1 = 1 .. Len(s) \union {Len(s) + 1}  BY <1>2
<1> QED  BY <1>1, <1>2, <1>3 DEF RowsOf

LEMMA RowsOfTail ==
    ASSUME NEW s \in Seq(ChunkType), s # <<>>
    PROVE  Tail(s) \in Seq(ChunkType) /\ RowsOf(Tail(s)) \subseteq RowsOf(s)
<1>1. /\ Tail(s) \in Seq(ChunkType) /\ Len(Tail(s)) = Len(s) - 1 /\ Len(s) \in Nat
      /\ \A i \in 1 .. Len(s) - 1 : Tail(s)[i] = s[i + 1]
  OBVIOUS
<1>2. \A i \in 1 .. Len(s) - 1 : i + 1 \in 1 .. Len(s)  BY <1>1
<1> QED  BY <1>1, <1>2 DEF RowsOf

LEMMA RowsAreChunks ==
    ASSUME NEW s \in Seq(ChunkType)
    PROVE  /\ RowsOf(s) \subseteq ChunkType /\ Len(s) \in Nat
           /\ \A i \in 1 .. Len(s) : s[i] \in ChunkType /\ s[i] \in RowsOf(s)
           /\ s # <<>> => Len(s) \in 1 .. Len(s) /\ 1 \in 1 .. Len(s)
BY DEF RowsOf

LEMMA FirstBytesAppend ==
    ASSUME NEW s \in Seq(ChunkType), NEW r \in ChunkType, AreFirstBytes(s, r.from)
    PROVE  AreFirstBytes(Append(s, r), EndOf(r))
<1>1. /\ Append(s, r) # <<>> /\ Len(s) \in Nat
      /\ Len(Append(s, r)) = Len(s) + 1 /\ Append(s, r)[Len(s) + 1] = r
      /\ \A i \in 1 .. Len(s) : Append(s, r)[i] = s[i]
  BY RowsOfAppend
<1>2. ASSUME NEW i \in 1 .. Len(s) + 1
      PROVE  Append(s, r)[i].from = IF i = 1 THEN 0
                 ELSE Append(s, r)[i - 1].from + Append(s, r)[i - 1].size
  <2>1. CASE i \in 1 .. Len(s)
    <3>1. i # 1 => i - 1 \in 1 .. Len(s)  BY <1>1, <2>1
    <3> QED  BY <1>1, <2>1, <3>1 DEF AreFirstBytes
  <2>2. CASE i = Len(s) + 1
    <3>1. s = <<>> <=> Len(s) = 0  OBVIOUS
    <3>2. i = 1 => s = <<>>  BY <1>1, <2>2, <3>1
    <3>3. i # 1 => i - 1 = Len(s) /\ Len(s) \in 1 .. Len(s) /\ s # <<>>  BY <1>1, <2>2, <3>1
    <3> QED  BY <1>1, <2>2, <3>2, <3>3 DEF AreFirstBytes
  <2> QED  BY <1>1, <2>1, <2>2
<1> QED  BY <1>1, <1>2 DEF AreFirstBytes, EndOf

LEMMA BytesOfOneMore ==
    ASSUME NEW S, NEW r
    PROVE  BytesOf(S \union {r}) = BytesOf(S) \union (r.from .. r.from + r.size - 1)
BY DEF BytesOf

\* What is known lies within what was sent.
LEMMA BytesOfKnown ==
    ASSUME KnownInv, Known \subseteq ChunkType, upload.sent \in Nat, NEW S \in SUBSET Known
    PROVE  /\ BytesOf(S) \subseteq 0 .. upload.sent - 1
           /\ IsFiniteSet(BytesOf(S)) /\ Cardinality(0 .. upload.sent - 1) = upload.sent
           /\ Cardinality(BytesOf(S)) = upload.sent => BytesOf(S) = 0 .. upload.sent - 1
<1>1. BytesOf(S) \subseteq 0 .. upload.sent - 1
  <2> SUFFICES ASSUME NEW r \in S, NEW x \in r.from .. r.from + r.size - 1
               PROVE  x \in 0 .. upload.sent - 1
    BY DEF BytesOf
  <2>1. r.from \in Nat /\ r.size \in Nat /\ r.from + r.size <= upload.sent
    BY DEF KnownInv, ChunkType, EndOf
  <2> QED  BY <2>1
<1>2. /\ IsFiniteSet(0 .. upload.sent - 1)
      /\ Cardinality(0 .. upload.sent - 1) = upload.sent
  <2>1. 0 \in Int /\ upload.sent - 1 \in Int  OBVIOUS
  <2>2. /\ IsFiniteSet(0 .. upload.sent - 1)
        /\ Cardinality(0 .. upload.sent - 1) =
              IF 0 > upload.sent - 1 THEN 0 ELSE (upload.sent - 1) - 0 + 1
    BY <2>1, FS_Interval
  <2> QED  BY <2>2
<1> QED  BY <1>1, <1>2, FS_Subset

\* A number of one byte is sorted by that byte.
LEMMA OneByteOrder ==
    ASSUME NEW m \in Nat, NEW n \in Nat, m < Base, n < Base, SortsBefore(m, n)
    PROVE  m < n
<1>1. ASSUME NEW p \in Nat \ {0}, p >= Base  PROVE m % p = m /\ n % p = n
  BY <1>1, BlobBounds
<1>2. ASSUME NEW a \in Nat, NEW b \in Nat \ {0}, a >= Base
      PROVE  a * b \in Nat /\ a * b >= Base /\ a >= 1
  <2>1. b - 1 \in Nat /\ a * b = a * (b - 1) + a /\ a * (b - 1) \in Nat
    <3>1. PICK d \in Nat : b = d + 1  BY <1>2
    <3>2. a * b = a * d + a /\ a * d \in Nat  BY <3>1
    <3> QED  BY <3>1, <3>2
  <2> QED  BY <1>2, <2>1, BlobBounds
<1> DEFINE b2 == Base * Base
           b4 == b2 * b2
           b6 == b4 * b2
<1>3. /\ b2 \in Nat /\ b2 >= Base /\ b4 \in Nat /\ b4 >= Base /\ b6 \in Nat /\ b6 >= Base
      /\ b2 # 0 /\ b4 # 0
  <2>1. b2 \in Nat /\ b2 >= Base /\ b2 # 0  BY <1>2, BlobBounds
  <2> HIDE DEF b2
  <2>2. b4 \in Nat /\ b4 >= Base /\ b4 # 0  BY <1>2, <2>1, BlobBounds
  <2> HIDE DEF b4
  <2> QED  BY <1>2, <2>1, <2>2, BlobBounds
<1>4. PlaceValues = {1, Base, b2, b2 * Base, b4, b4 * Base, b6, b6 * Base}
  BY DEF PlaceValues
<1> HIDE DEF b2, b4, b6
<1>5. \A p \in PlaceValues : p = 1 \/ (p \in Nat \ {0} /\ p >= Base)
  <2>1. \A a \in Nat : a >= Base => a * Base \in Nat /\ a * Base >= Base
    BY <1>2, BlobBounds
  <2>2. \A a \in Nat : a >= Base => a # 0  BY BlobBounds
  <2> QED  BY <1>3, <1>4, <2>1, <2>2, BlobBounds
<1>6. PICK p \in PlaceValues : m % p = n % p /\ m % (p * Base) < n % (p * Base)
  BY DEF SortsBefore
<1>7. CASE p = 1
  <2>1. 1 * Base = Base /\ m % Base = m /\ n % Base = n  BY <1>1, BlobBounds
  <2> QED  BY <1>6, <1>7, <2>1
<1>8. CASE p \in Nat \ {0} /\ p >= Base
  <2>1. p * Base \in Nat /\ p * Base >= Base /\ p * Base # 0  BY <1>2, <1>8, BlobBounds
  <2>2. m % (p * Base) = m /\ n % (p * Base) = n  BY <1>1, <2>1
  <2> QED  BY <1>6, <2>2
<1> QED  BY <1>5, <1>6, <1>7, <1>8

\* A chunk of n bytes may be read, and the first one goes to the first bucket.
LEMMA ChunkFits ==
    ASSUME BlobTypeOK, NEW n \in 1 .. Min2(ChunkSize, upload.total - upload.sent)
    PROVE  /\ n \in Nat \ {0} /\ upload.sent + n <= upload.total
           /\ ChunkRow(n) \in ChunkType
           /\ ChunkRow(n).number = upload.chunks /\ ChunkRow(n).from = upload.sent
           /\ EndOf(ChunkRow(n)) = upload.sent + n
           /\ upload.bucket <= ChunkRow(n).bucket /\ ChunkRow(n).bucket <= upload.bucket + 1
           /\ upload.sent = 0 /\ upload.bucket = 1 => ChunkRow(n).bucket = 1
<1>1. /\ upload.total \in Nat /\ upload.sent \in Nat /\ upload.sent <= upload.total
      /\ upload.chunks \in Nat /\ upload.bucket \in Nat \ {0}
  BY BlobBounds DEF BlobTypeOK, UploadType
<1>2. n \in Nat \ {0} /\ n <= ChunkSize /\ upload.sent + n <= upload.total
  BY <1>1, BlobBounds DEF Min2
<1>3. NextBucket(upload.bucket, upload.sent + n) \in {upload.bucket, upload.bucket + 1}
  BY DEF NextBucket
<1>4. ChunkSize <= ChunkSize * BucketSize
  <2>1. ASSUME NEW c \in Nat, NEW b \in Nat \ {0}  PROVE c <= c * b
    <3>1. PICK d \in Nat : b = d + 1
      <4> b - 1 \in Nat /\ b = (b - 1) + 1  OBVIOUS
      <4> QED  OBVIOUS
    <3>2. c * b = c * d + c /\ c * d \in Nat  BY <3>1
    <3> QED  BY <3>2
  <2> QED  BY <2>1, BlobBounds
<1>5. upload.sent = 0 /\ upload.bucket = 1 => NextBucket(upload.bucket, upload.sent + n) = 1
  <2>1. ChunkSize * BucketSize * 1 = ChunkSize * BucketSize /\ ChunkSize * BucketSize \in Nat
    BY BlobBounds
  <2> QED  BY <1>2, <1>4, <2>1, BlobBounds DEF NextBucket
<1> QED  BY <1>1, <1>2, <1>3, <1>5 DEF ChunkRow, ChunkType, EndOf

-----------------------------------------------------------------------------
(* What the steps leave alone. *)

\* The upload changes its step, the document or the state row.
UploadMoves ==
    /\ \E a \in UploadSteps : upload' = [upload EXCEPT !.at = a]
    /\ UNCHANGED <<chunks, download>>

LEMMA UploadMoveTypes ==
    ASSUME BlobTypeOK, UploadMoves
    PROVE  /\ upload'.at \in UploadSteps /\ upload'.temp = upload.temp
           /\ upload'.total = upload.total /\ upload'.sent = upload.sent
           /\ upload'.cut = upload.cut
           /\ upload'.chunks = upload.chunks /\ upload'.bucket = upload.bucket
           /\ upload' \in UploadType
           /\ chunks' = chunks /\ download' = download /\ Known' = Known
           /\ CompletedState' = CompletedState /\ Ended' = Ended
BY DEF BlobTypeOK, UploadType, UploadMoves, Known, CompletedState, Ended

\* While the upload is not over, no download has read anything.
LEMMA MoveKeepsInv ==
    ASSUME BlobInv, UploadMoves, upload.at \notin {"replied", "failed"},
           blobState' \in StateType, Sent => Sent' /\ blobState' = blobState,
           UploadInv', upload.at = "error" => upload'.at = "failed",
           upload'.at \in {"written", "replied"} =>
               upload.at \in {"eof", "written"} /\ (upload.temp \/ blobState' = CompletedState),
           upload'.at = "replied" => upload.temp \/ doc' = "completed"
    PROVE  BlobInv'
<1>0. /\ BlobTypeOK /\ KnownInv /\ UploadInv /\ DownloadInv /\ PersistentInv
      /\ upload.at \in UploadSteps /\ upload.temp \in BOOLEAN
  BY DEF BlobInv, BlobTypeOK, UploadType
<1>1. BlobTypeOK'  BY <1>0, UploadMoveTypes DEF BlobTypeOK
<1>2. KnownInv'  BY <1>0, UploadMoveTypes DEF KnownInv
<1>3. DownloadInv'
  <2>1. ReadingInv => ReadingInv'  BY <1>0, UploadMoveTypes DEF ReadingInv, ReadInOrder
  <2>2. DownloadIsWhole'
    BY <1>0, UploadMoveTypes DEF DownloadInv, DownloadIsWhole
  <2> QED  BY <1>0, <2>1, <2>2, UploadMoveTypes DEF DownloadInv
<1>4. PersistentInv'
  <2> SUFFICES ASSUME ~upload.temp  PROVE PersistentInv'
    BY <1>0, UploadMoveTypes DEF PersistentInv
  <2>1. ASSUME upload'.at \in {"new", "state", "chunks", "eof", "written", "replied"}
        PROVE  ChunksInv'
    <3>1. upload.at \in {"new", "state", "chunks", "eof", "written", "replied"}
      BY <1>0, <2>1 DEF UploadSteps
    <3>2. ChunksInv  BY <1>0, <3>1 DEF PersistentInv
    <3> QED  BY <1>0, <3>2, UploadMoveTypes DEF ChunksInv
  <2>2. ASSUME upload'.at \in {"written", "replied"}
        PROVE  /\ blobState' = CompletedState'
               /\ download'.at = "reading" => HeldInv'
               /\ download'.at # "corrupted"
    <3>1. CASE upload.at = "eof"
      BY <1>0, <2>2, <3>1, UploadMoveTypes DEF DownloadInv, Sent
    <3>2. CASE upload.at = "written"
      BY <1>0, <2>2, <3>2, UploadMoveTypes DEF PersistentInv, HeldInv
    <3> QED  BY <2>2, <3>1, <3>2
  <2> QED  BY <2>1, <2>2, UploadMoveTypes, <1>0 DEF PersistentInv
<1> QED  BY <1>1, <1>2, <1>3, <1>4 DEF BlobInv

LEMMA StateRows ==
    /\ NoState \in StateType /\ [status |-> "InProcess", size |-> 0] \in StateType
    /\ BlobTypeOK => FinalState \in StateType
BY DEF NoState, FinalState, BlobTypeOK, StateType, UploadType

LEMMA UploadMoveKeepsInv ==
    BlobInv /\ (RegisterBLOB \/ WriteState \/ EndOfBody \/ BodyFails \/ UpdateState
                \/ SetBLOBStatusCompleted) => BlobInv'
<1> USE DEF GoOn, UploadMoves, UploadSteps
<1> SUFFICES ASSUME BlobInv,
                    RegisterBLOB \/ WriteState \/ EndOfBody \/ BodyFails \/ UpdateState
                    \/ SetBLOBStatusCompleted
             PROVE  BlobInv'
  OBVIOUS
<1>0. /\ BlobTypeOK /\ UploadInv /\ upload.temp \in BOOLEAN
      /\ blobState \in StateType /\ upload.at \in UploadSteps /\ upload \in UploadType
  BY DEF BlobInv, BlobTypeOK, UploadType
<1>1. CASE RegisterBLOB
  <2>1. UploadMoves /\ upload.at = "new" /\ blobState' = blobState
        /\ upload'.at \in {"state", "failed"}
    BY <1>0, <1>1 DEF RegisterBLOB, UploadType
  <2>2. UploadInv'  BY <1>0, <2>1, UploadMoveTypes DEF UploadInv, Sent
  <2> QED  BY <1>0, <2>1, <2>2, MoveKeepsInv DEF Sent
<1>2. CASE WriteState
  <2>1. UploadMoves /\ upload.at = "state" /\ upload'.at \in {"chunks", "failed"}
        /\ blobState' \in {NoState, [status |-> "InProcess", size |-> 0]}
    BY <1>0, <1>2 DEF WriteState, UploadType
  <2>2. UploadInv'
    BY <1>0, <2>1, UploadMoveTypes DEF UploadInv, Sent, NoState, RowsOf
  <2> QED  BY <1>0, <2>1, <2>2, MoveKeepsInv, StateRows DEF Sent
<1>3. CASE EndOfBody \/ BodyFails
  <2>1. UploadMoves /\ upload.at = "chunks" /\ blobState' = blobState
        /\ upload'.at \in {"eof", "error"}
        /\ (upload'.at = "eof" => Ended)
    BY <1>0, <1>3 DEF EndOfBody, BodyFails, UploadType, Ended
  <2>2. UploadInv'  BY <1>0, <2>1, UploadMoveTypes DEF UploadInv, Sent
  <2> QED  BY <1>0, <2>1, <2>2, MoveKeepsInv DEF Sent
<1>4. CASE UpdateState
  <2>1. /\ UploadMoves /\ upload.at \in {"eof", "error"} /\ upload'.at \in {"written", "failed"}
        /\ blobState' \in {NoState, blobState, FinalState}
        /\ upload'.at = "written" => upload.at = "eof" /\ blobState' = FinalState
    BY <1>0, <1>4 DEF UpdateState, UploadType
  <2>2. FinalState.status = "Completed" => upload.at = "eof" /\ FinalState = CompletedState
    BY <1>0 DEF FinalState, CompletedState
  <2>3. upload.at = "eof" => FinalState = CompletedState /\ Sent'
    BY <1>0, <2>1, UploadMoveTypes DEF FinalState, CompletedState, UploadInv, Sent
  <2>4. ~Sent /\ blobState.status # "Completed" /\ NoState.status # "Completed"
    BY <1>0, <2>1 DEF UploadInv, Sent, NoState
  <2>5. UploadInv'
    BY <1>0, <2>1, <2>2, <2>3, <2>4, UploadMoveTypes DEF UploadInv
  <2>6. blobState' \in StateType
    BY <1>0, <2>1, StateRows
  <2> QED  BY <1>0, <2>1, <2>3, <2>4, <2>5, <2>6, MoveKeepsInv
<1>5. CASE SetBLOBStatusCompleted
  <2>1. UploadMoves /\ upload.at = "written" /\ blobState' = blobState
        /\ upload'.at \in {"replied", "failed"}
        /\ (upload'.at = "replied" => upload.temp \/ doc' = "completed")
    BY <1>0, <1>5 DEF SetBLOBStatusCompleted, UploadType
  <2>2. Sent /\ Sent'  BY <1>0, <2>1, UploadMoveTypes DEF UploadInv, Sent
  <2>3. UploadInv'  BY <1>0, <2>1, <2>2, UploadMoveTypes DEF UploadInv
  <2>4. upload.temp \/ blobState' = CompletedState
    BY <1>0, <2>1 DEF BlobInv, PersistentInv
  <2> QED  BY <1>0, <2>1, <2>2, <2>3, <2>4, MoveKeepsInv
<1> QED  BY <1>1, <1>2, <1>3, <1>4, <1>5

-----------------------------------------------------------------------------
(* A chunk is written. *)

LEMMA WriteChunkKeepsInv == BlobInv /\ WriteChunk => BlobInv'
<1> SUFFICES ASSUME BlobInv, WriteChunk  PROVE BlobInv'
  OBVIOUS
<1>0. /\ BlobTypeOK /\ KnownInv /\ UploadInv /\ DownloadInv /\ PersistentInv
      /\ chunks \in Seq(ChunkType) /\ upload.at = "chunks" /\ upload \in UploadType
      /\ upload.sent \in Nat /\ upload.chunks \in Nat /\ upload.bucket \in Nat \ {0}
      /\ UNCHANGED <<doc, blobState, download>>
  BY DEF BlobInv, BlobTypeOK, UploadType, WriteChunk
<1>1. PICK n \in 1 .. Min2(ChunkSize, upload.total - upload.sent) : \E cut \in BOOLEAN :
          LET sent == upload.sent + n
              row  == ChunkRow(n)
          IN \/ /\ sent <= Quota
                /\ upload' = [upload EXCEPT !.sent = sent, !.cut = cut, !.chunks = @ + 1,
                                            !.bucket = row.bucket]
                /\ chunks' = Append(chunks, row)
             \/ /\ upload' = [upload EXCEPT !.sent = sent, !.cut = cut, !.at = "error"]
                /\ chunks' \in IF sent <= Quota THEN {chunks, Append(chunks, row)}
                                                ELSE {chunks}
  BY Zenon DEF WriteChunk
<1> DEFINE row == ChunkRow(n)
<1>2. /\ n \in Nat \ {0} /\ upload.sent + n <= upload.total /\ row \in ChunkType
      /\ row.number = upload.chunks /\ row.from = upload.sent /\ EndOf(row) = upload.sent + n
      /\ upload.bucket <= row.bucket /\ row.bucket <= upload.bucket + 1
      /\ upload.sent = 0 /\ upload.bucket = 1 => row.bucket = 1
      /\ row.number \in Nat /\ row.bucket \in Nat \ {0}
  BY <1>0, ChunkFits DEF ChunkType
<1>3. ~Sent /\ download.out = <<>> /\ download.rows = {} /\ blobState.status # "Completed"
      /\ download.at \notin {"checked", "reading", "ok", "corrupted"}
  BY <1>0 DEF Sent, DownloadInv, UploadInv
<1>4. RowsOf(download.out) = {}  BY <1>3 DEF RowsOf
<1>5. Known = RowsOf(chunks) /\ Known' = RowsOf(chunks')
  BY <1>0, <1>3, <1>4 DEF Known
<1>6. /\ upload' \in UploadType /\ upload'.sent = upload.sent + n
      /\ upload'.total = upload.total /\ upload'.temp = upload.temp
      /\ chunks' \in {chunks, Append(chunks, row)}
      /\ \/ /\ upload'.at = "chunks" /\ upload'.chunks = upload.chunks + 1
            /\ upload'.bucket = row.bucket /\ chunks' = Append(chunks, row)
         \/ upload'.at = "error"
  <2> HIDE DEF row
  <2>1. PICK cut \in BOOLEAN :
          /\ chunks' \in {chunks, Append(chunks, row)}
          /\ \/ /\ upload' = [upload EXCEPT !.sent = upload.sent + n, !.cut = cut,
                                             !.chunks = @ + 1, !.bucket = row.bucket]
                /\ chunks' = Append(chunks, row)
             \/ upload' = [upload EXCEPT !.sent = upload.sent + n, !.cut = cut, !.at = "error"]
    BY <1>1, Zenon DEF row
  <2>2. upload = [at |-> upload.at, temp |-> upload.temp, total |-> upload.total,
                  sent |-> upload.sent, cut |-> upload.cut, chunks |-> upload.chunks,
                  bucket |-> upload.bucket]
    BY <1>0 DEF UploadType
  <2>3. upload.sent + n \in Nat /\ upload.chunks + 1 \in Nat /\ "error" \in UploadSteps
    BY <1>0, <1>2 DEF UploadSteps
  <2>4. CASE upload' = [upload EXCEPT !.sent = upload.sent + n, !.cut = cut, !.at = "error"]
    <3>1. upload'.at = "error" /\ upload'.sent = upload.sent + n
          /\ upload'.total = upload.total /\ upload'.temp = upload.temp
      BY <2>2, <2>4
    <3>2. upload' \in UploadType  BY <1>0, <2>3, <2>4 DEF UploadType
    <3> QED  BY <2>1, <3>1, <3>2
  <2>5. CASE /\ upload' = [upload EXCEPT !.sent = upload.sent + n, !.cut = cut,
                                         !.chunks = @ + 1, !.bucket = row.bucket]
             /\ chunks' = Append(chunks, row)
    <3>1. /\ upload'.at = "chunks" /\ upload'.sent = upload.sent + n
          /\ upload'.total = upload.total /\ upload'.temp = upload.temp
          /\ upload'.chunks = upload.chunks + 1 /\ upload'.bucket = row.bucket
      BY <1>0, <2>2, <2>5
    <3>2. upload' \in UploadType  BY <1>0, <1>2, <2>3, <2>5 DEF UploadType
    <3> QED  BY <2>1, <2>5, <3>1, <3>2
  <2> QED  BY <2>1, <2>4, <2>5
<1> HIDE DEF row
<1>7. /\ Append(chunks, row) \in Seq(ChunkType) /\ Append(chunks, row) # <<>>
      /\ RowsOf(Append(chunks, row)) = RowsOf(chunks) \union {row}
  BY <1>0, <1>2, RowsOfAppend
<1>8. RowsOf(chunks) \subseteq ChunkType  BY <1>0, RowsAreChunks
<1>9. BlobTypeOK'  BY <1>0, <1>2, <1>6, <1>7 DEF BlobTypeOK
<1>10. KnownInv'
  <2>1. \A r \in RowsOf(chunks) : EndOf(r) \in Nat /\ EndOf(r) <= upload.sent
    BY <1>0, <1>5, <1>8 DEF KnownInv, ChunkType, EndOf
  <2>2. \A r \in RowsOf(chunks) : Before(r, row)
    BY <1>0, <1>2, <1>8, <2>1 DEF UploadInv, Before, ChunkType
  <2>3. \A r \in RowsOf(chunks) \union {row} : EndOf(r) <= upload.sent + n
    BY <1>0, <1>2, <2>1
  <2>4. RowsOf(chunks') \subseteq RowsOf(chunks) \union {row}  BY <1>6, <1>7
  <2>5. \A r, s \in RowsOf(chunks) \union {row} : r = s \/ Before(r, s) \/ Before(s, r)
    BY <1>0, <1>5, <2>2 DEF KnownInv
  <2> QED  BY <1>5, <1>6, <2>3, <2>4, <2>5 DEF KnownInv
<1>11. upload'.at = "chunks" =>
          \A r \in RowsOf(chunks') : r.number < upload'.chunks /\ r.bucket <= upload'.bucket
  <2> SUFFICES ASSUME upload'.at = "chunks", NEW r \in RowsOf(chunks) \union {row}
               PROVE  r.number < upload.chunks + 1 /\ r.bucket <= row.bucket
    BY <1>6, <1>7
  <2>1. CASE r \in RowsOf(chunks)
    <3>1. r.number \in Nat /\ r.bucket \in Nat  BY <1>8, <2>1 DEF ChunkType
    <3>2. r.number < upload.chunks /\ r.bucket <= upload.bucket
      BY <1>0, <2>1 DEF UploadInv
    <3> QED  BY <1>0, <1>2, <3>1, <3>2
  <2>2. CASE r = row  BY <1>0, <1>2, <2>2
  <2> QED  BY <2>1, <2>2
<1>12. UploadInv'
  BY <1>0, <1>3, <1>6, <1>11 DEF UploadInv
<1>13. DownloadInv'
  BY <1>0, <1>3, <1>6 DEF DownloadInv, DownloadIsWhole
<1>14. PersistentInv'
  <2> SUFFICES ASSUME ~upload.temp, upload'.at = "chunks"  PROVE ChunksInv'
    BY <1>6 DEF PersistentInv
  <2>0. ChunksInv  BY <1>0 DEF PersistentInv
  <2>1. chunks' = Append(chunks, row) /\ upload'.bucket = row.bucket /\ chunks' # <<>>
        /\ RowsOf(chunks') = RowsOf(chunks) \union {row}
    BY <1>6, <1>7
  <2>2. AreFirstBytes(chunks', upload'.sent)
    <3>1. AreFirstBytes(chunks, row.from)  BY <1>2, <2>0 DEF ChunksInv
    <3> QED  BY <1>0, <1>2, <1>6, <2>1, <3>1, FirstBytesAppend
  <2>3. BytesOf(RowsOf(chunks')) = 0 .. upload'.sent - 1
    <3> DEFINE old == BytesOf(RowsOf(chunks))
               new == row.from .. row.from + row.size - 1
    <3>1. BytesOf(RowsOf(chunks')) = old \union new  BY <2>1, BytesOfOneMore
    <3>2. /\ row.from \in Nat /\ row.size \in Nat /\ row.from = upload.sent
          /\ row.from + row.size = upload.sent + n
      BY <1>2 DEF ChunkType, EndOf
    <3>3. \A x : x \in new <=> x \in Int /\ x >= upload.sent /\ x < upload.sent + n
      BY <1>0, <1>2, <3>2
    <3>4. \A x : x \in old <=> x \in Int /\ x >= 0 /\ x < upload.sent
      BY <1>0, <2>0 DEF ChunksInv
    <3> HIDE DEF old, new
    <3>5. upload.sent \in Nat /\ n \in Nat \ {0} /\ upload'.sent = upload.sent + n
      BY <1>0, <1>2, <1>6
    <3>6. ASSUME NEW x  PROVE x \in old \union new <=> x \in 0 .. upload'.sent - 1
      <4>1. x \in 0 .. upload'.sent - 1 <=> x \in Int /\ x >= 0 /\ x < upload.sent + n
        BY <3>5
      <4> QED  BY <3>3, <3>4, <3>5, <4>1
    <3>7. old \union new = 0 .. upload'.sent - 1  BY <3>6, Zenon
    <3> QED  BY <3>1, <3>7, Zenon
  <2>4. ASSUME NEW b \in 1 .. row.bucket  PROVE \E r \in RowsOf(chunks') : r.bucket = b
    <3>1. CASE b = row.bucket  BY <2>1, <3>1
    <3>2. CASE b # row.bucket
      <4>1. b \in 1 .. upload.bucket  BY <1>0, <1>2, <3>2
      <4>2. chunks # <<>>
        <5>1. chunks = <<>> => upload.sent = 0 /\ upload.bucket = 1
          BY <2>0 DEF ChunksInv, AreFirstBytes
        <5> QED  BY <1>2, <3>2, <5>1
      <4> QED  BY <2>0, <2>1, <4>1, <4>2 DEF ChunksInv
    <3> QED  BY <3>1, <3>2
  <2> QED  BY <1>11, <2>1, <2>2, <2>3, <2>4 DEF ChunksInv
<1> QED  BY <1>9, <1>10, <1>12, <1>13, <1>14 DEF BlobInv

-----------------------------------------------------------------------------
(* The download. *)

\* A step of the download only.
DownloadMoves == UNCHANGED <<upload, doc, blobState, chunks>>

LEMMA NoDownloadType ==
    \A a \in DownloadSteps : [NoDownload EXCEPT !.at = a] \in DownloadType
<1>1. <<>> \in Seq(ChunkType) /\ {} \in SUBSET ChunkType  OBVIOUS
<1>2. NoDownload \in [at : {"none"}, exists : BOOLEAN, size : Nat, bucket : Nat,
                     rows : SUBSET ChunkType, bytesRead : Nat, out : Seq(ChunkType)]
  BY <1>1 DEF NoDownload
<1> QED  BY <1>2 DEF DownloadType

LEMMA DownloadMoveKeepsInv ==
    ASSUME BlobInv, DownloadMoves, download' \in DownloadType, Known' \subseteq Known,
           DownloadInv',
           ~upload.temp /\ upload.at \in {"written", "replied"} =>
               (download'.at = "reading" => HeldInv') /\ download'.at # "corrupted"
    PROVE  BlobInv'
<1>0. BlobTypeOK /\ KnownInv /\ UploadInv /\ PersistentInv  BY DEF BlobInv
<1>1. BlobTypeOK'  BY <1>0 DEF BlobTypeOK, DownloadMoves
<1>2. KnownInv'  BY <1>0 DEF KnownInv, DownloadMoves
<1>3. UploadInv'  BY <1>0 DEF UploadInv, DownloadMoves, Sent, Ended, CompletedState
<1>4. PersistentInv'
  BY <1>0 DEF PersistentInv, DownloadMoves, ChunksInv, CompletedState
<1> QED  BY <1>1, <1>2, <1>3, <1>4 DEF BlobInv

\* A persistent BLOB that is written has a complete state row.
LEMMA WrittenState ==
    ASSUME BlobInv, ~upload.temp, upload.at \in {"written", "replied"}
    PROVE  /\ blobState = CompletedState /\ blobState # NoState /\ ChunksInv
           /\ (download.at = "reading" => HeldInv) /\ download.at # "corrupted"
           /\ upload.at = "replied" => doc = "completed"
BY DEF BlobInv, PersistentInv, CompletedState, NoState

LEMMA CheckKeepsInv == BlobInv /\ QueryAndCheckBLOBState => BlobInv'
<1> SUFFICES ASSUME BlobInv, QueryAndCheckBLOBState  PROVE BlobInv'
  OBVIOUS
<1>0. BlobTypeOK /\ UploadInv /\ DownloadInv /\ DownloadMoves
  BY DEF BlobInv, QueryAndCheckBLOBState, DownloadMoves
<1>1. PICK a \in {"not found", "checked", "failed"} :
          /\ download' = [NoDownload EXCEPT !.at = a]
          /\ a = "checked" => Downloadable
  <2>1. CASE blobState = NoState
    <3>1. ~Downloadable  BY <2>1 DEF Downloadable, NoState
    <3> QED  BY <2>1, <3>1 DEF QueryAndCheckBLOBState
  <2>2. CASE blobState # NoState /\ Downloadable
    BY <2>2 DEF QueryAndCheckBLOBState
  <2>3. CASE blobState # NoState /\ ~Downloadable
    BY <2>3 DEF QueryAndCheckBLOBState
  <2> QED  BY <2>1, <2>2, <2>3
<1>2. /\ download'.at = a /\ download'.out = <<>> /\ download'.rows = {}
  BY <1>1 DEF NoDownload
<1>3. download' \in DownloadType
  BY <1>1, NoDownloadType DEF DownloadSteps
<1>4. RowsOf(download'.out) = {}  BY <1>2, NoRows
<1>5. Known' \subseteq Known  BY <1>0, <1>2, <1>4 DEF Known, DownloadMoves
<1>6. a = "checked" => Sent /\ blobState = CompletedState
  BY <1>0, <1>1 DEF Downloadable, UploadInv
<1>7. Sent' = Sent /\ CompletedState' = CompletedState /\ blobState' = blobState
  BY <1>0 DEF DownloadMoves, Sent, Ended, CompletedState
<1>8. DownloadInv'
  BY <1>1, <1>2, <1>6, <1>7 DEF DownloadInv, DownloadIsWhole
<1> QED  BY <1>0, <1>2, <1>3, <1>5, <1>8, DownloadMoveKeepsInv

LEMMA ReadStateKeepsInv == BlobInv /\ ReadState => BlobInv'
<1> SUFFICES ASSUME BlobInv, ReadState  PROVE BlobInv'
  OBVIOUS
<1>0. BlobTypeOK /\ UploadInv /\ DownloadInv /\ DownloadMoves /\ download.at = "checked"
      /\ upload' = upload /\ chunks' = chunks
  BY DEF BlobInv, ReadState, DownloadMoves
<1>1. /\ download = [NoDownload EXCEPT !.at = "checked"] /\ Sent
      /\ blobState \in {NoState, CompletedState}
  BY <1>0 DEF DownloadInv
<1>2. /\ download'.at = "reading" /\ download'.exists = (blobState # NoState)
      /\ download'.size = blobState.size /\ download'.bucket = 0 /\ download'.rows = {}
      /\ download'.bytesRead = 0 /\ download'.out = <<>>
  BY <1>1 DEF ReadState, NoDownload, NoState, CompletedState
<1>3. download' \in DownloadType
  BY <1>0 DEF ReadState, BlobTypeOK, StateType, DownloadType, DownloadSteps
<1>4. /\ RowsOf(download'.out) = {} /\ AreFirstBytes(download'.out, 0)
      /\ Cardinality(BytesOf(RowsOf(download'.out))) = 0
  BY <1>2, NoRows, FS_EmptySet
<1>5. Known' \subseteq Known  BY <1>0, <1>2, <1>4 DEF Known
<1>6. Sent'  BY <1>0, <1>1 DEF Sent, Ended
<1>7. download'.exists => download'.size = upload'.sent
  <2>1. CompletedState.size = upload.sent  BY DEF CompletedState
  <2> QED  BY <1>0, <1>1, <1>2, <2>1
<1>8. ReadingInv'  BY <1>2, <1>4, <1>7 DEF ReadingInv, ReadInOrder
<1>9. DownloadInv'
  BY <1>2, <1>6, <1>8 DEF DownloadInv, DownloadIsWhole
<1>10. ASSUME ~upload.temp, upload.at \in {"written", "replied"}  PROVE HeldInv'
  <2>1. blobState # NoState  BY <1>10, WrittenState
  <2>2. RowsOf(chunks) \subseteq ChunkType  BY <1>0, RowsAreChunks DEF BlobTypeOK
  <2>3. \A r \in RowsOf(chunks) : ~(r.bucket <= 0)  BY <2>2 DEF ChunkType
  <2> QED  BY <1>0, <1>2, <2>1, <2>3 DEF HeldInv
<1> QED  BY <1>0, <1>2, <1>3, <1>5, <1>9, <1>10, DownloadMoveKeepsInv

LEMMA ReadingFacts ==
    ASSUME BlobInv, download.at = "reading"
    PROVE  /\ download \in DownloadType /\ chunks \in Seq(ChunkType) /\ Sent /\ ReadingInv
           /\ download.rows \subseteq ChunkType /\ download.out \in Seq(ChunkType)
           /\ download.bytesRead \in Nat /\ download.bucket \in Nat /\ download.size \in Nat
           /\ download.exists \in BOOLEAN
           /\ upload.sent \in Nat /\ upload.chunks \in Nat /\ upload.bucket \in Nat
           /\ download = [at |-> "reading", exists |-> download.exists, size |-> download.size,
                          bucket |-> download.bucket, rows |-> download.rows,
                          bytesRead |-> download.bytesRead, out |-> download.out]
           /\ RowsOf(chunks) \subseteq Known /\ RowsOf(download.out) \subseteq Known
           /\ download.rows \subseteq Known /\ Known \subseteq ChunkType
           /\ RowsOf(chunks) \subseteq ChunkType /\ RowsOf(download.out) \subseteq ChunkType
<1>1. /\ download \in DownloadType /\ chunks \in Seq(ChunkType) /\ upload \in UploadType
  BY DEF BlobInv, BlobTypeOK
<1>2. /\ download.rows \subseteq ChunkType /\ download.out \in Seq(ChunkType)
      /\ download.bytesRead \in Nat /\ download.bucket \in Nat /\ download.size \in Nat
      /\ download.exists \in BOOLEAN
      /\ upload.sent \in Nat /\ upload.chunks \in Nat /\ upload.bucket \in Nat
      /\ download = [at |-> "reading", exists |-> download.exists, size |-> download.size,
                     bucket |-> download.bucket, rows |-> download.rows,
                     bytesRead |-> download.bytesRead, out |-> download.out]
  BY <1>1 DEF DownloadType, UploadType
<1>3. RowsOf(chunks) \subseteq ChunkType /\ RowsOf(download.out) \subseteq ChunkType
  BY <1>1, <1>2, RowsAreChunks
<1>4. Sent /\ ReadingInv  BY DEF BlobInv, DownloadInv
<1> QED  BY <1>1, <1>2, <1>3, <1>4 DEF Known

LEMMA ReadBucketKeepsInv == BlobInv /\ ReadBucket => BlobInv'
<1> SUFFICES ASSUME BlobInv, ReadBucket  PROVE BlobInv'
  OBVIOUS
<1> DEFINE b == download.bucket + 1
           rows == BucketRows(b)
<1>0. /\ KnownInv /\ DownloadInv /\ DownloadMoves /\ download.at = "reading"
      /\ download.rows = {} /\ rows # {} /\ ReadingInv
      /\ upload' = upload /\ chunks' = chunks
  BY DEF BlobInv, ReadBucket, DownloadMoves, DownloadInv
<1>1. rows \subseteq RowsOf(chunks) /\ \A r \in rows : r.bucket = b
  BY DEF BucketRows, RowsOf
<1>2. Sent /\ Sent'  BY <1>0, ReadingFacts DEF Sent, Ended
<1>3. CASE download.exists
  <2>1. /\ download'.at = "reading" /\ download'.exists = download.exists
        /\ download'.size = download.size /\ download'.bucket = b /\ download'.rows = rows
        /\ download'.bytesRead = download.bytesRead /\ download'.out = download.out
        /\ download' = [at |-> "reading", exists |-> download.exists, size |-> download.size,
                        bucket |-> b, rows |-> rows,
                        bytesRead |-> download.bytesRead, out |-> download.out]
    BY <1>0, <1>3, ReadingFacts DEF ReadBucket
  <2>2. \A r \in RowsOf(chunks) : r.bucket = b => r \in rows
    BY DEF BucketRows, RowsOf
  <2> HIDE DEF rows
  <2>3. rows \subseteq ChunkType /\ b \in Nat  BY <1>0, <1>1, ReadingFacts
  <2>4. download' \in DownloadType
    BY <1>0, <2>1, <2>3, ReadingFacts DEF DownloadType, DownloadSteps
  <2>5. Known' \subseteq Known
    BY <1>0, <1>1, <2>1, ReadingFacts DEF Known
  <2>6. ASSUME NEW s \in RowsOf(download.out)
        PROVE  s.bucket <= b /\ s \notin rows /\ \A r \in rows : EndOf(s) <= r.from
    <3>1. s \in ChunkType /\ s \in Known /\ s.bucket <= download.bucket
      BY <1>0, ReadingFacts DEF ReadingInv
    <3>2. s.bucket < b  BY <1>0, <3>1, ReadingFacts DEF ChunkType
    <3>3. ASSUME NEW r \in rows  PROVE r # s /\ EndOf(s) <= r.from
      <4>1. r \in Known /\ r \in ChunkType /\ r.bucket = b  BY <1>0, <1>1, ReadingFacts
      <4>2. ~Before(r, s) /\ r # s  BY <2>3, <3>1, <3>2, <4>1 DEF Before, ChunkType
      <4> QED  BY <1>0, <3>1, <4>1, <4>2 DEF KnownInv, Before
    <3> QED  BY <2>3, <3>1, <3>2, <3>3 DEF ChunkType
  <2>7. \A r \in rows : r.bucket = b /\ r.number < upload.chunks
    BY <1>1, <1>2 DEF Sent
  <2>8. ReadingInv'
    BY <1>0, <1>3, <2>1, <2>6, <2>7 DEF ReadingInv, ReadInOrder
  <2>9. DownloadInv'  BY <1>2, <2>1, <2>8 DEF DownloadInv, DownloadIsWhole
  <2>10. ASSUME ~upload.temp, upload.at \in {"written", "replied"}  PROVE HeldInv'
    <3>1. HeldInv  BY <1>0, <2>10, WrittenState
    <3>2. ASSUME NEW r \in RowsOf(chunks), r.bucket <= b
          PROVE  r \in RowsOf(download.out) \union rows
      <4>1. r.bucket \in Nat /\ download.bucket \in Nat
        BY <1>0, ReadingFacts DEF ChunkType
      <4>2. CASE r.bucket = b  BY <2>2, <4>2
      <4>3. CASE r.bucket # b
        <5>1. r.bucket <= download.bucket  BY <3>2, <4>1, <4>3
        <5> QED  BY <1>0, <3>1, <5>1 DEF HeldInv
      <4> QED  BY <4>2, <4>3
    <3> QED  BY <1>0, <1>3, <2>1, <3>2 DEF HeldInv
  <2> QED  BY <1>0, <2>1, <2>4, <2>5, <2>9, <2>10, DownloadMoveKeepsInv
<1>4. CASE ~download.exists
  <2>1. /\ download'.at = "corrupted" /\ download'.rows = {} /\ download'.out = download.out
        /\ download' = [download EXCEPT !.at = "corrupted"]
    BY <1>0, <1>4, ReadingFacts DEF ReadBucket
  <2>2. download' \in DownloadType  BY <1>0, <2>1, ReadingFacts DEF DownloadType, DownloadSteps
  <2>3. Known' \subseteq Known  BY <1>0, <2>1 DEF Known
  <2>4. DownloadInv'  BY <1>2, <2>1 DEF DownloadInv, DownloadIsWhole
  <2>5. ~(~upload.temp /\ upload.at \in {"written", "replied"})
    BY <1>0, <1>4, WrittenState DEF HeldInv
  <2> QED  BY <1>0, <2>1, <2>2, <2>3, <2>4, <2>5, DownloadMoveKeepsInv
<1> QED  BY <1>3, <1>4

\* What is read last is the end of what has been read.
LEMMA NextRowKeepsOrder ==
    ASSUME NEW s \in Seq(ChunkType), NEW r \in ChunkType, NEW n \in Nat,
           \A q \in RowsOf(s) : EndOf(q) <= r.from,
           AreFirstBytes(s, n) \/ (s # <<>> /\ n < EndOf(s[Len(s)]))
    PROVE  \/ AreFirstBytes(Append(s, r), n + r.size)
           \/ n + r.size < EndOf(Append(s, r)[Len(Append(s, r))])
<1>1. Len(Append(s, r)) = Len(s) + 1 /\ Append(s, r)[Len(s) + 1] = r  BY RowsOfAppend
<1>2. r.from \in Nat /\ r.size \in Nat /\ EndOf(r) = r.from + r.size
  BY DEF ChunkType, EndOf
<1>3. s # <<>> => EndOf(s[Len(s)]) \in Nat /\ EndOf(s[Len(s)]) <= r.from
  <2> SUFFICES ASSUME s # <<>>
               PROVE  EndOf(s[Len(s)]) \in Nat /\ EndOf(s[Len(s)]) <= r.from
    OBVIOUS
  <2>1. Len(s) \in 1 .. Len(s)  OBVIOUS
  <2>2. s[Len(s)] \in ChunkType  BY <2>1
  <2>3. s[Len(s)] \in RowsOf(s)  BY <2>1 DEF RowsOf
  <2>4. EndOf(s[Len(s)]) \in Nat
    <3>1. s[Len(s)].from \in Nat /\ s[Len(s)].size \in Nat  BY <2>2 DEF ChunkType
    <3> QED  BY <3>1 DEF EndOf
  <2> QED  BY <2>3, <2>4
<1>4. CASE n = r.from
  <2>1. AreFirstBytes(s, r.from)  BY <1>3, <1>4
  <2>2. AreFirstBytes(Append(s, r), EndOf(r))  BY <2>1, FirstBytesAppend
  <2> QED  BY <1>2, <1>4, <2>2
<1>5. CASE n # r.from
  <2>1. n <= r.from
    <3>1. CASE s = <<>>  BY <1>2, <3>1 DEF AreFirstBytes
    <3>2. CASE s # <<>>  BY <1>2, <1>3, <3>2 DEF AreFirstBytes, EndOf
    <3> QED  BY <3>1, <3>2
  <2> QED  BY <1>1, <1>2, <1>5, <2>1
<1> QED  BY <1>4, <1>5

\* A row that is read adds its bytes to those of the others.
LEMMA NextRowIsCounted ==
    ASSUME KnownInv, Known \subseteq ChunkType, upload.sent \in Nat,
           NEW S \in SUBSET Known, NEW r \in Known \ S
    PROVE  Cardinality(BytesOf(S \union {r})) = Cardinality(BytesOf(S)) + r.size
<1> DEFINE old == BytesOf(S)
           new == r.from .. r.from + r.size - 1
<1>1. r.from \in Nat /\ r.size \in Nat \ {0}  BY DEF ChunkType
<1>2. old \union new = BytesOf(S \union {r})  BY BytesOfOneMore
<1>3. IsFiniteSet(old) /\ Cardinality(old) \in Nat  BY BytesOfKnown, FS_CardinalityType
<1>4. IsFiniteSet(new) /\ Cardinality(new) = r.size
  <2>1. r.from \in Int /\ r.from + r.size - 1 \in Int  BY <1>1
  <2>2. /\ IsFiniteSet(r.from .. r.from + r.size - 1)
        /\ Cardinality(r.from .. r.from + r.size - 1) =
              IF r.from > r.from + r.size - 1 THEN 0 ELSE (r.from + r.size - 1) - r.from + 1
    BY <2>1, FS_Interval
  <2>3. ~(r.from > r.from + r.size - 1) /\ (r.from + r.size - 1) - r.from + 1 = r.size
    BY <1>1
  <2> QED  BY <2>2, <2>3
<1>5. old \cap new = {}
  <2> SUFFICES ASSUME NEW s \in S, NEW x \in s.from .. s.from + s.size - 1,
                      x \in r.from .. r.from + r.size - 1
               PROVE  FALSE
    BY DEF BytesOf
  <2>1. s.from \in Nat /\ s.size \in Nat  BY DEF ChunkType
  <2>2. Before(r, s) \/ Before(s, r)  BY DEF KnownInv
  <2> QED  BY <1>1, <2>1, <2>2 DEF Before, EndOf
<1> HIDE DEF old, new
<1>6. Cardinality(old \cap new) = 0  BY <1>5, FS_EmptySet
<1>7. Cardinality(old \union new) =
          Cardinality(old) + Cardinality(new) - Cardinality(old \cap new)
  BY <1>3, <1>4, FS_Union
<1>8. Cardinality(old \union new) = Cardinality(old) + r.size
  BY <1>1, <1>3, <1>4, <1>6, <1>7
<1> QED  BY <1>2, <1>8 DEF old

LEMMA WriteRowKeepsInv == BlobInv /\ WriteRow => BlobInv'
<1> SUFFICES ASSUME BlobInv, WriteRow  PROVE BlobInv'
  OBVIOUS
<1>0. /\ KnownInv /\ DownloadInv /\ DownloadMoves /\ download.at = "reading"
      /\ BlobTypeOK /\ upload' = upload /\ chunks' = chunks
  BY DEF BlobInv, WriteRow, DownloadMoves
<1>1. PICK r \in download.rows :
          /\ \A s \in download.rows \ {r} : SortsBefore(r.number, s.number)
          /\ download' = [download EXCEPT !.rows = @ \ {r}, !.bytesRead = @ + r.size,
                                          !.out = Append(@, r)]
  BY DEF WriteRow
<1> DEFINE rows == download.rows \ {r}
           out  == Append(download.out, r)
           read == download.bytesRead + r.size
<1>2. r \in ChunkType /\ r \in Known /\ r.size \in Nat \ {0} /\ read \in Nat
      /\ rows \subseteq download.rows
  BY <1>0, ReadingFacts DEF ChunkType
<1>3. out \in Seq(ChunkType) /\ out # <<>> /\ RowsOf(out) = RowsOf(download.out) \union {r}
  BY <1>0, <1>2, ReadingFacts, RowsOfAppend
<1>4. /\ download'.at = "reading" /\ download'.exists = download.exists
      /\ download'.size = download.size /\ download'.bucket = download.bucket
      /\ download'.rows = rows /\ download'.bytesRead = read /\ download'.out = out
      /\ download' = [at |-> "reading", exists |-> download.exists, size |-> download.size,
                      bucket |-> download.bucket, rows |-> rows,
                      bytesRead |-> read, out |-> out]
  BY <1>0, <1>1, ReadingFacts
<1>5. Sent /\ Sent' /\ ReadingInv  BY <1>0, ReadingFacts DEF Sent, Ended
<1>6. /\ download.exists /\ download.size = upload.sent
      /\ r.bucket = download.bucket /\ r \notin RowsOf(download.out)
      /\ Cardinality(BytesOf(RowsOf(download.out))) = download.bytesRead
      /\ \A s \in download.rows : s.bucket = download.bucket /\ s.number < upload.chunks
  BY <1>5 DEF ReadingInv
<1>7. Cardinality(BytesOf(RowsOf(out))) = read
  <2>1. RowsOf(download.out) \in SUBSET Known /\ r \in Known \ RowsOf(download.out)
    BY <1>0, <1>2, <1>6, ReadingFacts
  <2> QED  BY <1>0, <1>3, <1>6, <2>1, ReadingFacts, NextRowIsCounted
<1>8. ASSUME upload.chunks <= Base
      PROVE  /\ \A s \in RowsOf(out), q \in rows : EndOf(s) <= q.from
             /\ AreFirstBytes(out, read) \/ read < EndOf(out[Len(out)])
  <2>1. ReadInOrder  BY <1>5, <1>8 DEF ReadingInv
  <2>2. ASSUME NEW s \in rows  PROVE EndOf(r) <= s.from
    <3>1. s \in Known /\ s \in ChunkType /\ SortsBefore(r.number, s.number)
      BY <1>0, <1>1, ReadingFacts
    <3>2. r.number < Base /\ s.number < Base /\ r.number \in Nat /\ s.number \in Nat
      <4>1. r.number < upload.chunks /\ s.number < upload.chunks  BY <1>2, <1>6
      <4>2. upload.chunks \in Nat  BY <1>0, ReadingFacts
      <4>3. r.number \in Nat /\ s.number \in Nat  BY <1>2, <3>1 DEF ChunkType
      <4> QED  BY <1>8, <4>1, <4>2, <4>3, BlobBounds
    <3>3. r.number < s.number  BY <3>1, <3>2, OneByteOrder
    <3>4. r # s /\ ~Before(s, r)  BY <3>2, <3>3 DEF Before
    <3> QED  BY <1>0, <1>2, <3>1, <3>4 DEF KnownInv, Before
  <2>3. \A s \in RowsOf(download.out) : EndOf(s) <= r.from  BY <2>1 DEF ReadInOrder
  <2>4. AreFirstBytes(out, read) \/ read < EndOf(out[Len(out)])
    <3>1. /\ download.out \in Seq(ChunkType) /\ download.bytesRead \in Nat
          /\ AreFirstBytes(download.out, download.bytesRead)
             \/ /\ download.out # <<>>
                /\ download.bytesRead < EndOf(download.out[Len(download.out)])
      BY <1>0, <2>1, ReadingFacts DEF ReadInOrder
    <3> QED  BY <1>2, <2>3, <3>1, NextRowKeepsOrder
  <2> HIDE DEF out, read, rows
  <2>5. \A s \in RowsOf(out), q \in rows : EndOf(s) <= q.from
    BY <1>2, <1>3, <2>1, <2>2 DEF ReadInOrder
  <2> QED  BY <2>4, <2>5
<1>9. RowsOf(out) \union rows = RowsOf(download.out) \union download.rows
      /\ r \notin rows
  BY <1>3
<1> HIDE DEF rows, out, read
<1>10. download' \in DownloadType
  BY <1>0, <1>2, <1>3, <1>4, ReadingFacts DEF DownloadType, DownloadSteps
<1>11. Known' \subseteq Known
  BY <1>0, <1>4, <1>9 DEF Known
<1>12. ReadingInv'
  <2>1. \A s \in RowsOf(out) : s.bucket <= download.bucket /\ s \notin rows
    <3>1. r.bucket <= download.bucket  BY <1>0, <1>6, ReadingFacts
    <3> QED  BY <1>2, <1>3, <1>5, <1>9, <3>1 DEF ReadingInv
  <2>2. upload'.chunks <= Base => ReadInOrder'
    BY <1>0, <1>3, <1>4, <1>8 DEF ReadInOrder
  <2> QED  BY <1>0, <1>2, <1>4, <1>6, <1>7, <2>1, <2>2 DEF ReadingInv
<1>13. DownloadInv'  BY <1>4, <1>5, <1>12 DEF DownloadInv, DownloadIsWhole
<1>14. ASSUME ~upload.temp, upload.at \in {"written", "replied"}  PROVE HeldInv'
  <2>1. HeldInv  BY <1>0, <1>14, WrittenState
  <2> QED  BY <1>0, <1>4, <1>9, <2>1 DEF HeldInv
<1> QED  BY <1>0, <1>4, <1>10, <1>11, <1>13, <1>14, DownloadMoveKeepsInv

LEMMA EndOfBucketsKeepsInv == BlobInv /\ EndOfBuckets => BlobInv'
<1> SUFFICES ASSUME BlobInv, EndOfBuckets  PROVE BlobInv'
  OBVIOUS
<1>0. /\ KnownInv /\ DownloadInv /\ DownloadMoves /\ download.at = "reading"
      /\ download.rows = {} /\ BucketRows(download.bucket + 1) = {}
      /\ download' = [download EXCEPT !.at = Verdict]
      /\ Verdict \in {"not found", "corrupted", "ok"}
      /\ upload' = upload /\ chunks' = chunks
  BY DEF BlobInv, EndOfBuckets, DownloadMoves, Verdict
<1>1. /\ download'.at = Verdict /\ download'.rows = {} /\ download'.out = download.out
      /\ download'.bytesRead = download.bytesRead
      /\ download' = [at |-> Verdict, exists |-> download.exists, size |-> download.size,
                      bucket |-> download.bucket, rows |-> {},
                      bytesRead |-> download.bytesRead, out |-> download.out]
  BY <1>0, ReadingFacts
<1>2. Sent /\ Sent' /\ ReadingInv  BY <1>0, ReadingFacts DEF Sent, Ended
<1>3. download' \in DownloadType
  BY <1>0, <1>1, ReadingFacts DEF DownloadType, DownloadSteps
<1>4. Known' \subseteq Known  BY <1>0, <1>1 DEF Known
<1>5. /\ BytesOf(RowsOf(download.out)) \subseteq 0 .. upload.sent - 1
      /\ Cardinality(0 .. upload.sent - 1) = upload.sent
      /\ Cardinality(BytesOf(RowsOf(download.out))) = upload.sent =>
             BytesOf(RowsOf(download.out)) = 0 .. upload.sent - 1
      /\ Cardinality(BytesOf(RowsOf(download.out))) = download.bytesRead
  <2>1. RowsOf(download.out) \in SUBSET Known  BY <1>0, ReadingFacts
  <2> QED  BY <1>0, <1>2, <2>1, ReadingFacts, BytesOfKnown DEF ReadingInv
<1>6. ASSUME Verdict = "ok"
      PROVE  /\ BytesOf(RowsOf(download.out)) = 0 .. upload.sent - 1
             /\ download.bytesRead = upload.sent
             /\ upload.chunks <= Base => AreFirstBytes(download.out, upload.sent)
  <2>1. /\ download.exists \/ download.bytesRead # 0
        /\ download.bytesRead = download.size
    BY <1>6 DEF Verdict
  <2>2. download.bytesRead = upload.sent
    BY <1>2, <2>1 DEF ReadingInv
  <2>3. ASSUME download.out # <<>>
        PROVE  /\ EndOf(download.out[Len(download.out)]) \in Nat
               /\ EndOf(download.out[Len(download.out)]) <= upload.sent
    <3>1. download.out[Len(download.out)] \in RowsOf(download.out)
      BY <1>0, <2>3, ReadingFacts, RowsAreChunks
    <3>2. download.out[Len(download.out)] \in ChunkType  BY <1>0, <3>1, ReadingFacts
    <3>3. EndOf(download.out[Len(download.out)]) <= upload.sent
      BY <1>0, <3>1, ReadingFacts DEF KnownInv
    <3>4. EndOf(download.out[Len(download.out)]) \in Nat
      BY <3>2 DEF ChunkType, EndOf
    <3> QED  BY <3>3, <3>4
  <2>4. ASSUME upload.chunks <= Base  PROVE AreFirstBytes(download.out, upload.sent)
    <3>1. \/ AreFirstBytes(download.out, upload.sent)
          \/ /\ download.out # <<>>
             /\ upload.sent < EndOf(download.out[Len(download.out)])
      BY <1>2, <2>2, <2>4 DEF ReadingInv, ReadInOrder
    <3>2. upload.sent \in Nat  BY <1>0, ReadingFacts
    <3> QED  BY <2>3, <3>1, <3>2
  <2> QED  BY <1>5, <2>2, <2>4
<1>7. DownloadIsWhole'
  BY <1>0, <1>1, <1>2, <1>6 DEF DownloadIsWhole, Sent, Ended
<1>8. DownloadInv'
  BY <1>0, <1>1, <1>2, <1>7 DEF DownloadInv
<1>9. ASSUME ~upload.temp, upload.at \in {"written", "replied"}  PROVE Verdict # "corrupted"
  <2>0. HeldInv /\ ChunksInv  BY <1>0, <1>9, WrittenState
  <2>1. ASSUME NEW r \in RowsOf(chunks)  PROVE r.bucket <= download.bucket
    <3>1. chunks # <<>>  BY NoRows
    <3>2. ~(\E s \in RowsOf(chunks) : s.bucket = download.bucket + 1)
      BY <1>0 DEF BucketRows, RowsOf
    <3>3. download.bucket + 1 \notin 1 .. upload.bucket
      BY <2>0, <3>1, <3>2 DEF ChunksInv
    <3>4. r.bucket \in Nat /\ download.bucket \in Nat /\ upload.bucket \in Nat
      BY <1>0, ReadingFacts DEF ChunkType
    <3>5. r.bucket <= upload.bucket  BY <2>0 DEF ChunksInv
    <3> QED  BY <3>3, <3>4, <3>5
  <2>2. RowsOf(chunks) \subseteq RowsOf(download.out)
    BY <1>0, <2>0, <2>1 DEF HeldInv
  <2>3. BytesOf(RowsOf(chunks)) \subseteq BytesOf(RowsOf(download.out))
    BY <2>2 DEF BytesOf
  <2>4. BytesOf(RowsOf(chunks)) = 0 .. upload.sent - 1  BY <2>0 DEF ChunksInv
  <2>5. BytesOf(RowsOf(download.out)) = 0 .. upload.sent - 1
    BY <1>5, <2>3, <2>4, Zenon
  <2>6. download.bytesRead = upload.sent  BY <1>5, <2>5, Zenon
  <2>7. download.exists /\ download.size = upload.sent
    BY <1>2, <2>0 DEF HeldInv, ReadingInv
  <2> QED  BY <2>6, <2>7 DEF Verdict
<1> QED  BY <1>0, <1>1, <1>3, <1>4, <1>8, <1>9, DownloadMoveKeepsInv

LEMMA EndKeepsInv == BlobInv /\ (DownloadFails \/ DownloadAgain) => BlobInv'
<1> SUFFICES ASSUME BlobInv, DownloadFails \/ DownloadAgain  PROVE BlobInv'
  OBVIOUS
<1>0. /\ DownloadInv /\ DownloadMoves /\ download \in DownloadType
      /\ upload' = upload /\ chunks' = chunks
  BY DEF BlobInv, BlobTypeOK, DownloadFails, DownloadAgain, DownloadMoves
<1>1. Sent' = Sent  BY <1>0 DEF Sent, Ended
<1>2. CASE DownloadFails
  <2>1. /\ download'.at = "failed" /\ download'.rows = download.rows
        /\ download'.out = download.out /\ download' \in DownloadType
    BY <1>0, <1>2 DEF DownloadFails, DownloadType, DownloadSteps
  <2>2. Known' \subseteq Known  BY <1>0, <2>1 DEF Known
  <2>3. DownloadInv'  BY <1>0, <1>1, <2>1 DEF DownloadInv, DownloadIsWhole
  <2> QED  BY <1>0, <2>1, <2>2, <2>3, DownloadMoveKeepsInv
<1>3. CASE DownloadAgain
  <2>1. /\ download' = [NoDownload EXCEPT !.at = "none"] /\ download'.at = "none"
        /\ download'.rows = {} /\ download'.out = <<>>
    <3>1. download' = NoDownload  BY <1>3 DEF DownloadAgain
    <3> QED  BY <3>1 DEF NoDownload
  <2>2. download' \in DownloadType  BY <2>1, NoDownloadType DEF DownloadSteps
  <2>3. Known' \subseteq Known  BY <1>0, <2>1, NoRows DEF Known
  <2>4. DownloadInv'  BY <2>1 DEF DownloadInv, DownloadIsWhole
  <2> QED  BY <1>0, <2>1, <2>2, <2>3, <2>4, DownloadMoveKeepsInv
<1> QED  BY <1>2, <1>3

-----------------------------------------------------------------------------
(* The TTL and a crash. *)

LEMMA ExpireKeepsInv == BlobInv /\ Expire => BlobInv'
<1> SUFFICES ASSUME BlobInv, Expire  PROVE BlobInv'
  OBVIOUS
<1>0. /\ BlobTypeOK /\ KnownInv /\ UploadInv /\ DownloadInv /\ chunks \in Seq(ChunkType)
      /\ upload.temp /\ upload' = upload /\ doc' = doc /\ download' = download
  BY DEF BlobInv, BlobTypeOK, Expire
<1>1. chunks' \in Seq(ChunkType) /\ RowsOf(chunks') \subseteq RowsOf(chunks)
  <2>1. chunks' = chunks \/ (chunks # <<>> /\ chunks' = Tail(chunks))  BY DEF Expire
  <2> QED  BY <1>0, <2>1, RowsOfTail
<1>2. blobState' \in {blobState, NoState}  BY DEF Expire
<1>3. chunks = <<>> => chunks' = <<>>  BY DEF Expire
<1>4. (Sent => Sent') /\ CompletedState' = CompletedState
  BY <1>0, <1>1 DEF Sent, Ended, CompletedState
<1>5. BlobTypeOK'  BY <1>0, <1>1, <1>2, StateRows DEF BlobTypeOK
<1>6. KnownInv'
  <2>1. Known' \subseteq Known  BY <1>0, <1>1 DEF Known
  <2> QED  BY <1>0, <2>1 DEF KnownInv
<1>7. UploadInv'
  BY <1>0, <1>1, <1>2, <1>3, <1>4 DEF UploadInv, NoState, Ended
<1>8. DownloadInv'
  <2>1. (ReadingInv => ReadingInv') /\ DownloadIsWhole'
    BY <1>0 DEF ReadingInv, ReadInOrder, DownloadInv, DownloadIsWhole
  <2> QED  BY <1>0, <1>2, <1>4, <2>1 DEF DownloadInv
<1>9. PersistentInv'  BY <1>0 DEF PersistentInv
<1> QED  BY <1>5, <1>6, <1>7, <1>8, <1>9 DEF BlobInv

LEMMA BlobCrashKeepsInv == BlobInv /\ BlobCrash => BlobInv'
<1> SUFFICES ASSUME BlobInv, BlobCrash  PROVE BlobInv'
  OBVIOUS
<1>0. /\ BlobTypeOK /\ KnownInv /\ UploadInv /\ DownloadInv
      /\ upload' = [upload EXCEPT !.at = "failed"] /\ download' = NoDownload
      /\ chunks' = chunks /\ blobState' = blobState
      /\ upload.at \notin {"failed", "replied"}
  BY DEF BlobInv, BlobCrash, GoOn
<1>1. /\ upload'.at = "failed" /\ upload'.sent = upload.sent /\ upload'.total = upload.total
      /\ upload'.temp = upload.temp /\ upload'.cut = upload.cut
      /\ upload'.chunks = upload.chunks /\ upload' \in UploadType
  BY <1>0 DEF BlobTypeOK, UploadType, UploadSteps
<1>2. /\ download'.at = "none" /\ download'.rows = {} /\ download'.out = <<>>
      /\ download' = [NoDownload EXCEPT !.at = "none"]
  BY <1>0 DEF NoDownload
<1>3. download' \in DownloadType  BY <1>2, NoDownloadType DEF DownloadSteps
<1>4. Sent => Sent'  BY <1>0, <1>1 DEF Sent, Ended
<1>5. BlobTypeOK'  BY <1>0, <1>1, <1>3 DEF BlobTypeOK
<1>6. KnownInv'
  <2>1. Known' \subseteq Known  BY <1>0, <1>2, NoRows DEF Known
  <2> QED  BY <1>0, <1>1, <2>1 DEF KnownInv
<1>7. UploadInv'  BY <1>0, <1>1, <1>4 DEF UploadInv, CompletedState
<1>8. DownloadInv'  BY <1>2 DEF DownloadInv, DownloadIsWhole
<1>9. PersistentInv'  BY <1>1 DEF PersistentInv
<1> QED  BY <1>5, <1>6, <1>7, <1>8, <1>9 DEF BlobInv

-----------------------------------------------------------------------------
LEMMA BlobInvInit == BlobInit => BlobInv
<1> SUFFICES ASSUME BlobInit  PROVE BlobInv
  OBVIOUS
<1>1. PICK t \in BOOLEAN, n \in 0 .. MaxBytes :
          upload = [at |-> "new", temp |-> t, total |-> n, sent |-> 0, cut |-> FALSE,
                    chunks |-> 0, bucket |-> 1]
  BY Zenon DEF BlobInit
<1>2. /\ upload.at = "new" /\ upload.total = n /\ upload.sent = 0
      /\ upload.chunks = 0 /\ upload.bucket = 1
      /\ blobState = NoState /\ chunks = <<>> /\ download = [NoDownload EXCEPT !.at = "none"]
  BY <1>1 DEF BlobInit, NoDownload
<1>3. /\ download.at = "none" /\ download.rows = {} /\ download.out = <<>>
  BY <1>2 DEF NoDownload
<1>4. download \in DownloadType  BY <1>2, NoDownloadType DEF DownloadSteps
<1>5. Known = {}  BY <1>2, <1>3, NoRows DEF Known
<1>6. BlobTypeOK
  <2>1. n \in Nat /\ 0 <= n  BY BlobBounds
  <2>2. <<>> \in Seq(ChunkType)  OBVIOUS
  <2>3. upload \in UploadType  BY <1>1 DEF UploadType, UploadSteps
  <2> QED  BY <1>2, <1>4, <2>1, <2>2, <2>3, StateRows DEF BlobTypeOK
<1>7. KnownInv  BY <1>5 DEF KnownInv
<1>8. UploadInv  BY <1>2, NoRows DEF UploadInv, NoState
<1>9. DownloadInv  BY <1>2, <1>3 DEF DownloadInv, DownloadIsWhole
<1>10. PersistentInv
  <2>1. 0 .. 0 - 1 = {}  OBVIOUS
  <2>2. ChunksInv  BY <1>2, <2>1, NoRows DEF ChunksInv
  <2> QED  BY <1>2, <2>2 DEF PersistentInv
<1> QED  BY <1>6, <1>7, <1>8, <1>9, <1>10 DEF BlobInv

LEMMA BlobInvStutter == BlobInv /\ UNCHANGED blobVars => BlobInv'
BY DEF blobVars, BlobInv, BlobTypeOK, KnownInv, Known, UploadInv, Sent, Ended, CompletedState,
       DownloadInv, DownloadIsWhole, ReadingInv, ReadInOrder, PersistentInv, ChunksInv, HeldInv

LEMMA BlobInvInductive == BlobInv /\ [BlobNext]_blobVars => BlobInv'
<1>1. BlobInv /\ Upload => BlobInv'
  BY UploadMoveKeepsInv, WriteChunkKeepsInv DEF Upload
<1>2. BlobInv /\ Download => BlobInv'
  BY CheckKeepsInv, ReadStateKeepsInv, ReadBucketKeepsInv, WriteRowKeepsInv,
     EndOfBucketsKeepsInv, EndKeepsInv DEF Download
<1> QED  BY <1>1, <1>2, ExpireKeepsInv, BlobCrashKeepsInv, BlobInvStutter DEF BlobNext

LEMMA BlobInvariant == BlobSpec => []BlobInv
BY BlobInvInit, BlobInvInductive, PTL DEF BlobSpec

\* A download that ends without an error (ReadBLOB) has written each byte that a
\* completed upload took from the body (writeBLOB) once, for a BLOB of any size
\* and any order in which a storage gives its rows; in the order of the body as
\* long as the numbers of the chunks fit one byte.
THEOREM DownloadsAreWhole == BlobSpec => []DownloadIsWhole
<1>1. BlobInv => DownloadIsWhole  BY DEF BlobInv, DownloadInv
<1> QED  BY <1>1, BlobInvariant, PTL

\* What was answered as stored (sendWriteResult) stays readable: the document,
\* every chunk and the state row are there, and no download of it is refused as
\* corrupted, however many chunks it has.
THEOREM RepliesAreReadable == BlobSpec => []RepliedIsReadable
<1>1. BlobInv => RepliedIsReadable
  BY WrittenState DEF RepliedIsReadable, CompletedState, ChunksInv
<1> QED  BY <1>1, BlobInvariant, PTL
=============================================================================
