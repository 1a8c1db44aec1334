---------------------------- MODULE BboltStorage ----------------------------
(***************************************************************************)
(* The bbolt driver of the application storage: pkg/istorage/bbolt.  A row *)
(* carries the time it expires at; a second bucket lists the rows by that  *)
(* time for the background cleaner.  The conditional operations check in   *)
(* one transaction of the database and write in another.                   *)
(*                                                                         *)
(* One partition key.  Times are relative: life counts the seconds down to *)
(* the expiration, 0 is expired.  How the cleaner reads the expiration out *)
(* of a key of the TTL bucket is left out.                                 *)
(***************************************************************************)
EXTENDS Naturals

CONSTANTS
    CCols,              \* clustering columns the users of the storage pass
    EmptyCCols,
    NullKey,            \* bbolt has no empty keys
    Contents,           \* values
    NoRow,
    Forever,            \* ExpireAt = 0
    TTLs,               \* ttlSeconds, 0 for none
    CleanupInterval,
    StorageUsers          \* users of the storage

ASSUME BboltConstants ==
    /\ EmptyCCols \in CCols /\ NullKey \notin CCols
    /\ TTLs \subseteq Nat /\ CleanupInterval \in Nat \ {0}
    /\ Forever \notin Nat

VARIABLES
    dataBucket,     \* [DataKeys -> [data, life] or NoRow]
    ttlBucket,      \* {<<life, clustering columns>>}
    writing,        \* [StorageUsers -> the second transaction it is to run]
    cleanTimer      \* ticks until the cleaner's timer fires

bboltVars == <<dataBucket, ttlBucket, writing, cleanTimer>>

SafeKey(c) == IF c = EmptyCCols THEN NullKey ELSE c

DataKeys == {SafeKey(c) : c \in CCols}

BRow(d, l) == [data |-> d, life |-> l]
NoWrite == [op |-> "none", ccols |-> EmptyCCols, data |-> NoRow, ttl |-> 0]

BboltInit ==
    /\ dataBucket = [k \in DataKeys |-> NoRow]
    /\ ttlBucket = {}
    /\ writing = [g \in StorageUsers |-> NoWrite]
    /\ cleanTimer = CleanupInterval

Unexpired(k) == dataBucket[k] # NoRow /\ dataBucket[k].life # 0

-----------------------------------------------------------------------------
(***************************************************************************)
(* The conditional operations: the check, in a transaction that reads.  A  *)
(* check that fails answers FALSE and changes nothing.                     *)
(***************************************************************************)
BboltInsertIfNotExists(g) ==
    /\ writing[g] = NoWrite
    /\ \E c \in CCols, d \in Contents, t \in TTLs :
          /\ ~Unexpired(SafeKey(c))
          /\ writing' = [writing EXCEPT ![g] =
                            [op |-> "put", ccols |-> c, data |-> d, ttl |-> t]]
    /\ UNCHANGED <<dataBucket, ttlBucket, cleanTimer>>

\* The caller compares with the value it read, which is the current one.
BboltCompareAndSwap(g) ==
    /\ writing[g] = NoWrite
    /\ \E c \in CCols, d \in Contents, t \in TTLs :
          /\ Unexpired(SafeKey(c))
          /\ writing' = [writing EXCEPT ![g] =
                            [op |-> "put", ccols |-> c, data |-> d, ttl |-> t]]
    /\ UNCHANGED <<dataBucket, ttlBucket, cleanTimer>>

BboltCompareAndDelete(g) ==
    /\ writing[g] = NoWrite
    /\ \E c \in CCols :
          /\ Unexpired(SafeKey(c))
          /\ writing' = [writing EXCEPT ![g] =
                            [op |-> "delete", ccols |-> c, data |-> NoRow, ttl |-> 0]]
    /\ UNCHANGED <<dataBucket, ttlBucket, cleanTimer>>

-----------------------------------------------------------------------------
(***************************************************************************)
(* The write, in a transaction of its own.                                 *)
(***************************************************************************)
\* Mutant of MakeTTLKey: the columns as the caller passed them.
TTLKeyOfRawColumns(c, life) == <<life, c>>
MakeTTLKey(c, life) == <<life, SafeKey(c)>>

\* putValue.  The entry of an earlier expiration stays in the TTL bucket.
PutValue(c, d, ttl) ==
    LET life == IF ttl > 0 THEN ttl ELSE Forever
    IN  /\ dataBucket' = [dataBucket EXCEPT ![SafeKey(c)] = BRow(d, life)]
        /\ ttlBucket' = IF ttl > 0 THEN ttlBucket \union {MakeTTLKey(c, life)} ELSE ttlBucket

BboltWrite(g) ==
    /\ writing[g].op = "put"
    /\ PutValue(writing[g].ccols, writing[g].data, writing[g].ttl)
    /\ writing' = [writing EXCEPT ![g] = NoWrite]
    /\ UNCHANGED cleanTimer

\* bucket.Delete gets the columns as they are: an empty key is in no bucket.
DeleteRaw(rows, c) == [k \in DataKeys |-> IF k = c THEN NoRow ELSE rows[k]]

BboltDelete(g) ==
    /\ writing[g].op = "delete"
    /\ dataBucket' = DeleteRaw(dataBucket, writing[g].ccols)
    /\ writing' = [writing EXCEPT ![g] = NoWrite]
    /\ UNCHANGED <<ttlBucket, cleanTimer>>

(***************************************************************************)
(* The unconditional writes set no expiration and leave the TTL bucket     *)
(* alone.  PutBatch passes the columns as they are, so that a batch with   *)
(* an empty key fails as a whole.                                          *)
(***************************************************************************)
BboltPut ==
    /\ \E c \in CCols, d \in Contents :
          dataBucket' = [dataBucket EXCEPT ![SafeKey(c)] = BRow(d, Forever)]
    /\ UNCHANGED <<ttlBucket, writing, cleanTimer>>

BboltPutBatch ==
    /\ \E items \in SUBSET (CCols \ {EmptyCCols}), d \in Contents :
          dataBucket' = [k \in DataKeys |->
                            IF k \in items THEN BRow(d, Forever) ELSE dataBucket[k]]
    /\ UNCHANGED <<ttlBucket, writing, cleanTimer>>

-----------------------------------------------------------------------------
Older(life) == IF life \in {Forever, 0} THEN life ELSE life - 1

BboltTick ==
    /\ dataBucket' = [k \in DataKeys |->
                        IF dataBucket[k] = NoRow THEN NoRow
                        ELSE [dataBucket[k] EXCEPT !.life = Older(@)]]
    /\ ttlBucket' = {<<Older(e[1]), e[2]>> : e \in ttlBucket}
    /\ cleanTimer' = IF cleanTimer > 0 THEN cleanTimer - 1 ELSE 0
    /\ UNCHANGED writing

(***************************************************************************)
(* backgroundCleaner, one transaction: removeKey for each entry that is    *)
(* due.  It deletes the row by its key, whatever the row's expiration.     *)
(***************************************************************************)
BackgroundCleaner ==
    /\ cleanTimer = 0
    /\ LET due == {e \in ttlBucket : e[1] = 0}
       IN  /\ dataBucket' = [k \in DataKeys |->
                                IF \E e \in due : e[2] = k THEN NoRow ELSE dataBucket[k]]
           /\ ttlBucket' = ttlBucket \ due
    /\ cleanTimer' = CleanupInterval
    /\ UNCHANGED writing

BboltNext ==
    \/ \E g \in StorageUsers :
          \/ BboltInsertIfNotExists(g) \/ BboltCompareAndSwap(g)
          \/ BboltCompareAndDelete(g) \/ BboltWrite(g) \/ BboltDelete(g)
    \/ BboltPut \/ BboltPutBatch \/ BboltTick \/ BackgroundCleaner

BboltSpec == BboltInit /\ [][BboltNext]_bboltVars

-----------------------------------------------------------------------------
(***************************************************************************)
(* A row that is to expire is in the TTL bucket at the time and under the  *)
(* key the cleaner looks for, so that no expired row stays for ever        *)
(* (putValue and removeKey use one key; an overwritten or deleted row      *)
(* leaves its entry and takes nobody else's).                              *)
(***************************************************************************)
ExpiringRowsAreIndexed ==
    \A k \in DataKeys :
        dataBucket[k] # NoRow /\ dataBucket[k].life # Forever
            => <<dataBucket[k].life, k>> \in ttlBucket

(***************************************************************************)
(* The cleaner does not remove a row whose time to live is not over: the   *)
(* TTL that CompareAndSwap sets is the record's (istorage/interface.go:    *)
(* "Time-to-live in seconds to set/update on the record").  Does not hold: *)
(* the entry of the earlier expiration deletes the renewed row.            *)
(***************************************************************************)
RenewedRowsStay ==
    [][BackgroundCleaner =>
          \A k \in DataKeys :
              Unexpired(k) /\ dataBucket[k].life # Forever => dataBucket'[k] = dataBucket[k]]_bboltVars
=============================================================================
