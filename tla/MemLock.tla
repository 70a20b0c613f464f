------------------------------ MODULE MemLock ------------------------------
(***************************************************************************)
(* MemLockCore and MemLockGuard (src/lock/): locks on keys, kept as the    *)
(* presence of the key in a concurrent hash map, whose operations on one   *)
(* key are atomic.  A batch is inserted key by key, and taken back key by  *)
(* key when one of its keys is already there, while other threads do the   *)
(* same.                                                                   *)
(*                                                                         *)
(* A guard locks its batch in its constructor and unlocks it in its        *)
(* destructor; a user calls try_lock() and unlock() on the table itself.   *)
(* The map stores no owner: holder is what the properties need to know.    *)
(***************************************************************************)
EXTENDS Integers, Sequences, FiniteSets

CONSTANTS
    Guards,      \* threads that construct and destroy a MemLockGuard
    Users,       \* threads that call try_lock() and unlock()
    Keys,        \* of a trivially copyable type, with an order
    KeyLists,    \* the vectors handed to a guard
    Nobody

ASSUME LockAssumption ==
    /\ Guards \cap Users = {}
    /\ Nobody \notin Guards \cup Users
    /\ Keys \subseteq Int
    /\ KeyLists \subseteq Seq(Keys)

Holders == Guards \cup Users

VARIABLES
    holder,      \* for each key in m_hashMap who inserted it, or Nobody
    state,       \* where each guard is in its life
    keys,        \* m_keys of each guard
    curr,        \* the index of the next key to insert; m_iter once failed
    begin,       \* the index of the next key to erase
    dedup,       \* the argument of the constructor
    foreign      \* the key a failed guard met had been inserted by another

guardVars == <<state, keys, curr, begin, dedup, foreign>>
vars == <<holder, guardVars>>

KeysOf(list) == {list[i] : i \in DOMAIN list}

HasDuplicate(list) == \E i, j \in DOMAIN list : i # j /\ list[i] = list[j]

Init ==
    /\ holder = [k \in Keys |-> Nobody]
    /\ state = [g \in Guards |-> "none"]
    /\ keys = [g \in Guards |-> <<>>]
    /\ curr = [g \in Guards |-> 1]
    /\ begin = [g \in Guards |-> 1]
    /\ dedup = [g \in Guards |-> FALSE]
    /\ foreign = [g \in Guards |-> FALSE]

-----------------------------------------------------------------------------
(* MemLockCore.                                                            *)

Inserted(k) == holder[k] # Nobody

\* Mutation: try_lock() inserts or assigns.
TryLockAnyway(u, k) ==
    /\ holder[k] # u
    /\ holder' = [holder EXCEPT ![k] = u]
    /\ UNCHANGED guardVars

\* try_lock() that returns true; otherwise it changes nothing.
TryLock(u, k) ==
    /\ ~Inserted(k)
    /\ holder' = [holder EXCEPT ![k] = u]
    /\ UNCHANGED guardVars

\* unlock(), by the user that locked the key.
Unlock(u, k) ==
    /\ holder[k] = u
    /\ holder' = [holder EXCEPT ![k] = Nobody]
    /\ UNCHANGED guardVars

-----------------------------------------------------------------------------
(* MemLockGuard.                                                           *)

\* std::sort(): the same keys, as often as before, in order.
Sorted(list) ==
    {s \in [DOMAIN list -> KeysOf(list)] :
        /\ \A i, j \in DOMAIN list : i < j => s[i] <= s[j]
        /\ \A k \in KeysOf(list) :
              Cardinality({i \in DOMAIN list : s[i] = k})
                  = Cardinality({i \in DOMAIN list : list[i] = k})}

\* std::unique(): each key once, in order, in front; the elements behind the
\* new end are what they were.
Uniqued(list) ==
    LET last == Cardinality(KeysOf(list))
    IN  {u \in [DOMAIN list -> KeysOf(list)] :
            /\ \A i, j \in 1 .. last : i < j => u[i] < u[j]
            /\ \A i \in DOMAIN list : i > last => u[i] = list[i]}

\* The constructor up to lockBatch(): with dedup the keys are sorted and made
\* unique, but not cut at the new end.
Construct(g) ==
    /\ state[g] = "none"
    /\ \E list \in KeyLists, d \in BOOLEAN :
          /\ IF d
             THEN \E s \in Sorted(list) : \E u \in Uniqued(s) : keys' = [keys EXCEPT ![g] = u]
             ELSE keys' = [keys EXCEPT ![g] = list]
          /\ dedup' = [dedup EXCEPT ![g] = d]
    /\ state' = [state EXCEPT ![g] = "locking"]
    /\ UNCHANGED <<holder, curr, begin, foreign>>

Current(g) == keys[g][curr[g]]

\* lockBatch(), one round of its loop: the key is new to the map ...
Insert(g) ==
    /\ state[g] = "locking"
    /\ curr[g] <= Len(keys[g])
    /\ ~Inserted(Current(g))
    /\ holder' = [holder EXCEPT ![Current(g)] = g]
    /\ curr' = [curr EXCEPT ![g] = @ + 1]
    /\ UNCHANGED <<state, keys, begin, dedup, foreign>>

\* Mutations: the conflicting key is rolled back with the others; the keys
\* before it are not rolled back; the guard tries the key again until it is free.
ConflictRollingBackToo(g) ==
    /\ state[g] = "locking"
    /\ curr[g] <= Len(keys[g])
    /\ Inserted(Current(g))
    /\ foreign' = [foreign EXCEPT ![g] = holder[Current(g)] # g]
    /\ state' = [state EXCEPT ![g] = "rollback"]
    /\ curr' = [curr EXCEPT ![g] = @ + 1]
    /\ UNCHANGED <<holder, keys, begin, dedup>>

ConflictKeepingKeys(g) ==
    /\ state[g] = "locking"
    /\ curr[g] <= Len(keys[g])
    /\ Inserted(Current(g))
    /\ foreign' = [foreign EXCEPT ![g] = holder[Current(g)] # g]
    /\ state' = [state EXCEPT ![g] = "failed"]
    /\ UNCHANGED <<holder, keys, curr, begin, dedup>>

ConflictRetrying(g) ==
    /\ state[g] = "locking"
    /\ curr[g] <= Len(keys[g])
    /\ Inserted(Current(g))
    /\ UNCHANGED vars

\* ... or it is there, and lockBatch() takes back the keys before it.
Conflict(g) ==
    /\ state[g] = "locking"
    /\ curr[g] <= Len(keys[g])
    /\ Inserted(Current(g))
    /\ foreign' = [foreign EXCEPT ![g] = holder[Current(g)] # g]
    /\ state' = [state EXCEPT ![g] = "rollback"]
    /\ UNCHANGED <<holder, keys, curr, begin, dedup>>

\* lockBatch() has inserted every key.
Locked(g) ==
    /\ state[g] = "locking"
    /\ curr[g] > Len(keys[g])
    /\ state' = [state EXCEPT ![g] = "locked"]
    /\ UNCHANGED <<holder, keys, curr, begin, dedup, foreign>>

\* Mutation: unlockBatch() ends one key early.
EraseAllButLast(g) ==
    /\ state[g] \in {"rollback", "unlocking"}
    /\ begin[g] < curr[g]
    /\ holder' = IF begin[g] + 1 < curr[g]
                 THEN [holder EXCEPT ![keys[g][begin[g]]] = Nobody]
                 ELSE holder
    /\ begin' = [begin EXCEPT ![g] = @ + 1]
    /\ UNCHANGED <<state, keys, curr, dedup, foreign>>

\* Mutation: unlockBatch() takes its end for one of the keys, where it is one.
EraseEndToo(g) ==
    /\ state[g] \in {"rollback", "unlocking"}
    /\ begin[g] <= curr[g]
    /\ begin[g] <= Len(keys[g])
    /\ holder' = [holder EXCEPT ![keys[g][begin[g]]] = Nobody]
    /\ begin' = [begin EXCEPT ![g] = @ + 1]
    /\ UNCHANGED <<state, keys, curr, dedup, foreign>>

\* unlockBatch(), one round of its loop.  Its end is curr: the conflicting
\* key in lockBatch(), the end of m_keys in the destructor.
Erase(g) ==
    /\ state[g] \in {"rollback", "unlocking"}
    /\ begin[g] < curr[g]
    /\ holder' = [holder EXCEPT ![keys[g][begin[g]]] = Nobody]
    /\ begin' = [begin EXCEPT ![g] = @ + 1]
    /\ UNCHANGED <<state, keys, curr, dedup, foreign>>

RolledBack(g) ==
    /\ state[g] = "rollback"
    /\ begin[g] = curr[g]
    /\ state' = [state EXCEPT ![g] = "failed"]
    /\ UNCHANGED <<holder, keys, curr, begin, dedup, foreign>>

\* The destructor: a locked guard unlocks its batch ...
Unlocking(g) ==
    /\ state[g] = "locked"
    /\ state' = [state EXCEPT ![g] = "unlocking"]
    /\ UNCHANGED <<holder, keys, curr, begin, dedup, foreign>>

\* ... and then, or if it was not locked at once, the members go.
Destruct(g) ==
    /\ \/ state[g] = "failed"
       \/ state[g] = "unlocking" /\ begin[g] = curr[g]
    /\ state' = [state EXCEPT ![g] = "none"]
    /\ keys' = [keys EXCEPT ![g] = <<>>]
    /\ curr' = [curr EXCEPT ![g] = 1]
    /\ begin' = [begin EXCEPT ![g] = 1]
    /\ dedup' = [dedup EXCEPT ![g] = FALSE]
    /\ foreign' = [foreign EXCEPT ![g] = FALSE]
    /\ UNCHANGED holder

-----------------------------------------------------------------------------

Guard(g) ==
    \/ Insert(g)
    \/ Conflict(g)
    \/ Locked(g)
    \/ Erase(g)
    \/ RolledBack(g)

Next ==
    \/ \E u \in Users, k \in Keys : TryLock(u, k) \/ Unlock(u, k)
    \/ \E g \in Guards : Construct(g) \/ Guard(g) \/ Unlocking(g) \/ Destruct(g)

Spec == Init /\ [][Next]_vars

\* A thread inside the constructor or the destructor goes on; how long a guard
\* lives, and when a user unlocks, is up to them.
Fairness == \A g \in Guards : WF_vars(Guard(g))

FairSpec == Spec /\ Fairness

-----------------------------------------------------------------------------
(* Properties.                                                             *)

\* Every variable keeps its type, the iterators stay inside their vectors, and
\* unlockBatch() does not run past its end.
TypeOK ==
    /\ holder \in [Keys -> Holders \cup {Nobody}]
    /\ state \in [Guards -> {"none", "locking", "locked", "rollback", "failed",
                             "unlocking"}]
    /\ keys \in [Guards -> Seq(Keys)]
    /\ curr \in [Guards -> Nat \ {0}]
    /\ begin \in [Guards -> Nat \ {0}]
    /\ dedup \in [Guards -> BOOLEAN]
    /\ foreign \in [Guards -> BOOLEAN]
    /\ \A g \in Guards : curr[g] <= Len(keys[g]) + 1 /\ begin[g] <= curr[g]

\* A guard that isLocked() has every key of its batch, whatever the others
\* insert and take back: none of them erases a key it did not insert, though
\* the map does not know who did.
LockedGuardHoldsItsKeys ==
    \A g \in Guards : state[g] = "locked" =>
        \A k \in KeysOf(keys[g]) : holder[k] = g

\* A batch is all or nothing: a key stays in the map only as long as the guard
\* that inserted it is locked, on its way there or on its way back.  A guard
\* that failed, or is gone, leaves none behind.
NothingIsLeaked ==
    \A g \in Guards, k \in Keys : holder[k] = g =>
        /\ state[g] \notin {"none", "failed"}
        /\ \E i \in begin[g] .. curr[g] - 1 : keys[g][i] = k

\* A guard whose batch names no key twice fails only over a key that somebody
\* else had inserted, not over its own, not over one left behind.
ConflictIsForeign ==
    \A g \in Guards :
        state[g] \in {"rollback", "failed"} /\ ~HasDuplicate(keys[g]) => foreign[g]

\* "Only has non-blocking try-lock interface" (MemLockCore.h:6): a guard's
\* constructor ends, whatever the other threads hold and for how long.
TryNeverBlocks ==
    \A g \in Guards : state[g] = "locking" ~> state[g] \in {"locked", "failed"}

\* A guard told to drop duplicates fails over "the first conflict key"
\* (MemLockWrapper.h:63) of somebody else, duplicates or not.
DedupDropsDuplicates ==
    \A g \in Guards : state[g] = "failed" /\ dedup[g] => foreign[g]

\* The abstract table: a guard has its batch from the moment it is locked to
\* the moment its destructor begins, a user its keys all along.
Table == INSTANCE KeyLocks
    WITH held <- [h \in Holders |->
                    IF h \in Users THEN {k \in Keys : holder[k] = h}
                    ELSE IF state[h] = "locked" THEN KeysOf(keys[h])
                    ELSE {}]

\* MemLock implements KeyLocks: a batch is taken in one step or not at all.
ImplementsKeyLocks == Table!Spec

=============================================================================
