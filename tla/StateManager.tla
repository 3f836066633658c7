---------------------------- MODULE StateManager ----------------------------
(***************************************************************************)
(* resources/state/manager.py (StateManager) with its memory backend and    *)
(* validators.py, the only backend that can be instantiated.  Entries are   *)
(* kept twice: in a cache of limited size, whose order of eviction is a list *)
(* of keys kept apart from it, and in the backend, with a history and        *)
(* periodic snapshots.  No call suspends before it has done all of this, so  *)
(* a call is a step.  Calls from other threads than the manager's never      *)
(* return (they resubmit themselves) and change nothing.                     *)
(***************************************************************************)
EXTENDS Naturals, Sequences, SequencesExt

CONSTANTS
    ResourceIds,       \* ids under which state is kept
    States,            \* states in use, of those listed below
    cache_size,        \* 1000 by default
    SnapshotInterval,  \* transitions between snapshots, 10
    MaxWrites          \* bound: entries written

ASSUME StateSizesAssumption ==
    cache_size \in Nat \ {0} /\ SnapshotInterval \in Nat \ {0} /\ MaxWrites \in Nat

\* StateTransitionValidator; every other state is a dict or a string.
ResourceTransitions ==
    [ACTIVE     |-> {"PAUSED", "FAILED", "TERMINATED"},
     PAUSED     |-> {"ACTIVE", "TERMINATED"},
     FAILED     |-> {"RECOVERED", "TERMINATED"},
     RECOVERED  |-> {"ACTIVE", "TERMINATED"},
     TERMINATED |-> {}]

InterfaceTransitions ==
    [INITIALIZED |-> {"I_ACTIVE", "ERROR"},
     I_ACTIVE    |-> {"DISABLED", "ERROR", "VALIDATING"},
     DISABLED    |-> {"I_ACTIVE"},
     ERROR       |-> {"INITIALIZED", "DISABLED"},
     VALIDATING  |-> {"I_ACTIVE", "ERROR", "PROPAGATING"},
     PROPAGATING |-> {"I_ACTIVE", "ERROR"}]

IsResourceState(s) == s \in DOMAIN ResourceTransitions
IsEnum(s) == IsResourceState(s) \/ s \in DOMAIN InterfaceTransitions

ASSUME StatesAssumption == \E s \in States : ~IsEnum(s)

VARIABLES
    cache,      \* _states_cache
    cacheKeys,  \* _cache_keys, the next to be evicted first
    store,      \* the backend's _states
    history,    \* the backend's _history
    snapshots,  \* the backend's _snapshots
    writes      \* entries written; an entry's number tells it from others

stateVars == <<cache, cacheKeys, store, history, snapshots, writes>>

Entries == [state : States, number : 1..MaxWrites]

StateInit ==
    /\ cache = << >> /\ cacheKeys = << >> /\ store = << >>
    /\ history = [r \in ResourceIds |-> << >>]
    /\ snapshots = [r \in ResourceIds |-> << >>]
    /\ writes = 0

\* The states of a sequence of keys that survive the cut to the cache's size.
Newest(keys) ==
    SubSeq(keys, IF Len(keys) > cache_size THEN Len(keys) - cache_size + 1 ELSE 1, Len(keys))

-----------------------------------------------------------------------------
(* Mutants: mistakes the properties must reject.  No run uses them as they *)
(* stand; each is put in the place of the definition it is named after.    *)

\* Mutant: a key that loses its place keeps its entry.
Cached_KeepsEvicted(r, entry) ==
    /\ cacheKeys' = Newest(Append(RemoveFirst(cacheKeys, r), r))
    /\ cache' = [q \in DOMAIN cache \union {r} |-> IF q = r THEN entry ELSE cache[q]]

\* Mutant: the entry stays in the cache.
DeleteState_KeepsCache(r) ==
    /\ r \in DOMAIN store
    /\ store' = [q \in DOMAIN store \ {r} |-> store[q]]
    /\ history' = [history EXCEPT ![r] = << >>]
    /\ snapshots' = [snapshots EXCEPT ![r] = << >>]
    /\ UNCHANGED <<cache, cacheKeys, writes>>

-----------------------------------------------------------------------------
\* _update_cache: the key goes to the end, and the oldest keys lose their
\* entries if there are too many, keys of deleted entries counted.
Cached(r, entry) ==
    LET others == RemoveFirst(cacheKeys, r)
        keys == Newest(Append(others, r))
        evicted == ToSet(others) \ ToSet(keys)
    IN  /\ cacheKeys' = keys
        /\ cache' = [q \in (DOMAIN cache \union {r}) \ evicted |->
                        IF q = r THEN entry ELSE cache[q]]

\* validate_transition, for the states that set_state asks it about.
Valid(from, to) ==
    \/ from = to
    \/ ~IsEnum(from) \/ ~IsEnum(to)
    \/ IsResourceState(from) /\ to \in ResourceTransitions[from]
    \/ ~IsResourceState(from) /\ IsEnum(from) /\ to \in InterfaceTransitions[from]

\* The entry a call works with: the cached one, else the stored one.
Known(r) == r \in DOMAIN cache \union DOMAIN store
Current(r) == IF r \in DOMAIN cache THEN cache[r] ELSE store[r]

\* get_state, version None, use_cache True: an entry found only in the backend
\* is put into the cache.
Read(r) ==
    /\ IF r \in DOMAIN store \ DOMAIN cache
         THEN Cached(r, store[r])
         ELSE UNCHANGED <<cache, cacheKeys>>
    /\ UNCHANGED <<store, history, snapshots, writes>>

\* set_state, past validation: cache, backend with its history, a snapshot if
\* due.
Write(r, state) ==
    LET entry == [state |-> state, number |-> writes + 1]
        past == Append(history[r], state)
    IN  /\ writes < MaxWrites
        /\ writes' = writes + 1
        /\ Cached(r, entry)
        /\ store' = [q \in DOMAIN store \union {r} |-> IF q = r THEN entry ELSE store[q]]
        /\ history' = [history EXCEPT ![r] = past]
        /\ snapshots' = IF Len(past) % SnapshotInterval = 0
                          THEN [snapshots EXCEPT ![r] = Append(@, state)]
                          ELSE snapshots

\* IF the transition is illegal THEN ValueError, ELSE the state is written.
SetState(r, state) ==
    /\ Known(r) => Valid(Current(r).state, state)
    /\ Write(r, state)

GetState(r) == Read(r)

\* IF the resource exists in a resource state that may fail THEN it fails, ELSE
\* it has only been read.
MarkAsFailed(r) ==
    IF Known(r) /\ IsResourceState(Current(r).state) /\ Valid(Current(r).state, "FAILED")
      THEN "FAILED" \in States /\ Write(r, "FAILED")
      ELSE Read(r)

MarkAsRecovered(r) ==
    IF Known(r) /\ Current(r).state = "FAILED"
      THEN "RECOVERED" \in States /\ Write(r, "RECOVERED")
      ELSE Read(r)

\* The final snapshot is asked for with what set_state returns, a boolean: the
\* call ends with None and without a snapshot, but the resource is terminated.
TerminateResource(r) ==
    IF Known(r) /\ IsResourceState(Current(r).state) /\ Current(r).state # "TERMINATED"
      THEN "TERMINATED" \in States /\ Write(r, "TERMINATED")
      ELSE Read(r)

\* The snapshot's state goes through set_state, which may refuse it.
RecoverFromSnapshot(r) ==
    \E i \in DOMAIN snapshots[r] : SetState(r, snapshots[r][i])

\* delete_state, of one or (clear_workflow_states) of several one by one.  The
\* key stays in the list of the cache.
DeleteState(r) ==
    /\ r \in DOMAIN store
    /\ cache' = [q \in DOMAIN cache \ {r} |-> cache[q]]
    /\ store' = [q \in DOMAIN store \ {r} |-> store[q]]
    /\ history' = [history EXCEPT ![r] = << >>]
    /\ snapshots' = [snapshots EXCEPT ![r] = << >>]
    /\ UNCHANGED <<cacheKeys, writes>>

StateNext ==
    \E r \in ResourceIds :
        \/ \E s \in States : SetState(r, s)
        \/ GetState(r) \/ MarkAsFailed(r) \/ MarkAsRecovered(r)
        \/ TerminateResource(r) \/ RecoverFromSnapshot(r) \/ DeleteState(r)

-----------------------------------------------------------------------------
(* Properties *)

\* Every variable keeps its type; the list of keys has each key once, holds
\* every cached key and does not outgrow the cache.
StateTypeOK ==
    /\ DOMAIN cache \subseteq ResourceIds /\ DOMAIN store \subseteq ResourceIds
    /\ \A r \in DOMAIN cache : cache[r] \in Entries
    /\ \A r \in DOMAIN store : store[r] \in Entries
    /\ cacheKeys \in Seq(ResourceIds) /\ Len(cacheKeys) <= cache_size
    /\ \A i, j \in 1..Len(cacheKeys) : cacheKeys[i] = cacheKeys[j] => i = j
    /\ DOMAIN cache \subseteq ToSet(cacheKeys)
    /\ history \in [ResourceIds -> Seq(States)]
    /\ snapshots \in [ResourceIds -> Seq(States)]
    /\ writes \in 0..MaxWrites

\* Whatever was evicted, deleted, written again or loaded, nobody reads from
\* the cache what the backend does not hold.
CacheAgreesWithStore ==
    \A r \in DOMAIN cache : r \in DOMAIN store /\ cache[r] = store[r]

\* The records of a resource tell one life of it, however it came to its
\* states (set, failed, recovered, terminated or restored from a snapshot): its
\* history is a run of legal transitions that ends in its present state, and
\* its snapshots are the states of that run at every interval.
LifeRecorded ==
    \A r \in ResourceIds :
        /\ r \in DOMAIN store => history[r] # << >> /\ Last(history[r]) = store[r].state
        /\ r \notin DOMAIN store => history[r] = << >>
        /\ \A i \in 1..(Len(history[r]) - 1) : Valid(history[r][i], history[r][i + 1])
        /\ snapshots[r] = [i \in 1..(Len(history[r]) \div SnapshotInterval) |->
                              history[r][i * SnapshotInterval]]

\* Cache, backend, history and snapshots tell the same life of a resource.
StatesAgree == CacheAgreesWithStore /\ LifeRecorded
=============================================================================
