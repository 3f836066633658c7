--------------------------- MODULE ManagedOperations ---------------------------
(***************************************************************************)
(* The operations of a manager (resources/base.py BaseManager              *)
(* .protected_operation) and what becomes of their errors                  *)
(* (system_error_recovery_simple.py), for the two managers that agents     *)
(* use: AgentContextManager and CacheManager (resources/managers/), the    *)
(* second through the InterfaceCache of interfaces/agent/cache.py.  Calls  *)
(* are coroutines of one loop; an action is what one does between two      *)
(* awaits.  Every operation has an asyncio.Lock of its own.  A failed      *)
(* operation is handled under that lock and again after it, and an         *)
(* operation whose errors were counted too often has the manager clean up  *)
(* by force.  With the configuration the program gives it, the cleanup of  *)
(* the cache finds nothing to do.  The content of an entry is left out,    *)
(* and so is the error of a context that grew too large (agent_context.py  *)
(* 189, 248), which would have the manager clean up at the first failure:  *)
(* it is raised only under memory thresholds, and none of the program's    *)
(* context managers is given any (lifecycle.py:87, interface.py:57,        *)
(* main.py:785, phase_one_cli.py:69, agent_validation.py 96, 441, 713).    *)
(***************************************************************************)
EXTENDS Naturals, Sequences, FiniteSets, SequencesExt

CONSTANTS
    ManagedCalls,   \* the calls that may be under way at a time
    EntryIds,       \* agents, or keys of the cache
    max_entries,    \* CleanupConfig.max_size of the cache
    MaxFailed       \* bound: failed calls

ASSUME EntriesAssumption == max_entries \in Nat

VARIABLES
    manager,          \* "contexts" or "cache"
    entries,          \* _agent_contexts, or _cache
    resource_sizes,   \* the ids that the memory monitor has a size of
    operation_locks,  \* operation -> the calls that hold or await its lock, in order
    error_counts,     \* operation -> errors handled (SimpleErrorHandler)
    critical,         \* the health tracker calls the manager critical
    managed,          \* call -> what it does
    failed,           \* history: operation -> calls of it that failed
    wiped,            \* history: a forced cleanup has removed an entry
    dropped           \* history: ids whose size outlived their entry

managedVars == <<manager, entries, resource_sizes, operation_locks, error_counts,
                 critical, managed, failed, wiped, dropped>>
accounts == <<error_counts, critical, failed, wiped>>

Operations == {"create_context", "update_context", "get_context",
               "set_cache", "get_cache", "invalidate_cache"}
OperationsOf(m) == {op \in Operations : op \in {"set_cache", "get_cache", "invalidate_cache"}
                                            <=> m = "cache"}
ContextTypes == {"FRESH", "PERSISTENT", "SLIDING_WINDOW"}
Retries == 3        \* InterfaceCache.set_cache_with_retries, and get_cache
FatalAfter == 5     \* SimpleErrorHandler.handle_error
CleanUpAfter == 3   \* SimpleErrorHandler.requires_forced_cleanup

\* At work on the function, under its timeout; or handling an error of it.
Working == {"tracking", "evicting", "evicted", "working"}
Handling == {"counted", "assessed", "cleaning"}

NoManaged == [at |-> "idle", operation |-> "none", id |-> "none",
              tries |-> 0, left |-> {}, fatal |-> FALSE, outside |-> FALSE]

ManagedInit ==
    /\ manager \in {"contexts", "cache"}
    /\ entries = {} /\ resource_sizes = {} /\ dropped = {} /\ wiped = FALSE
    /\ operation_locks = [op \in Operations |-> <<>>]
    /\ error_counts = [op \in Operations |-> 0]
    /\ failed = [op \in Operations |-> 0]
    /\ critical = FALSE
    /\ managed = [c \in ManagedCalls |-> NoManaged]

Holds(c, op) == operation_locks[op] # <<>> /\ Head(operation_locks[op]) = c
At(c, place) == managed[c].at = place
GoesTo(c, place) == managed' = [managed EXCEPT ![c].at = place]

\* A call's turn: it has the lock of its operation and has not begun.  What it is
\* about matters only now, so it is chosen now, unless it is tried again.
Enters(c, op, id) ==
    /\ At(c, "queued") /\ managed[c].operation = op /\ Holds(c, op)
    /\ managed[c].id \in {"none", id}

\* A lock released by its holder goes to the next in its queue.
Release(op) == operation_locks' = [operation_locks EXCEPT ![op] = Tail(@)]

\* An entry and its size go.
Removes(id) ==
    /\ entries' = entries \ {id} /\ resource_sizes' = resource_sizes \ {id}
    /\ dropped' = dropped \ {id}

-----------------------------------------------------------------------------
\* handle_error: an error is counted as it is handled, and judged by the count.
\* One of a call's own handlings is under the lock, one outside.
Counts(c, id, outside) ==
    LET op == managed[c].operation
    IN  /\ error_counts' = [error_counts EXCEPT ![op] = @ + 1]
        /\ managed' = [managed EXCEPT ![c] = [@ EXCEPT
                !.at = "counted", !.outside = outside, !.left = {},
                !.id = IF managed[c].tries > 1 THEN id ELSE "none",
                !.fatal = error_counts'[op] > FatalAfter]]

\* The function of an operation raises, or its time is over.  The strategies
\* that these errors carry ("use_existing", "retry_with_backoff") clean up nothing.
Fails(c, id) ==
    LET op == managed[c].operation
    IN  /\ SumFunction(failed) < MaxFailed
        /\ failed' = [failed EXCEPT ![op] = @ + 1]
        /\ Counts(c, id, FALSE)
        /\ UNCHANGED <<critical, wiped>>

\* The call returns to its caller, or InterfaceCache tries again.
TriesAgain(c) ==
    LET op == managed[c].operation
    IN  /\ managed[c].tries > 1
        /\ managed' = [managed EXCEPT ![c] =
                          [NoManaged EXCEPT !.at = "queued", !.operation = op,
                              !.id = managed[c].id, !.tries = managed[c].tries - 1]]
        /\ operation_locks' = [operation_locks EXCEPT ![op] = Append(@, c)]

Returns(c) == managed' = [managed EXCEPT ![c] = NoManaged]

\* The function returned: the manager is healthy, and the lock is released.  A
\* metric that fails after a success has InterfaceCache try again.
Succeeds(c, id) ==
    LET op == managed[c].operation
        rest == Tail(operation_locks[op])
    IN  /\ critical' = FALSE
        /\ \/ operation_locks' = [operation_locks EXCEPT ![op] = rest] /\ Returns(c)
           \/ /\ managed[c].tries > 1
              /\ operation_locks' = [operation_locks EXCEPT ![op] = Append(rest, c)]
              /\ managed' = [managed EXCEPT ![c].at = "queued", ![c].id = id, ![c].tries = @ - 1]
        /\ UNCHANGED <<error_counts, failed, wiped>>

-----------------------------------------------------------------------------
\* Mutants: mistakes the properties must reject.  No run uses them as they
\* stand; each is put in the place of the definition it is named after.

\* Mutant: the first error of an operation has the manager clean up.
MustCleanUp_AtOnce(c) == managed[c].fatal \/ error_counts[managed[c].operation] > 0

-----------------------------------------------------------------------------
\* protected_operation: the call asks for the lock of its operation.
Calls(c, op) ==
    /\ At(c, "idle") /\ op \in OperationsOf(manager)
    /\ managed' = [managed EXCEPT ![c] =
                      [NoManaged EXCEPT !.at = "queued", !.operation = op,
                          !.tries = IF op \in {"set_cache", "get_cache"} THEN Retries ELSE 1]]
    /\ operation_locks' = [operation_locks EXCEPT ![op] = Append(@, c)]
    /\ UNCHANGED <<manager, entries, resource_sizes, accounts, dropped>>

\* create_context: a persistent context that exists is an error, a sliding one
\* is answered with, a fresh one replaces what there is.
Creates(c, id, type) ==
    LET known == id \in entries /\ type # "FRESH"
    IN  /\ Enters(c, "create_context", id)
        /\ \/ /\ known /\ type = "PERSISTENT" /\ Fails(c, id)
              /\ UNCHANGED <<entries, operation_locks>>
           \/ /\ known /\ type = "SLIDING_WINDOW" /\ Succeeds(c, id)
              /\ UNCHANGED entries
           \/ /\ ~known /\ entries' = entries \cup {id}
              /\ managed' = [managed EXCEPT ![c].at = "tracking", ![c].id = id]
              /\ UNCHANGED <<operation_locks, accounts>>
        /\ dropped' = dropped \ entries'
        /\ UNCHANGED <<manager, resource_sizes>>

\* track_resource: it may first have had to start the event queue.
TracksResource(c) ==
    LET id == managed[c].id
    IN  /\ At(c, "tracking")
        /\ managed' = [managed EXCEPT ![c].at = "working", ![c].id = "none"]
        /\ resource_sizes' = resource_sizes \cup {id}
        /\ dropped' = IF id \in entries THEN dropped ELSE dropped \cup {id}
        /\ UNCHANGED <<manager, entries, operation_locks, accounts>>

\* get_context, get_cache, and update_context, which raises for what is not there.
Consults(c, id) ==
    /\ \E op \in {"update_context", "get_context", "get_cache"} : Enters(c, op, id)
    /\ \/ /\ managed[c].operation = "update_context" /\ id \notin entries
          /\ Fails(c, id) /\ UNCHANGED operation_locks
       \/ /\ managed[c].operation = "update_context" => id \in entries
          /\ Succeeds(c, id)
    /\ resource_sizes' = IF manager = "contexts" /\ id \in entries
                         THEN resource_sizes \cup {id} ELSE resource_sizes
    /\ UNCHANGED <<manager, entries, dropped>>

\* set_cache stores; a value too large is stored too before it is refused.
Stores(c, id) ==
    /\ entries' = entries \cup {id} /\ resource_sizes' = resource_sizes \cup {id}
    /\ \/ Fails(c, id)
       \/ /\ managed' = [managed EXCEPT ![c].at = "working", ![c].id = id]
          /\ UNCHANGED accounts
    /\ UNCHANGED dropped

\* A full cache first has the oldest entry invalidated, an operation in itself.
\* The oldest is the one whose caller came first, which need not have been
\* stored first.
Full == Cardinality(entries) >= max_entries

SetsCache(c, id) ==
    /\ Enters(c, "set_cache", id)
    /\ \/ ~Full /\ Stores(c, id) /\ UNCHANGED operation_locks
       \/ /\ Full
          /\ \E oldest \in entries :
                managed' = [managed EXCEPT ![c].at = "evicting", ![c].id = id,
                                           ![c].left = {oldest}]
          /\ operation_locks' = [operation_locks EXCEPT !["invalidate_cache"] = Append(@, c)]
          /\ UNCHANGED <<entries, resource_sizes, accounts, dropped>>
    /\ UNCHANGED manager

Evicts(c) ==
    /\ At(c, "evicting") /\ Holds(c, "invalidate_cache")
    /\ managed' = [managed EXCEPT ![c].at = "evicted", ![c].left = {}]
    /\ \E oldest \in managed[c].left : Removes(oldest)
    /\ UNCHANGED <<manager, operation_locks, accounts>>

StoresAfter(c) ==
    /\ At(c, "evicted") /\ Release("invalidate_cache") /\ Stores(c, managed[c].id)
    /\ UNCHANGED manager

Invalidates(c, id) ==
    /\ Enters(c, "invalidate_cache", id) /\ GoesTo(c, "working")
    /\ Removes(id)
    /\ UNCHANGED <<manager, operation_locks, accounts>>

Finishes(c) ==
    /\ At(c, "working") /\ Succeeds(c, managed[c].id)
    /\ UNCHANGED <<manager, entries, resource_sizes, dropped>>

\* qasync_wait_for gives up.  A nested operation gives its lock back.
TimesOut(c) ==
    /\ managed[c].at \in Working /\ Fails(c, managed[c].id)
    /\ operation_locks' = [operation_locks EXCEPT !["invalidate_cache"] =
           IF managed[c].operation = "set_cache"
           THEN RemoveFirst(@, c) ELSE @]
    /\ UNCHANGED <<manager, entries, resource_sizes, dropped>>

-----------------------------------------------------------------------------
\* handle_operation_error: the health is set after the error's event.
Assesses(c) ==
    /\ At(c, "counted") /\ GoesTo(c, "assessed")
    /\ critical' = managed[c].fatal
    /\ UNCHANGED <<manager, entries, resource_sizes, operation_locks, error_counts,
                   failed, wiped, dropped>>

\* Severe, or counted too often: every entry there is now is to go.
MustCleanUp(c) == managed[c].fatal \/ error_counts[managed[c].operation] > CleanUpAfter

\* The error is raised again: out of the lock, where it is handled once more, or
\* to the caller.
Raises(c) ==
    \/ /\ ~managed[c].outside /\ Counts(c, managed[c].id, TRUE) /\ Release(managed[c].operation)
       /\ UNCHANGED <<critical, failed, wiped>>
    \/ /\ managed[c].outside /\ UNCHANGED accounts
       /\ \/ TriesAgain(c)
          \/ managed[c].tries <= 1 /\ Returns(c) /\ UNCHANGED operation_locks

Decides(c) ==
    /\ At(c, "assessed")
    /\ \/ /\ MustCleanUp(c) /\ manager = "contexts"
          /\ managed' = [managed EXCEPT ![c].at = "cleaning", ![c].left = entries]
          /\ UNCHANGED <<operation_locks, accounts>>
       \/ (MustCleanUp(c) => manager = "cache") /\ Raises(c)
    /\ UNCHANGED <<manager, entries, resource_sizes, dropped>>

\* _cleanup_context, an await for each, whatever became of it in between.
CleansUp(c) ==
    /\ At(c, "cleaning")
    /\ \E id \in managed[c].left :
          /\ managed' = [managed EXCEPT ![c].left = @ \ {id}]
          /\ wiped' = (wiped \/ id \in entries)
          /\ Removes(id)
    /\ UNCHANGED <<manager, operation_locks, error_counts, critical, failed>>

CleanedUp(c) ==
    /\ At(c, "cleaning") /\ managed[c].left = {} /\ Raises(c)
    /\ UNCHANGED <<manager, entries, resource_sizes, dropped>>

\* Cancelled at an await: the locks are released, nothing is handled.
Cancelled(c) ==
    /\ managed[c].at # "idle" /\ Returns(c)
    /\ operation_locks' = [op \in Operations |-> RemoveFirst(operation_locks[op], c)]
    /\ UNCHANGED <<manager, entries, resource_sizes, accounts, dropped>>

\* AgentInterface._cleanup_operation_context takes a context out of the manager
\* and leaves its size behind.
InterfaceDrops(id) ==
    /\ manager = "contexts" /\ id \in entries
    /\ entries' = entries \ {id}
    /\ dropped' = IF id \in resource_sizes THEN dropped \cup {id} ELSE dropped
    /\ UNCHANGED <<manager, resource_sizes, operation_locks, accounts, managed>>

ManagedNext ==
    \/ \E c \in ManagedCalls :
          \/ \E op \in Operations : Calls(c, op)
          \/ \E id \in EntryIds :
                \/ \E type \in ContextTypes : Creates(c, id, type)
                \/ Consults(c, id) \/ SetsCache(c, id) \/ Invalidates(c, id)
          \/ TracksResource(c) \/ Evicts(c) \/ StoresAfter(c) \/ Finishes(c) \/ TimesOut(c)
          \/ Assesses(c) \/ Decides(c) \/ CleansUp(c) \/ CleanedUp(c) \/ Cancelled(c)
    \/ \E id \in EntryIds : InterfaceDrops(id)

ManagedSpec == ManagedInit /\ [][ManagedNext]_managedVars

-----------------------------------------------------------------------------
\* The types of the variables.
ManagedTypeOK ==
    /\ manager \in {"contexts", "cache"}
    /\ entries \subseteq EntryIds /\ resource_sizes \subseteq EntryIds
    /\ dropped \subseteq EntryIds /\ wiped \in BOOLEAN
    /\ operation_locks \in [Operations -> Seq(ManagedCalls)]
    /\ error_counts \in [Operations -> Nat] /\ failed \in [Operations -> Nat]
    /\ critical \in BOOLEAN
    /\ managed \in [ManagedCalls ->
           [at : {"idle", "queued"} \cup Working \cup Handling,
            operation : Operations \cup {"none"}, id : EntryIds \cup {"none"},
            tries : 0 .. Retries, left : SUBSET EntryIds,
            fatal : BOOLEAN, outside : BOOLEAN]]

\* Calls of an operation that failed and are still to be handled outside its lock.
Pending(op) == {c \in ManagedCalls : managed[c].operation = op
                                        /\ managed[c].at \in Handling /\ ~managed[c].outside}

\* Errors and their consequences go together: a failed call is counted twice and
\* no more, the lock of an operation stays with the call at work on it, contexts
\* of other agents are swept away only after an operation failed a second time,
\* the manager is called critical only after a third, and the cache keeps to its
\* size whatever is evicted and invalidated meanwhile.
ErrorsHandledOnce ==
    /\ \A op \in Operations :
          /\ error_counts[op] + Cardinality(Pending(op)) <= 2 * failed[op]
          /\ Pending(op) # {} => \E c \in Pending(op) : Holds(c, op)
    /\ wiped => \E op \in Operations : failed[op] >= 2
    /\ critical => \E op \in Operations : failed[op] >= 3
    /\ manager = "cache" => Cardinality(entries) <= max_entries

\* The memory monitor's sizes are those of the entries: a size outlives its entry
\* only where the entry was taken out behind the manager's back, or was gone
\* before its size was noted.
SizesOfEntries == resource_sizes \ entries \subseteq dropped
=============================================================================
